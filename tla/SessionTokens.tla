----------------------------- MODULE SessionTokens -----------------------------
(***************************************************************************)
(* What rotation promises about refresh tokens.  A token is valid from the *)
(* time it is issued until it is spent, once and for all.  Whoever issues  *)
(* one opens a session with it, or carries out an exchange: he was shown a *)
(* token of the session while it was valid, and gives one for it when it   *)
(* is no longer.                                                           *)
(*                                                                         *)
(* Accounts implements this specification under the refinement mapping     *)
(* given there.                                                            *)
(***************************************************************************)
CONSTANTS
    Tokens,       \* names of refresh tokens
    None,         \* the session of a token that was not issued
    Handles       \* names of exchanges under way

VARIABLES
    session,      \* session[t]: the session of t
    valid,        \* tokens a session can be continued with
    exchanges     \* <<h, t>>: exchange h was shown t

svars == <<session, valid, exchanges>>

SessionInit ==
    /\ session   = [t \in Tokens |-> None]
    /\ valid     = {}
    /\ exchanges = {}

(* The one way to become valid. *)
Issue(t, s) ==
    /\ session[t] = None
    /\ session' = [session EXCEPT ![t] = s]
    /\ valid' = valid \cup {t}

Open(t) ==
    /\ Issue(t, t)
    /\ UNCHANGED exchanges

Show(h, t) ==
    /\ t \in valid
    /\ \A x \in exchanges : x[1] # h
    /\ exchanges' = exchanges \cup {<<h, t>>}
    /\ UNCHANGED <<session, valid>>

Exchange(x, t) ==
    /\ x \in exchanges
    /\ x[2] \notin valid
    /\ exchanges' = exchanges \ {x}
    /\ Issue(t, session[x[2]])

(* By an exchange, a logout or expiry. *)
Spend(t) ==
    /\ valid' = valid \ {t}
    /\ UNCHANGED <<session, exchanges>>

(* Exchanges are lost. *)
Forgo ==
    /\ exchanges' \subseteq exchanges
    /\ UNCHANGED <<session, valid>>

SessionNext ==
    \/ \E t \in Tokens : Open(t) \/ Spend(t) \/ \E x \in exchanges : Exchange(x, t)
    \/ \E h \in Handles, t \in Tokens : Show(h, t)
    \/ Forgo

SessionSpec == SessionInit /\ [][SessionNext]_svars
==============================================================================
