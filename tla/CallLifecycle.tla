---------------------------- MODULE CallLifecycle ----------------------------
(***************************************************************************)
(* What the call service promises about one call, whatever the devices,    *)
(* timers and faults do: a call is placed once, it is answered at most     *)
(* once and only while it rings, and once it is over it stays over -- an   *)
(* answered call is never turned into an unanswered one, nor the reverse.  *)
(*                                                                         *)
(* CallSignaling implements this specification under the refinement        *)
(* mapping given there.                                                    *)
(***************************************************************************)
CONSTANT CallIds            \* identities of the calls

VARIABLE life               \* life[c]: where call c is in its life

Stages == {"none", "ringing", "live", "answered", "unanswered"}

LifeTypeOK == life \in [CallIds -> Stages]

LifeInit == life = [c \in CallIds |-> "none"]

(* Call c moves from one stage to another; the other calls are untouched. *)
Move(c, from, to) ==
    /\ life[c] = from
    /\ life' = [life EXCEPT ![c] = to]

Place(c)  == Move(c, "none", "ringing")
Answer(c) == Move(c, "ringing", "live")
GiveUp(c) == Move(c, "ringing", "unanswered")
HangUp(c) == Move(c, "live", "answered")

LifeNext ==
    \E c \in CallIds : Place(c) \/ Answer(c) \/ GiveUp(c) \/ HangUp(c)

LifeSpec == LifeInit /\ [][LifeNext]_life
==============================================================================
