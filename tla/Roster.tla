------------------------------- MODULE Roster -------------------------------
(***************************************************************************)
(* What the scheduling services promise about the roster, with no        *)
(* handlers, locks, requests or clock: who holds which shift changes by   *)
(* one seat at a time, and a seat is only given to somebody whose other   *)
(* shifts leave room for it.                                              *)
(*                                                                        *)
(* A held shift whose times a manager moved is unvetted until somebody is *)
(* seated on it again: the services do not look at its holder's other     *)
(* shifts when they move it.                                              *)
(***************************************************************************)
CONSTANTS Staff, Shifts, Windows, Clash(_, _)

VARIABLES
  held,      \* <<shift, staff>>: the seats taken
  times,     \* the times of each shift
  unvetted   \* seats whose shift has moved since they were taken

roster == <<held, times, unvetted>>

HoldsOnly(p, s) == {t \in Shifts \ {s} : <<t, p>> \in held}

Fits(s, p, w) ==
  \A t \in HoldsOnly(p, s) : Clash(times[t], w) => <<t, p>> \in unvetted

\* p is seated on s, judged by the times w.  If s has moved since, the seat
\* counts as unvetted.
VettedSeat(s, p, w, others) ==
  /\ Fits(s, p, w)
  /\ held' = others \cup {<<s, p>>}
  /\ unvetted' = IF w = times[s] THEN (unvetted \cap others) \ {<<s, p>>}
                 ELSE (unvetted \cap others) \cup {<<s, p>>}
  /\ UNCHANGED times

Take(s, p, w) == <<s, p>> \notin held /\ VettedSeat(s, p, w, held)

HandOver(s, p, q, w) == p # q /\ VettedSeat(s, q, w, held \ {<<s, p>>})

Release(s, p) ==
  /\ held' = held \ {<<s, p>>}
  /\ unvetted' = unvetted \ {<<s, p>>}
  /\ UNCHANGED times

Move(s, w) ==
  /\ times' = [times EXCEPT ![s] = w]
  /\ unvetted' = IF w = times[s] THEN unvetted
                 ELSE unvetted \cup (held \cap ({s} \X Staff))
  /\ UNCHANGED held

Delete(s) ==
  /\ held' = held \ ({s} \X Staff)
  /\ unvetted' = unvetted \ ({s} \X Staff)
  /\ UNCHANGED times

RInit ==
  /\ held \subseteq Shifts \X Staff
  /\ times \in [Shifts -> Windows]
  /\ unvetted = {}
  /\ \A s \in Shifts, p \in Staff : <<s, p>> \in held => Fits(s, p, times[s])

RNext ==
  \E s \in Shifts :
     \/ \E p \in Staff, w \in Windows : Take(s, p, w)
     \/ \E p, q \in Staff, w \in Windows : HandOver(s, p, q, w)
     \/ \E p \in Staff : Release(s, p)
     \/ \E w \in Windows : Move(s, w)
     \/ Delete(s)

RSpec == RInit /\ [][RNext]_roster
=============================================================================
