------------------------------ MODULE FireWatch ------------------------------
(***************************************************************************)
(* What the Worker promises of the routines it fires for one item, told    *)
(* without the requests that keep it (Coordinator):                        *)
(*                                                                         *)
(*   - a fire under watch always has something to come back to it: its     *)
(*     alarm, or an alarm that rang and is not dealt with yet;             *)
(*   - a session starts only for the fire the routines API is being asked  *)
(*     for, and that fire stays under watch, if it ever was, until its     *)
(*     answer;                                                             *)
(*   - a fire is made again only once its alarm rang: a silent one that is *)
(*     no retry itself, as a retry; one that waits out a rate limit, as    *)
(*     what it was.                                                        *)
(***************************************************************************)
EXTENDS Naturals

CONSTANTS
  Routines, NoRun,
  GivesUp          \* the platform may stop ringing an alarm that keeps failing

VARIABLES
  fires,     \* how many fires were made: the last one's number
  watched,   \* the fire under watch
  comes,     \* what comes back to it: "alarm", "ring", "nothing"
  asking,    \* the fire the routines API is being asked for
  sessions   \* the sessions at work, by routine and fire

vars == <<fires, watched, comes, asking, sessions>>

Fire(run, gen, retried, waits) == [run |-> run, gen |-> gen, retried |-> retried, waits |-> waits]
Nothing == Fire(NoRun, 0, FALSE, FALSE)

Init ==
  /\ fires = 0 /\ sessions = {}
  /\ watched = Nothing /\ comes = "nothing"
  /\ asking = Nothing

(* A new fire, under watch before the routines API is asked, or of a       *)
(* routine that has no watch.                                              *)
Ask(run, retried) ==
  /\ asking = Nothing
  /\ fires' = fires + 1
  /\ asking' = Fire(run, fires', retried, FALSE)
  /\ \/ watched' = asking' /\ comes' = "alarm"
     \/ watched' = Nothing /\ comes' = "nothing"
  /\ UNCHANGED sessions

AskFirst(run) == Ask(run, FALSE)

AskAgain ==
  /\ watched # Nothing /\ comes = "ring"
  /\ watched.waits <=> watched.retried
  /\ Ask(watched.run, TRUE)

(* An answer that is lost leaves the API to be asked once more.            *)
Start ==
  /\ asking # Nothing
  /\ sessions' = sessions \cup {[run |-> asking.run, gen |-> asking.gen]}
  /\ asking' \in {asking, Nothing}
  /\ UNCHANGED <<fires, watched, comes>>

Defer ==
  /\ asking # Nothing
  /\ watched' = Fire(asking.run, asking.gen, asking.retried, TRUE) /\ comes' = "alarm"
  /\ asking' = Nothing
  /\ UNCHANGED <<fires, sessions>>

(* Never answered: the object restarted, or it only looks.                 *)
Abandon ==
  /\ asking' = Nothing
  /\ UNCHANGED <<fires, watched, comes, sessions>>

Ring ==
  /\ comes = "alarm"
  /\ comes' = "ring"
  /\ UNCHANGED <<fires, watched, asking, sessions>>

(* A sign of life.                                                         *)
Rearm ==
  /\ watched # Nothing /\ ~watched.waits /\ asking = Nothing
  /\ comes' = "alarm"
  /\ UNCHANGED <<fires, watched, asking, sessions>>

(* By an outcome, an expiry, a completion; or the fire was refused.        *)
End ==
  /\ watched' = Nothing /\ comes' = "nothing"
  /\ asking' = Nothing
  /\ UNCHANGED <<fires, sessions>>

GiveUp ==
  /\ GivesUp /\ comes = "ring" /\ asking = Nothing
  /\ comes' = "nothing"
  /\ UNCHANGED <<fires, watched, asking, sessions>>

SessionsEnd ==
  /\ sessions' \subseteq sessions
  /\ UNCHANGED <<fires, watched, comes, asking>>

Next ==
  \/ SessionsEnd \/ Ring \/ Rearm \/ End \/ GiveUp
  \/ AskAgain \/ Start \/ Defer \/ Abandon
  \/ \E run \in Routines : AskFirst(run)

Spec == Init /\ [][Next]_vars
==============================================================================
