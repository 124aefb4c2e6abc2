---------------------------- MODULE MCAggregator ----------------------------
(***************************************************************************)
(* Small instances of Aggregator: requests, faults, logins and the clock   *)
(* are bounded; requests and faults are not in MCBusySpec.                 *)
(***************************************************************************)
EXTENDS Aggregator, TLC

CONSTANTS
  MaxAsks,     \* bound: requests for days in a behaviour
  MaxFaults,   \* bound: errors, aborts and restarts
  MaxLogins,   \* bound: logins
  Horizon      \* bound: the clock stops there

VARIABLES asks, faults

mcvars == <<avars, asks, faults>>

MCSymmetry == Permutations(Session) \cup Permutations(Caller)

MCOneDay == {1}
MCDays == 0 .. 1

MCInit == AInit /\ asks = 0 /\ faults = 0

Asked ==
  /\ asks < MaxAsks
  /\ \E c \in Caller, kind \in Kinds, days \in SUBSET Day :
       days # {} /\ Ask(c, kind, days)
  /\ asks' = asks + 1
  /\ UNCHANGED faults

Worked(a) == Proceed(a) /\ UNCHANGED <<asks, faults>>

Faulted ==
  /\ faults < MaxFaults
  /\ Restart \/ \E a \in Actor : Breaks(a)
  /\ faults' = faults + 1
  /\ UNCHANGED asks

Happened ==
  /\ \/ Remember
     \/ CronFires
     \/ \E s \in Session : NewSession(s) \/ Publish(s)
     \/ login < MaxLogins /\ LogIn
     \/ clock < Horizon /\ Advance
  /\ UNCHANGED <<asks, faults>>

MCNext == Asked \/ Faulted \/ Happened \/ \E a \in Actor : Worked(a)

MCSpec == MCInit /\ [][MCNext]_mcvars

(* Without bounds on requests and faults: days are asked for, runs break   *)
(* and the process restarts again and again.  EnsureDays, whose look at    *)
(* the status of a day may fail, does all that ForceQueueDays does.        *)
HappensAgain ==
  /\ \/ \E c \in Caller, kind \in Kinds \ {"force"}, days \in SUBSET Day :
          days # {} /\ Ask(c, kind, days)
     \/ Restart
     \/ \E a \in Actor : Breaks(a)
  /\ UNCHANGED <<asks, faults>>

MCBusyNext == HappensAgain \/ Happened \/ \E a \in Actor : Worked(a)

MCBusySpec == MCInit /\ [][MCBusyNext]_mcvars /\ AFairness
=============================================================================
