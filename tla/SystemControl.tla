---------------------------- MODULE SystemControl ----------------------------
(***************************************************************************)
(* What a module-manager does with one Reboot or Shutdown call             *)
(* (SystemControlService and system.Manager): when it refuses the call,    *)
(* and the delay in minutes it hands to shutdown(8) for a delay given in   *)
(* seconds.                                                                *)
(***************************************************************************)
EXTENDS Integers

CONSTANTS Modules,    \* the hosts of config.yaml that run a module-manager
          Disabled    \* <<kind, host>>: enable_reboot / enable_shutdown is off

Kinds == {"restart", "shutdown"}

ASSUME DisabledAssumption == Disabled \subseteq Kinds \X Modules

\* The messages of drs.module.v1: the call of an operation, and the answer when
\* the manager has returned no error.
Api == INSTANCE SystemControlApi WITH Delay <- Int

Method(kind) == IF kind = "restart" THEN "Reboot" ELSE "Shutdown"
CallMessage(kind, d) == [method |-> Method(kind), request |-> [delay |-> d]]
AnswerMessage(kind, d) ==
  [method |-> Method(kind), response |-> [accepted |-> TRUE, scheduled |-> d]]

\* system.Manager.Reboot and Shutdown return an error for a negative delay.
NegativeDelay(d) == d < 0

\* The service answers Unimplemented when the call is disabled, Internal when
\* the manager returns an error.
Refuses(kind, m, d) == <<kind, m>> \in Disabled \/ NegativeDelay(d)

\* "reboot"/"poweroff" for 0 seconds, otherwise "shutdown +N" where Go's
\* integer division of the seconds gives the minutes N.
PlannedMinutes(d) == IF d = 0 THEN 0 ELSE d \div 60
=============================================================================
