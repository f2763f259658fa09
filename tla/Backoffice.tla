------------------------------ MODULE Backoffice ------------------------------
(***************************************************************************)
(* What the back office works on beside money: administrators, settings,   *)
(* support and notifications.  The four share no row and no variable of    *)
(* the process, only its request slots, so a step of one never changes     *)
(* what a step of another does, and a behaviour takes the requests of one  *)
(* of them, its topic.                                                     *)
(***************************************************************************)
EXTENDS Admins, Settings, Support, Notifications

CONSTANT Topics         \* bound: the components whose requests are taken

ASSUME BackofficeAssumption ==
    Topics \subseteq {"admins", "settings", "support", "notifications"}

VARIABLE topic          \* the component whose requests this behaviour takes

backofficeState == <<adminsState, settingsState, supportState, notificationsState>>
backofficeVars == <<topic, pc, calls, backofficeState>>

BackofficeStart ==
    /\ topic \in Topics
    /\ CallsStart
    /\ AdminsInit /\ SettingsInit /\ SupportInit /\ NotificationsInit

AdminsNext(p) ==
    /\ (AdminsRequest(p) /\ Arrives) \/ (AdminsStep(p) /\ UNCHANGED calls)
    /\ UNCHANGED <<settingsState, supportState, notificationsState>>

SettingsNext(p) ==
    /\ (SettingsRequest(p) /\ Arrives) \/ (SettingsStep(p) /\ UNCHANGED calls)
    /\ UNCHANGED <<adminsState, supportState, notificationsState>>

SupportNext(p) ==
    /\ (SupportRequest(p) /\ Arrives) \/ (SupportStep(p) /\ UNCHANGED calls)
    /\ UNCHANGED <<adminsState, settingsState, notificationsState>>

NotificationsNext(p) ==
    /\ (NotificationsRequest(p) /\ Arrives) \/ (NotificationsStep(p) /\ UNCHANGED calls)
    /\ UNCHANGED <<adminsState, settingsState, supportState>>

BackofficeNext ==
    /\ \E p \in Procs :
          \/ topic = "admins" /\ AdminsNext(p)
          \/ topic = "settings" /\ SettingsNext(p)
          \/ topic = "support" /\ SupportNext(p)
          \/ topic = "notifications" /\ NotificationsNext(p)
    /\ UNCHANGED topic

BackofficeWorksOn(p) ==
    AdminsWorksOn(p) \cup SettingsWorksOn(p) \cup SupportWorksOn(p)
        \cup NotificationsWorksOn(p)

SharedRows == Shared(BackofficeWorksOn)

BackofficeSpec ==
    /\ BackofficeStart
    /\ [][BackofficeNext /\ raced' = raced \cup SharedRows']_<<backofficeVars, raced>>

=============================================================================
