------------------------------- MODULE Admins -------------------------------
(***************************************************************************)
(* The management of administrators in AdminsService, and the guards that  *)
(* let an administrator in.  Handlers hold an instance of the row they     *)
(* read, and save() writes the columns that differ from it.  Names,        *)
(* passwords and permissions are left out: no route asks for a             *)
(* permission.  An address is the row's, and a row is never removed.       *)
(***************************************************************************)
EXTENDS Calls

CONSTANTS
    Administrators, \* rows that the admins table may come to have
    NoAdmin,        \* a handler without a row
    Otps,           \* one-time passwords
    NoOtp           \* password_change_otp IS NULL

ASSUME AdminsAssumption == NoAdmin \notin Administrators /\ NoOtp \notin Otps

VARIABLES
    role,           \* admins.role, "none" without a row
    active,         \* rows whose status is active
    otp,            \* password_change_otp
    target,         \* the row a handler works on
    seenAdmin,      \* role and status of its instance
    change,         \* the role and status it is asked for
    typedOtp,       \* the one-time password it was called with
    drawn,          \* one-time passwords that were mailed
    usedOtp,        \* those that changed a password
    misused         \* rows whose password a used or outdated one changed

adminsTable == <<role, active, otp>>
adminLocals == <<target, seenAdmin, change, typedOtp>>
adminsState == <<adminsTable, adminLocals, drawn, usedOtp, misused>>

Roles == {"admin", "super_admin"}

NoChange == [role |-> "same", status |-> "same"]
AdminChanges == [role : Roles \cup {"same"}, status : {"same", "active", "disabled"}]

NothingSeen == [role |-> "none", active |-> FALSE]

\* At least one super admin runs the system.
AdminsInit ==
    /\ role \in [Administrators -> Roles \cup {"none"}]
    /\ active = {a \in Administrators : role[a] # "none"}
    /\ \E a \in active : role[a] = "super_admin"
    /\ otp = [a \in Administrators |-> NoOtp]
    /\ target = [p \in Procs |-> NoAdmin]
    /\ seenAdmin = [p \in Procs |-> NothingSeen]
    /\ change = [p \in Procs |-> NoChange]
    /\ typedOtp = [p \in Procs |-> NoOtp]
    /\ drawn = {} /\ usedOtp = {} /\ misused = {}

\* JwtAuthGuard and RolesGuard: the guards query the row of the caller.
MayCall(a, roles) == a \in active /\ role[a] \in roles

SuperAdmins == {a \in Administrators : MayCall(a, {"super_admin"})}

AdminDone(p) ==
    /\ target' = [target EXCEPT ![p] = NoAdmin]
    /\ seenAdmin' = [seenAdmin EXCEPT ![p] = NothingSeen]
    /\ change' = [change EXCEPT ![p] = NoChange]
    /\ typedOtp' = [typedOtp EXCEPT ![p] = NoOtp]
    /\ Goto(p, "idle")

\* Admin.findByPk(a), by a super admin.
ReadAdmin(p, a, wanted, code, label) ==
    /\ Idle(p)
    /\ SuperAdmins # {} /\ role[a] # "none"
    /\ target' = [target EXCEPT ![p] = a]
    /\ seenAdmin' = [seenAdmin EXCEPT ![p] = [role |-> role[a], active |-> a \in active]]
    /\ change' = [change EXCEPT ![p] = wanted]
    /\ typedOtp' = [typedOtp EXCEPT ![p] = code]
    /\ Goto(p, label)
    /\ UNCHANGED <<adminsTable, drawn, usedOtp, misused>>

-----------------------------------------------------------------------------
(* createAdmin, updateAdmin *)

\* Admin.findOne: the address is free.
CreateAdmin(p, a, r) ==
    /\ Idle(p)
    /\ SuperAdmins # {} /\ role[a] = "none"
    /\ target' = [target EXCEPT ![p] = a]
    /\ change' = [change EXCEPT ![p] = [NoChange EXCEPT !.role = r]]
    /\ Goto(p, "admin_create")
    /\ UNCHANGED <<adminsTable, seenAdmin, typedOtp, drawn, usedOtp, misused>>

\* Admin.create: the address is unique.
InsertAdmin(p) ==
    LET a == target[p] IN
    /\ pc[p] = "admin_create"
    /\ role[a] = "none"
    /\ role' = [role EXCEPT ![a] = change[p].role]
    /\ active' = active \cup {a}
    /\ AdminDone(p)
    /\ UNCHANGED <<otp, drawn, usedOtp, misused>>

UpdateAdmin(p, a, wanted) == ReadAdmin(p, a, wanted, NoOtp, "admin_updater")

\* Admin.findByPk of the caller, who was a super admin when the guard looked:
\* only a super admin modifies a super admin.
ReadUpdater(p) ==
    /\ pc[p] = "admin_updater"
    /\ \E by \in Administrators :
          /\ role[by] # "none"
          /\ seenAdmin[p].role = "super_admin" => role[by] = "super_admin"
    /\ Goto(p, "admin_save")
    /\ UNCHANGED <<adminsTable, adminLocals, drawn, usedOtp, misused>>

WriteActive(a, status, seen) ==
    active' = CASE status = "active" /\ ~seen -> active \cup {a}
                [] status = "disabled" /\ seen -> active \ {a}
                [] OTHER -> active

WriteRole(a, r, seen) ==
    role' = IF r \in {"same", seen} THEN role ELSE [role EXCEPT ![a] = r]

\* Mutant: save() writes every column of the instance.
SaveWholeAdmin(p) ==
    LET a == target[p] IN
    /\ pc[p] = "admin_save"
    /\ role' = [role EXCEPT ![a] =
                  IF change[p].role = "same" THEN seenAdmin[p].role ELSE change[p].role]
    /\ active' = (active \ {a}) \cup
                   {b \in {a} : \/ change[p].status = "active"
                               \/ (change[p].status = "same" /\ seenAdmin[p].active)}
    /\ AdminDone(p)
    /\ UNCHANGED <<otp, drawn, usedOtp, misused>>

SaveAdmin(p) ==
    /\ pc[p] = "admin_save"
    /\ WriteRole(target[p], change[p].role, seenAdmin[p].role)
    /\ WriteActive(target[p], change[p].status, seenAdmin[p].active)
    /\ AdminDone(p)
    /\ UNCHANGED <<otp, drawn, usedOtp, misused>>

-----------------------------------------------------------------------------
(* suspendAdmin and deleteAdmin, unsuspendAdmin *)

\* "Cannot suspend super admin account", nor one's own.
DisableAdmin(p, by, a) ==
    /\ MayCall(by, {"super_admin"}) /\ by # a
    /\ role[a] # "super_admin"
    /\ ReadAdmin(p, a, [NoChange EXCEPT !.status = "disabled"], NoOtp, "admin_disable")

UnsuspendAdmin(p, a) ==
    ReadAdmin(p, a, [NoChange EXCEPT !.status = "active"], NoOtp, "admin_enable")

SaveAdminStatus(p) ==
    /\ pc[p] \in {"admin_disable", "admin_enable"}
    /\ WriteActive(target[p], change[p].status, seenAdmin[p].active)
    /\ AdminDone(p)
    /\ UNCHANGED <<role, otp, drawn, usedOtp, misused>>

-----------------------------------------------------------------------------
(* requestPasswordChangeOtp, verifyPasswordChangeOtp *)

RequestOtp(p, a) == ReadAdmin(p, a, NoChange, NoOtp, "otp_update")

OtpUpdate(p) ==
    /\ pc[p] = "otp_update"
    /\ \E c \in Otps \ drawn :
          /\ otp' = [otp EXCEPT ![target[p]] = c]
          /\ drawn' = drawn \cup {c}
    /\ AdminDone(p)
    /\ UNCHANGED <<role, active, usedOtp, misused>>

VerifyOtp(p, a, c) == c \in drawn /\ ReadAdmin(p, a, NoChange, c, "otp_compare")

\* The SELECT, then the hash of the new password.
OtpCompare(p) ==
    /\ pc[p] = "otp_compare"
    /\ otp[target[p]] = typedOtp[p]
    /\ Goto(p, "otp_password")
    /\ UNCHANGED <<adminsTable, adminLocals, drawn, usedOtp, misused>>

Misused(p) ==
    {a \in {target[p]} : typedOtp[p] \in usedOtp \/ otp[a] # typedOtp[p]}

\* Mutant: the one-time password stays.
OtpPasswordKept(p) ==
    /\ pc[p] = "otp_password"
    /\ usedOtp' = usedOtp \cup {typedOtp[p]}
    /\ misused' = misused \cup Misused(p)
    /\ AdminDone(p)
    /\ UNCHANGED <<adminsTable, drawn>>

\* One UPDATE sets the password and clears whatever code is there.
OtpPassword(p) ==
    /\ pc[p] = "otp_password"
    /\ otp' = [otp EXCEPT ![target[p]] = NoOtp]
    /\ usedOtp' = usedOtp \cup {typedOtp[p]}
    /\ misused' = misused \cup Misused(p)
    /\ AdminDone(p)
    /\ UNCHANGED <<role, active, drawn>>

-----------------------------------------------------------------------------
AdminLabels == {"admin_create", "admin_updater", "admin_save", "admin_disable",
                "admin_enable", "otp_update", "otp_compare", "otp_password"}

AdminHandlerFails(p) ==
    /\ pc[p] \in AdminLabels
    /\ AdminDone(p)
    /\ UNCHANGED <<adminsTable, drawn, usedOtp, misused>>

AdminsRequest(p) ==
    \E a \in Administrators :
        \/ \E r \in Roles : CreateAdmin(p, a, r)
        \/ \E wanted \in AdminChanges : UpdateAdmin(p, a, wanted)
        \/ \E by \in Administrators : DisableAdmin(p, by, a)
        \/ UnsuspendAdmin(p, a)
        \/ RequestOtp(p, a)
        \/ \E c \in Otps : VerifyOtp(p, a, c)

AdminsStep(p) ==
    \/ InsertAdmin(p) \/ ReadUpdater(p) \/ SaveAdmin(p) \/ SaveAdminStatus(p)
    \/ OtpUpdate(p) \/ OtpCompare(p) \/ OtpPassword(p)
    \/ AdminHandlerFails(p)

AdminsWorksOn(p) == {target[p]} \ {NoAdmin}

-----------------------------------------------------------------------------
(* Properties *)

AdminsTypeOK ==
    /\ role \in [Administrators -> Roles \cup {"none"}]
    /\ active \subseteq {a \in Administrators : role[a] # "none"}
    /\ otp \in [Administrators -> Otps \cup {NoOtp}]
    /\ target \in [Procs -> Administrators \cup {NoAdmin}]
    /\ seenAdmin \in [Procs -> [role : Roles \cup {"none"}, active : BOOLEAN]]
    /\ change \in [Procs -> AdminChanges]
    /\ typedOtp \in [Procs -> Otps \cup {NoOtp}]
    /\ drawn \subseteq Otps /\ usedOtp \subseteq drawn /\ misused \subseteq Administrators

\* save() brings no stale value back: the role or the status of a row only
\* becomes what a handler that is saving was asked for, in any interleaving.
OnlyAskedChanges(a) ==
    role[a] # "none" =>
        /\ role'[a] # role[a] =>
              \E p \in Procs : target[p] = a /\ change[p].role = role'[a]
        /\ (a \in active) # (a \in active') =>
              \E p \in Procs :
                  /\ target[p] = a
                  /\ change[p].status = IF a \in active' THEN "active" ELSE "disabled"

\* "Cannot suspend super admin account", "Cannot delete super admin
\* account": a super admin is disabled by updateAdmin only.
SuperAdminKept(a) ==
    role[a] = "super_admin" /\ a \in active \ active' =>
        \E p \in Procs : pc[p] = "admin_save" /\ target[p] = a

\* A row changes as somebody asked, and keeps a super admin enabled unless
\* two handlers worked on it at once and one made it a super admin.
AdminRowsKeptUnlessRaced ==
    [][\A a \in Administrators :
          OnlyAskedChanges(a) /\ (a \notin raced' => SuperAdminKept(a))
      ]_<<role, active, raced>>

\* A one-time password changes a password once, and not after a later one
\* was mailed, unless two handlers worked on the row at once.
OtpUsedOnceUnlessRaced == misused \subseteq raced

\* The accounts of administrators are well-formed, and their passwords
\* change by a one-time password that is current.
AdminsInv == AdminsTypeOK /\ OtpUsedOnceUnlessRaced

=============================================================================
