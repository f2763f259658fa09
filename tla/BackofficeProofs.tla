--------------------------- MODULE BackofficeProofs ---------------------------
(***************************************************************************)
(* Proofs about the back office: administrators, settings, support and     *)
(* notifications.                                                          *)
(*                                                                         *)
(* TopicKept is about the request slots: the handlers that are suspended   *)
(* are of the behaviour's topic, and what two of them work on is in raced. *)
(* On top of it each of the four has an invariant of its own, which a step *)
(* of another topic leaves alone.  Such an invariant says what a handler   *)
(* knows where it is suspended, whatever interleaves (..Informed), and     *)
(* that what it read is still so if no other handler worked on its row     *)
(* (..AsRead).                                                             *)
(***************************************************************************)
EXTENDS Backoffice, FiniteSetTheorems, TLAPS

\* The awaits of a topic's handlers.
LabelsOf(t) ==
    {"idle"} \cup CASE t = "admins" -> AdminLabels
                    [] t = "settings" -> SettingsLabels
                    [] t = "support" -> SupportLabels
                    [] t = "notifications" -> NotificationsLabels

TopicKept ==
    /\ topic \in Topics
    /\ pc \in [Procs -> LabelsOf(topic)]
    /\ SharedRows \subseteq raced

-----------------------------------------------------------------------------
(* Administrators *)

\* A handler works on a row that exists, but for the one that creates it.  A
\* one-time password that was compared is on no other row.
AdminInformed(p) ==
    /\ pc[p] \in AdminLabels => target[p] \in Administrators
    /\ pc[p] \in AdminLabels \ {"admin_create"} => role[target[p]] # "none"
    /\ pc[p] = "admin_create" => change[p].role \in Roles
    /\ pc[p] = "admin_disable" => change[p].status = "disabled"
    /\ pc[p] = "admin_enable" => change[p].status = "active"
    /\ pc[p] \in {"otp_compare", "otp_password"} => typedOtp[p] \in drawn
    /\ pc[p] = "otp_password" =>
          \A a \in Administrators \ {target[p]} : otp[a] # typedOtp[p]

AdminAsRead(p) ==
    target[p] \notin raced =>
        /\ pc[p] = "admin_disable" => role[target[p]] # "super_admin"
        /\ pc[p] = "otp_password" => otp[target[p]] = typedOtp[p]

\* A one-time password is on one row only, and is gone once it was used.
OtpsApart ==
    /\ \A a \in Administrators : otp[a] \in (drawn \ usedOtp) \cup {NoOtp}
    /\ \A a, b \in Administrators : otp[a] = otp[b] => a = b \/ otp[a] = NoOtp

AdminsAlone ==
    /\ AdminsInv /\ OtpsApart
    /\ topic = "admins" => \A p \in Procs : AdminInformed(p) /\ AdminAsRead(p)

-----------------------------------------------------------------------------
(* Settings *)

\* Only an update of the limits brings limits, and one of a switch names it.
WellAsked(u) ==
    /\ u.limits # NoLimits => u.kind = "limits"
    /\ u.kind = "switch" => u.switch \in Switches

SettingsInformed(p) ==
    /\ pc[p] = "idle" => update[p] = NoUpdate
    /\ WellAsked(update[p])

\* The first reader still finds no row, and an update what it read of its
\* columns.
SettingsAsRead(p) ==
    /\ pc[p] = "settings_create" /\ ~Met("row") => rows = {}
    /\ pc[p] = "settings_save" =>
          /\ update[p].kind = "limits" /\ ~Met("limits") =>
                update[p].seenMin = minPayout[update[p].row]
          /\ update[p].kind = "extended" /\ ~Met("extended") =>
                update[p].seenKeys = extended[update[p].row]
          /\ update[p].kind = "switch" /\ ~Met("switch") =>
                update[p].seenOn = on[update[p].row]

\* What no row has, nobody reported.
RowsToCome ==
    /\ \A r \in Rows \ rows : extended[r] = {} /\ on[r] = {}
    /\ rows = {} => acknowledged = {} /\ reported = {}

SettingsAlone ==
    /\ SettingsInv /\ RowsToCome
    /\ topic = "settings" => \A p \in Procs : SettingsInformed(p) /\ SettingsAsRead(p)

-----------------------------------------------------------------------------
(* Support *)

\* A handler's conversation, message and row of a code are there.
SupportInformed(p) ==
    /\ pc[p] = "idle" => task[p] = NoTask
    /\ pc[p] = "conversation_create" => task[p].customer \in Customers
    /\ pc[p] = "status_save" =>
          /\ task[p].conv \in Conversations /\ IsConversation(task[p].conv)
          /\ task[p].customer = convOwner[task[p].conv]
          /\ task[p].asked \in ConvStatuses
    /\ pc[p] \in MessageLabels => task[p].conv \in Conversations
    /\ pc[p] \in {"message_insert", "message_count"} =>
          task[p].asked \in {"customer", "admin", "upload"}
    /\ pc[p] = "read_update" => task[p].message \in Sent
    /\ pc[p] = "message_count" =>
          /\ task[p].message \in Messages
          /\ messageIn[task[p].message] = task[p].conv
          /\ task[p].asked = "admin" <=> task[p].message \in fromAdmin
    /\ pc[p] = "code_replace" => task[p].row \in AuthRows /\ task[p].mailed \in AuthCodes
    /\ pc[p] \in {"code_expire", "code_use"} => task[p].row \in AuthRows

Alerting(p, k) == pc[p] = "message_alert" /\ task[p].conv = k

\* The administrators are alerted of a conversation, or about to be.
Claimed(k) == alerts[k] > 0 \/ \E p \in Procs : Alerting(p, k)

\* The first message of a conversation claims its alert, and whoever counts
\* afterwards finds another message than its own.
AlertsApart ==
    /\ \A p, q \in Procs :
          pc[p] = "message_count" /\ pc[q] = "message_count" /\ p # q =>
              task[p].message # task[q].message
    /\ \A k \in Conversations :
          /\ Claimed(k) => FromCustomer(k) # {}
          /\ \A p \in Procs :
                Alerting(p, k) => alerts[k] = 0 /\ \A q \in Procs : Alerting(q, k) => q = p
          /\ \A p \in Procs :
                Claimed(k) /\ pc[p] = "message_count" /\ task[p].conv = k =>
                    \E m \in FromCustomer(k) : m # task[p].message

\* The only message of the customer is on its way to the alert.
FirstOnItsWay(k) ==
    \E p \in Procs :
        \/ Alerting(p, k)
        \/ /\ pc[p] = "message_count" /\ task[p].conv = k
           /\ task[p].asked \in {"customer", "upload"}
           /\ FromCustomer(k) = {task[p].message}

AlertToCome ==
    \A k \in Conversations \ (raced \cup unannounced) :
        FromCustomer(k) # {} => alerts[k] = 1 \/ FirstOnItsWay(k)

\* The total that the administrators see is right, or the one handler on its
\* way to them is to correct it; a total that is sent is right.
TotalToCome ==
    <<"support", "total">> \notin raced =>
        /\ unannounced = {} =>
              \/ shownTotal = UnreadForAdmin
              \/ \E p \in Procs :
                    \/ pc[p] = "message_count" /\ task[p].asked \in {"customer", "upload"}
                    \/ pc[p] \in {"message_alert", "total_count", "total_emit"}
        /\ \A p \in Procs : pc[p] = "total_emit" => task[p].count = UnreadForAdmin

SupportAsRead(p) ==
    /\ pc[p] = "conversation_create" /\ task[p].customer \notin raced =>
          OpenOf(task[p].customer) = {}
    /\ pc[p] \in {"code_expire", "code_use"} /\ task[p].row \notin raced =>
          codeStatus[task[p].row] = "pending"

Tasks ==
    [customer : Customers \cup {NoCustomer}, conv : Conversations \cup {NoConversation},
     message : Messages \cup {NoMessage}, row : AuthRows \cup {NoAuthRow},
     asked : ConvStatuses \cup {"none", "customer", "admin", "upload"},
     count : Nat, mailed : AuthCodes \cup {NoAuthCode}]

ConversationsOK ==
    /\ convOwner \in [Conversations -> Customers \cup {NoCustomer}]
    /\ convStatus \in [Conversations -> ConvStatuses \cup {"none"}]
    /\ \A k \in Conversations : IsConversation(k) => convOwner[k] \in Customers

MessagesOK ==
    /\ messageIn \in [Messages -> Conversations \cup {NoConversation}]
    /\ fromAdmin \subseteq Sent /\ isRead \subseteq Sent
    /\ IsFiniteSet(Sent)

ShownOK ==
    /\ alerts \in [Conversations -> {0, 1}] /\ shownTotal \in Nat
    /\ unannounced \subseteq Conversations

CodesOK ==
    /\ codeOf \in [AuthRows -> AuthCodes \cup {NoAuthCode}]
    /\ codeStatus \in [AuthRows -> CodeStatuses \cup {"none"}]
    /\ \A r, s \in AuthRows : codeOf[r] = codeOf[s] => r = s \/ codeOf[r] = NoAuthCode
    /\ acceptedAgain \subseteq AuthRows \cap raced

SupportAlone ==
    /\ ConversationsOK /\ MessagesOK /\ ShownOK /\ CodesOK
    /\ task \in [Procs -> Tasks]
    /\ topic = "support" =>
          /\ \A p \in Procs : SupportInformed(p) /\ SupportAsRead(p)
          /\ AlertsApart /\ AlertToCome /\ TotalToCome
    /\ topic # "support" => Sent = {} /\ shownTotal = 0

-----------------------------------------------------------------------------
(* Notifications *)

\* So far a row of its own for each recipient that was addressed, but for
\* those who are to get one yet.
NotifiedSoFar(what) ==
    /\ \A r \in what.to : \A m \in what.made : m[2] # r
    /\ \A r \in what.addressed \ what.to :
          \E n \in Notes : {m \in what.made : m[2] = r} = {<<n, r>>}

Sendings ==
    {what \in [note : Notes \cup {NoNote}, to : SUBSET Recipients,
               made : SUBSET (Notes \X Recipients), addressed : SUBSET Recipients] :
        NotifiedSoFar(what)}

NotificationsAlone ==
    AnsweredWhenAllNotified /\ sending \in [Procs -> Sendings]

-----------------------------------------------------------------------------
(* Request slots *)

\* A step of the specification.
BackofficeStep ==
    [BackofficeNext /\ raced' = raced \cup SharedRows']_<<backofficeVars, raced>>

\* A row that two handlers work on is in raced.
LEMMA WorkedOnByTwo ==
    ASSUME TopicKept, NEW p \in Procs, NEW q \in Procs, p # q,
           NEW r \in BackofficeWorksOn(p), r \in BackofficeWorksOn(q)
    PROVE  r \in raced
  BY DEF TopicKept, SharedRows, Shared

\* Handlers of administrators are suspended at their own awaits.
LEMMA AdminsLabelled ==
    ASSUME pc \in [Procs -> LabelsOf(topic)], NEW p \in Procs, topic = "admins", AdminsNext(p)
    PROVE  pc' \in [Procs -> LabelsOf(topic)]
  <1>1. LabelsOf(topic) = {"idle"} \cup AdminLabels
    BY DEF LabelsOf
  <1>2. ASSUME NEW label \in {"idle"} \cup AdminLabels, Goto(p, label)
        PROVE  pc' \in [Procs -> LabelsOf(topic)]
    BY <1>1, <1>2 DEF Goto
  <1> USE DEF AdminLabels, AdminDone, ReadAdmin
  <1>3. CASE AdminsRequest(p)
    BY <1>2, <1>3 DEF AdminsRequest, CreateAdmin, UpdateAdmin, DisableAdmin, UnsuspendAdmin,
           RequestOtp, VerifyOtp
  <1>4. CASE AdminsStep(p)
    BY <1>2, <1>4 DEF AdminsStep, InsertAdmin, ReadUpdater, SaveAdmin, SaveAdminStatus,
           OtpUpdate, OtpCompare, OtpPassword, AdminHandlerFails
  <1> QED
    BY <1>3, <1>4 DEF AdminsNext

\* And so are those of settings,
LEMMA SettingsLabelled ==
    ASSUME pc \in [Procs -> LabelsOf(topic)], NEW p \in Procs, topic = "settings",
           SettingsNext(p)
    PROVE  pc' \in [Procs -> LabelsOf(topic)]
  <1>1. LabelsOf(topic) = {"idle"} \cup SettingsLabels
    BY DEF LabelsOf
  <1>2. ASSUME NEW label \in {"idle"} \cup SettingsLabels, Goto(p, label)
        PROVE  pc' \in [Procs -> LabelsOf(topic)]
    BY <1>1, <1>2 DEF Goto
  <1> USE DEF SettingsLabels, SettingsDone, SettingsGoOn, TakeSettings
  <1>3. CASE SettingsRequest(p)
    BY <1>2, <1>3 DEF SettingsRequest, ReadSettings, UpdateLimits, UpdateExtended,
           UpdateSwitch, FindSettings
  <1>4. CASE SettingsStep(p)
    BY <1>2, <1>4 DEF SettingsStep, CreateSettings, SaveLimits, SaveExtended, SaveSwitch,
           SettingsHandlerFails
  <1> QED
    BY <1>3, <1>4 DEF SettingsNext

\* those of support,
LEMMA SupportLabelled ==
    ASSUME pc \in [Procs -> LabelsOf(topic)], NEW p \in Procs, topic = "support",
           SupportNext(p)
    PROVE  pc' \in [Procs -> LabelsOf(topic)]
  <1>1. LabelsOf(topic) = {"idle"} \cup SupportLabels
    BY DEF LabelsOf
  <1>2. ASSUME NEW label \in {"idle"} \cup SupportLabels, Goto(p, label)
        PROVE  pc' \in [Procs -> LabelsOf(topic)]
    BY <1>1, <1>2 DEF Goto
  <1> USE DEF SupportLabels, MessageLabels, SupportDone, Work
  <1>3. CASE SupportRequest(p)
    BY <1>2, <1>3 DEF SupportRequest, FindConversation, UpdateStatus, SendMessage,
           ReadMessage, VerifyCode, TakeCode, GenerateCode
  <1>4. CASE SupportStep(p)
    <2>1. CASE CountMessages(p)
      BY <1>2, <2>1 DEF CountMessages
    <2>2. CASE InsertMessage(p) \/ AlertAdmins(p) \/ MarkRead(p) \/ CountTotal(p)
                 \/ EmitTotal(p)
      BY <1>2, <2>2 DEF InsertMessage, AlertAdmins, MarkRead, CountTotal, EmitTotal
    <2>3. CASE CreateConversation(p) \/ SaveStatus(p) \/ CreateCode(p) \/ ReplaceCode(p)
                 \/ SaveExpired(p) \/ SaveUsed(p) \/ SupportHandlerFails(p)
      BY <1>2, <2>3 DEF CreateConversation, SaveStatus, CreateCode, ReplaceCode,
             SaveExpired, SaveUsed, SupportHandlerFails
    <2> QED
      BY <1>4, <2>1, <2>2, <2>3 DEF SupportStep
  <1> QED
    BY <1>3, <1>4 DEF SupportNext

\* and those of notifications.
LEMMA NotificationsLabelled ==
    ASSUME pc \in [Procs -> LabelsOf(topic)], NEW p \in Procs, topic = "notifications",
           NotificationsNext(p)
    PROVE  pc' \in [Procs -> LabelsOf(topic)]
  <1>1. LabelsOf(topic) = {"idle"} \cup NotificationsLabels
    BY DEF LabelsOf
  <1>2. ASSUME NEW label \in {"idle"} \cup NotificationsLabels, Goto(p, label)
        PROVE  pc' \in [Procs -> LabelsOf(topic)]
    BY <1>1, <1>2 DEF Goto
  <1> USE DEF NotificationsLabels, NotificationDone, Send
  <1>3. CASE NotificationsRequest(p)
    BY <1>2, <1>3 DEF NotificationsRequest, Connect, Disconnect, Notify, MarkAsRead,
           DeleteNotification, FindNotification, MarkAllAsRead
  <1>4. CASE NotificationsStep(p)
    BY <1>2, <1>4 DEF NotificationsStep, CreateNotification, PushNotifications, SaveRead,
           DestroyNotification, NotificationsHandlerFails
  <1> QED
    BY <1>3, <1>4 DEF NotificationsNext

\* Before the first request nothing is worked on.
LEMMA TopicKeptAtStart ==
    ASSUME BackofficeStart
    PROVE  TopicKept
  <1> USE DEF BackofficeStart, CallsStart, RequestsInit
  <1>1. pc \in [Procs -> LabelsOf(topic)]
    BY DEF LabelsOf
  <1>2. ASSUME NEW p \in Procs
        PROVE  BackofficeWorksOn(p) = {}
    <2>1. AdminsWorksOn(p) = {}
      BY DEF AdminsInit, AdminsWorksOn
    <2>2. SettingsWorksOn(p) = {}
      <3>1. pc[p] # "settings_create" /\ pc[p] # "settings_save"
        OBVIOUS
      <3> QED
        BY <3>1 DEF SettingsWorksOn
    <2>3. SupportWorksOn(p) = {}
      BY DEF SupportInit, SupportWorksOn, NoTask, MessageLabels
    <2>4. NotificationsWorksOn(p) = {}
      BY DEF NotificationsInit, NotificationsWorksOn, NothingSent
    <2> QED
      BY <2>1, <2>2, <2>3, <2>4 DEF BackofficeWorksOn
  <1>3. SharedRows = {}
    BY <1>2 DEF SharedRows, Shared
  <1> QED
    BY <1>1, <1>3 DEF TopicKept

\* Every step stays within the topic, and raced only grows.
LEMMA TopicKeptByStep ==
    ASSUME TopicKept, BackofficeStep
    PROVE  TopicKept' /\ topic' = topic /\ raced \subseteq raced'
  <1>1. CASE BackofficeNext /\ raced' = raced \cup SharedRows'
    <2>1. topic' = topic
      BY <1>1 DEF BackofficeNext
    <2>2. pc' \in [Procs -> LabelsOf(topic)]
      BY <1>1, AdminsLabelled, SettingsLabelled, SupportLabelled, NotificationsLabelled
      DEF BackofficeNext, TopicKept
    <2> QED
      BY <1>1, <2>1, <2>2 DEF TopicKept, LabelsOf
  <1>2. CASE UNCHANGED <<backofficeVars, raced>>
    <2>1. /\ topic' = topic /\ pc' = pc /\ raced' = raced
          /\ target' = target /\ update' = update /\ task' = task /\ sending' = sending
      BY <1>2 DEF backofficeVars, backofficeState, adminsState, adminLocals, settingsState,
             supportState, notificationsState
    <2>2. SharedRows' = SharedRows
      BY <2>1 DEF SharedRows, Shared, BackofficeWorksOn, AdminsWorksOn, SettingsWorksOn,
             SupportWorksOn, NotificationsWorksOn
    <2> QED
      BY <2>1, <2>2 DEF TopicKept, LabelsOf
  <1> QED
    BY <1>1, <1>2 DEF BackofficeStep

-----------------------------------------------------------------------------
(* Proofs: administrators *)

\* Two handlers that work on one row are in raced.
LEMMA AdminMet ==
    ASSUME TopicKept, AdminsTypeOK, NEW p \in Procs, NEW q \in Procs, p # q,
           target[q] \in Administrators, target[p] = target[q]
    PROVE  target[q] \in raced
  <1>1. target[q] \in AdminsWorksOn(p) /\ target[q] \in AdminsWorksOn(q)
    BY AdminsAssumption DEF AdminsWorksOn
  <1> QED
    BY <1>1, WorkedOnByTwo DEF BackofficeWorksOn

\* What the other handlers know stays true if rows stay and new one-time
\* passwords are new, and what they read if the step writes its own row only.
LEMMA OtherAdminsKept ==
    ASSUME TopicKept, AdminsAlone, topic = "admins", NEW p \in Procs, NEW label,
           NEW t, NEW s, NEW c, NEW o,
           Goto(p, label), raced \subseteq raced',
           target' = [target EXCEPT ![p] = t], seenAdmin' = [seenAdmin EXCEPT ![p] = s],
           change' = [change EXCEPT ![p] = c], typedOtp' = [typedOtp EXCEPT ![p] = o],
           drawn \subseteq drawn',
           \A a \in Administrators :
               /\ role[a] # "none" => role'[a] # "none"
               /\ otp'[a] = otp[a] \/ otp'[a] \notin drawn
               /\ a # target[p] => role'[a] = role[a] /\ otp'[a] = otp[a],
           NEW q \in Procs, q # p
    PROVE  AdminInformed(q)' /\ AdminAsRead(q)'
  <1>1. AdminsTypeOK /\ AdminInformed(q) /\ AdminAsRead(q)
    BY DEF AdminsAlone, AdminsInv
  <1>2. /\ pc'[q] = pc[q] /\ target'[q] = target[q] /\ change'[q] = change[q]
        /\ typedOtp'[q] = typedOtp[q]
    BY DEF Goto, TopicKept, AdminsAlone, AdminsInv, AdminsTypeOK
  <1>3. AdminInformed(q)'
    BY <1>1, <1>2 DEF AdminInformed, AdminLabels
  <1>4. AdminAsRead(q)'
    <2>1. CASE pc[q] \in AdminLabels
      <3>1. target[q] \in Administrators
        BY <1>1, <2>1 DEF AdminInformed
      <3>2. target[q] \notin raced' => target[q] # target[p]
        BY <1>1, <3>1, AdminMet
      <3> QED
        BY <1>1, <1>2, <3>1, <3>2 DEF AdminAsRead
    <2>2. CASE pc[q] \notin AdminLabels
      BY <1>2, <2>2 DEF AdminAsRead, AdminLabels
    <2> QED
      BY <2>1, <2>2
  <1> QED
    BY <1>3, <1>4

\* A request that reads the row of an administrator.
LEMMA ReadAdminKept ==
    ASSUME TopicKept, AdminsAlone, topic = "admins", NEW p \in Procs,
           NEW a \in Administrators, NEW wanted \in AdminChanges, NEW code \in Otps \cup {NoOtp},
           NEW label \in AdminLabels, ReadAdmin(p, a, wanted, code, label),
           raced \subseteq raced',
           label \notin {"admin_create", "otp_password"},
           label = "admin_disable" => wanted.status = "disabled" /\ role[a] # "super_admin",
           label = "admin_enable" => wanted.status = "active",
           label = "otp_compare" => code \in drawn
    PROVE  AdminsAlone'
  <1>1. AdminsTypeOK /\ misused \subseteq raced /\ OtpsApart
    BY DEF AdminsAlone, AdminsInv, OtpUsedOnceUnlessRaced
  <1>2. /\ target' = [target EXCEPT ![p] = a]
        /\ seenAdmin' = [seenAdmin EXCEPT ![p] = [role |-> role[a], active |-> a \in active]]
        /\ change' = [change EXCEPT ![p] = wanted]
        /\ typedOtp' = [typedOtp EXCEPT ![p] = code]
        /\ Goto(p, label) /\ role[a] # "none"
        /\ role' = role /\ active' = active /\ otp' = otp
        /\ drawn' = drawn /\ usedOtp' = usedOtp /\ misused' = misused
    BY DEF ReadAdmin, adminsTable
  <1>3. AdminsTypeOK'
    <2>1. [role |-> role[a], active |-> a \in active] \in
             [role : Roles \cup {"none"}, active : BOOLEAN]
      BY <1>1 DEF AdminsTypeOK
    <2>2. /\ seenAdmin' \in [Procs -> [role : Roles \cup {"none"}, active : BOOLEAN]]
          /\ target' \in [Procs -> Administrators \cup {NoAdmin}]
          /\ change' \in [Procs -> AdminChanges]
          /\ typedOtp' \in [Procs -> Otps \cup {NoOtp}]
      BY <1>1, <1>2, <2>1 DEF AdminsTypeOK
    <2> QED
      BY <1>1, <1>2, <2>2 DEF AdminsTypeOK
  <1>4. OtpUsedOnceUnlessRaced' /\ OtpsApart'
    BY <1>1, <1>2 DEF OtpUsedOnceUnlessRaced, OtpsApart
  <1>5. AdminInformed(p)' /\ AdminAsRead(p)'
    <2>1. pc'[p] = label /\ target'[p] = a /\ change'[p] = wanted /\ typedOtp'[p] = code
      BY <1>1, <1>2 DEF Goto, AdminsTypeOK, TopicKept
    <2> QED
      BY <1>2, <2>1 DEF AdminInformed, AdminAsRead
  <1>6. \A q \in Procs \ {p} : AdminInformed(q)' /\ AdminAsRead(q)'
    BY <1>2, OtherAdminsKept
  <1> QED
    BY <1>3, <1>4, <1>5, <1>6 DEF AdminsAlone, AdminsInv

\* The last step of a handler.
LEMMA AdminDoneKept ==
    ASSUME TopicKept, AdminsAlone, topic = "admins", NEW p \in Procs, AdminDone(p),
           raced \subseteq raced',
           role' \in [Administrators -> Roles \cup {"none"}],
           active' \subseteq {a \in Administrators : role'[a] # "none"},
           otp' \in [Administrators -> Otps \cup {NoOtp}],
           drawn \subseteq drawn', drawn' \subseteq Otps, usedOtp' \subseteq drawn',
           misused' \subseteq Administrators,
           \A a \in Administrators :
               /\ role[a] # "none" => role'[a] # "none"
               /\ otp'[a] = otp[a] \/ otp'[a] \notin drawn
               /\ a # target[p] => role'[a] = role[a] /\ otp'[a] = otp[a],
           OtpUsedOnceUnlessRaced', OtpsApart'
    PROVE  AdminsAlone'
  <1>1. AdminsTypeOK
    BY DEF AdminsAlone, AdminsInv
  <1>2. /\ target' = [target EXCEPT ![p] = NoAdmin]
        /\ seenAdmin' = [seenAdmin EXCEPT ![p] = NothingSeen]
        /\ change' = [change EXCEPT ![p] = NoChange]
        /\ typedOtp' = [typedOtp EXCEPT ![p] = NoOtp]
        /\ Goto(p, "idle")
    BY DEF AdminDone
  <1>3. AdminsTypeOK'
    <2>1. /\ NothingSeen \in [role : Roles \cup {"none"}, active : BOOLEAN]
          /\ NoChange \in AdminChanges
      BY DEF NothingSeen, NoChange, AdminChanges
    <2>2. /\ seenAdmin' \in [Procs -> [role : Roles \cup {"none"}, active : BOOLEAN]]
          /\ target' \in [Procs -> Administrators \cup {NoAdmin}]
          /\ change' \in [Procs -> AdminChanges]
          /\ typedOtp' \in [Procs -> Otps \cup {NoOtp}]
      BY <1>1, <1>2, <2>1 DEF AdminsTypeOK
    <2> QED
      BY <2>2 DEF AdminsTypeOK
  <1>4. AdminInformed(p)' /\ AdminAsRead(p)'
    <2>1. pc'[p] = "idle"
      BY <1>2 DEF Goto, TopicKept
    <2> QED
      BY <2>1 DEF AdminInformed, AdminAsRead, AdminLabels
  <1>5. \A q \in Procs \ {p} : AdminInformed(q)' /\ AdminAsRead(q)'
    BY <1>2, OtherAdminsKept
  <1> QED
    BY <1>3, <1>4, <1>5 DEF AdminsAlone, AdminsInv

\* Requests.
LEMMA AdminsRequestKept ==
    ASSUME TopicKept, AdminsAlone, topic = "admins", NEW p \in Procs, AdminsRequest(p),
           raced \subseteq raced'
    PROVE  AdminsAlone'
  <1>1. AdminsTypeOK /\ misused \subseteq raced /\ OtpsApart
    BY DEF AdminsAlone, AdminsInv, OtpUsedOnceUnlessRaced
  <1>2. /\ NoChange \in AdminChanges
        /\ [NoChange EXCEPT !.status = "disabled"] \in AdminChanges
        /\ [NoChange EXCEPT !.status = "disabled"].status = "disabled"
        /\ [NoChange EXCEPT !.status = "active"] \in AdminChanges
        /\ [NoChange EXCEPT !.status = "active"].status = "active"
    BY DEF NoChange, AdminChanges
  <1>3. ASSUME NEW a \in Administrators, NEW r \in Roles, CreateAdmin(p, a, r)
        PROVE  AdminsAlone'
    <2>1. [NoChange EXCEPT !.role = r] \in AdminChanges /\ [NoChange EXCEPT !.role = r].role = r
      BY DEF NoChange, AdminChanges
    <2> DEFINE c == [NoChange EXCEPT !.role = r]
    <2> HIDE DEF c
    <2>2. /\ target' = [target EXCEPT ![p] = a]
          /\ change' = [change EXCEPT ![p] = c]
          /\ seenAdmin' = seenAdmin /\ typedOtp' = typedOtp
          /\ Goto(p, "admin_create")
          /\ role' = role /\ active' = active /\ otp' = otp
          /\ drawn' = drawn /\ usedOtp' = usedOtp /\ misused' = misused
      BY <1>3 DEF CreateAdmin, adminsTable, c
    <2>3. c \in AdminChanges /\ c.role = r
      BY <2>1 DEF c
    <2>4. AdminsTypeOK'
      <3>1. /\ target' \in [Procs -> Administrators \cup {NoAdmin}]
            /\ change' \in [Procs -> AdminChanges]
        BY <1>1, <2>2, <2>3 DEF AdminsTypeOK
      <3> QED
        BY <1>1, <2>2, <3>1 DEF AdminsTypeOK
    <2>5. OtpUsedOnceUnlessRaced' /\ OtpsApart'
      BY <1>1, <2>2 DEF OtpUsedOnceUnlessRaced, OtpsApart
    <2>6. AdminInformed(p)' /\ AdminAsRead(p)'
      <3>1. pc'[p] = "admin_create" /\ target'[p] = a /\ change'[p] = c
        BY <1>1, <2>2 DEF Goto, AdminsTypeOK, TopicKept
      <3> QED
        BY <2>3, <3>1 DEF AdminInformed, AdminAsRead
    <2>7. seenAdmin' = [seenAdmin EXCEPT ![p] = @] /\ typedOtp' = [typedOtp EXCEPT ![p] = @]
      BY <1>1, <2>2 DEF AdminsTypeOK
    <2>8. \A q \in Procs \ {p} : AdminInformed(q)' /\ AdminAsRead(q)'
      BY <2>2, <2>7, OtherAdminsKept
    <2> QED
      BY <2>4, <2>5, <2>6, <2>8 DEF AdminsAlone, AdminsInv
  <1>4. ASSUME NEW a \in Administrators, NEW wanted \in AdminChanges, UpdateAdmin(p, a, wanted)
        PROVE  AdminsAlone'
    BY <1>4, ReadAdminKept DEF UpdateAdmin, AdminLabels
  <1>5. ASSUME NEW a \in Administrators, NEW by \in Administrators, DisableAdmin(p, by, a)
        PROVE  AdminsAlone'
    BY <1>2, <1>5, ReadAdminKept DEF DisableAdmin, AdminLabels
  <1>6. ASSUME NEW a \in Administrators, UnsuspendAdmin(p, a)
        PROVE  AdminsAlone'
    BY <1>2, <1>6, ReadAdminKept DEF UnsuspendAdmin, AdminLabels
  <1>7. ASSUME NEW a \in Administrators, RequestOtp(p, a)
        PROVE  AdminsAlone'
    BY <1>2, <1>7, ReadAdminKept DEF RequestOtp, AdminLabels
  <1>8. ASSUME NEW a \in Administrators, NEW c \in Otps, VerifyOtp(p, a, c)
        PROVE  AdminsAlone'
    BY <1>2, <1>8, ReadAdminKept DEF VerifyOtp, AdminLabels
  <1> QED
    BY <1>3, <1>4, <1>5, <1>6, <1>7, <1>8 DEF AdminsRequest

\* Steps that save a row.
LEMMA AdminsSaveKept ==
    ASSUME TopicKept, AdminsAlone, topic = "admins", NEW p \in Procs,
           InsertAdmin(p) \/ SaveAdmin(p) \/ SaveAdminStatus(p) \/ AdminHandlerFails(p),
           raced \subseteq raced'
    PROVE  AdminsAlone'
  <1>1. AdminsTypeOK /\ misused \subseteq raced /\ OtpsApart /\ AdminInformed(p)
    BY DEF AdminsAlone, AdminsInv, OtpUsedOnceUnlessRaced
  <1>2. /\ AdminDone(p)
        /\ otp' = otp /\ drawn' = drawn /\ usedOtp' = usedOtp /\ misused' = misused
    BY DEF InsertAdmin, SaveAdmin, SaveAdminStatus, AdminHandlerFails, adminsTable
  <1>3. OtpUsedOnceUnlessRaced' /\ OtpsApart'
    BY <1>1, <1>2 DEF OtpUsedOnceUnlessRaced, OtpsApart
  <1>4. ASSUME role' \in [Administrators -> Roles \cup {"none"}],
               active' \subseteq {a \in Administrators : role'[a] # "none"},
               \A a \in Administrators :
                   /\ role[a] # "none" => role'[a] # "none"
                   /\ a # target[p] => role'[a] = role[a]
        PROVE  AdminsAlone'
    BY <1>1, <1>2, <1>3, <1>4, AdminDoneKept DEF AdminsTypeOK
  <1>5. ASSUME NEW a \in Administrators, NEW status, NEW seen, role'[a] # "none",
               WriteActive(a, status, seen)
        PROVE  active' \subseteq active \cup {a}
    BY <1>5 DEF WriteActive
  <1>6. CASE InsertAdmin(p)
    <2>1. pc[p] = "admin_create" /\ role' = [role EXCEPT ![target[p]] = change[p].role]
          /\ active' = active \cup {target[p]}
      BY <1>6 DEF InsertAdmin
    <2>2. target[p] \in Administrators /\ change[p].role \in Roles
      BY <1>1, <2>1 DEF AdminInformed, AdminLabels
    <2> QED
      BY <1>1, <1>4, <2>1, <2>2 DEF AdminsTypeOK, Roles
  <1>7. CASE SaveAdmin(p)
    <2>1. /\ pc[p] = "admin_save"
          /\ WriteRole(target[p], change[p].role, seenAdmin[p].role)
          /\ WriteActive(target[p], change[p].status, seenAdmin[p].active)
      BY <1>7 DEF SaveAdmin
    <2>2. target[p] \in Administrators /\ role[target[p]] # "none"
      BY <1>1, <2>1 DEF AdminInformed, AdminLabels
    <2>3. change[p].role \in Roles \cup {"same"}
      BY <1>1 DEF AdminsTypeOK, AdminChanges
    <2>4. /\ role' \in [Administrators -> Roles \cup {"none"}]
          /\ \A a \in Administrators :
                   /\ role[a] # "none" => role'[a] # "none"
                   /\ a # target[p] => role'[a] = role[a]
      BY <1>1, <2>1, <2>2, <2>3 DEF AdminsTypeOK, WriteRole, Roles
    <2>5. active' \subseteq active \cup {target[p]}
      BY <1>5, <2>1, <2>2, <2>4
    <2> QED
      BY <1>1, <1>4, <2>2, <2>4, <2>5 DEF AdminsTypeOK
  <1>8. CASE SaveAdminStatus(p)
    <2>1. /\ pc[p] \in {"admin_disable", "admin_enable"} /\ role' = role
          /\ WriteActive(target[p], change[p].status, seenAdmin[p].active)
      BY <1>8 DEF SaveAdminStatus
    <2>2. target[p] \in Administrators /\ role[target[p]] # "none"
      BY <1>1, <2>1 DEF AdminInformed, AdminLabels
    <2>3. active' \subseteq active \cup {target[p]}
      BY <1>5, <2>1, <2>2
    <2> QED
      BY <1>1, <1>4, <2>1, <2>2, <2>3 DEF AdminsTypeOK
  <1>9. CASE AdminHandlerFails(p)
    BY <1>1, <1>4, <1>9 DEF AdminHandlerFails, adminsTable, AdminsTypeOK
  <1> QED
    BY <1>6, <1>7, <1>8, <1>9

\* A row is unchanged.
LEMMA ReadUpdaterKept ==
    ASSUME TopicKept, AdminsAlone, topic = "admins", NEW p \in Procs, ReadUpdater(p),
           raced \subseteq raced'
    PROVE  AdminsAlone'
  <1>1. AdminsTypeOK /\ misused \subseteq raced /\ OtpsApart /\ AdminInformed(p)
    BY DEF AdminsAlone, AdminsInv, OtpUsedOnceUnlessRaced
  <1>2. /\ pc[p] = "admin_updater" /\ Goto(p, "admin_save")
        /\ role' = role /\ active' = active /\ otp' = otp
        /\ target' = target /\ seenAdmin' = seenAdmin /\ change' = change
        /\ typedOtp' = typedOtp /\ drawn' = drawn /\ usedOtp' = usedOtp /\ misused' = misused
    BY DEF ReadUpdater, adminsTable, adminLocals
  <1>3. AdminsTypeOK'
    BY <1>1, <1>2 DEF AdminsTypeOK
  <1>4. OtpUsedOnceUnlessRaced' /\ OtpsApart'
    BY <1>1, <1>2 DEF OtpUsedOnceUnlessRaced, OtpsApart
  <1>5. AdminInformed(p)' /\ AdminAsRead(p)'
    <2>1. pc'[p] = "admin_save"
      BY <1>2 DEF Goto, TopicKept
    <2> QED
      BY <1>1, <1>2, <2>1 DEF AdminInformed, AdminAsRead, AdminLabels
  <1>6. /\ target' = [target EXCEPT ![p] = @] /\ seenAdmin' = [seenAdmin EXCEPT ![p] = @]
        /\ change' = [change EXCEPT ![p] = @] /\ typedOtp' = [typedOtp EXCEPT ![p] = @]
    BY <1>1, <1>2 DEF AdminsTypeOK
  <1>7. \A q \in Procs \ {p} : AdminInformed(q)' /\ AdminAsRead(q)'
    BY <1>2, <1>6, OtherAdminsKept
  <1> QED
    BY <1>3, <1>4, <1>5, <1>7 DEF AdminsAlone, AdminsInv

\* A new one-time password is on no other row.
LEMMA OtpUpdateKept ==
    ASSUME TopicKept, AdminsAlone, topic = "admins", NEW p \in Procs, OtpUpdate(p),
           raced \subseteq raced'
    PROVE  AdminsAlone'
  <1>1. AdminsTypeOK /\ misused \subseteq raced /\ OtpsApart /\ AdminInformed(p)
    BY DEF AdminsAlone, AdminsInv, OtpUsedOnceUnlessRaced
  <1>2. PICK c \in Otps \ drawn :
          otp' = [otp EXCEPT ![target[p]] = c] /\ drawn' = drawn \cup {c}
    BY DEF OtpUpdate
  <1>3. /\ pc[p] = "otp_update" /\ AdminDone(p)
        /\ role' = role /\ active' = active /\ usedOtp' = usedOtp /\ misused' = misused
    BY DEF OtpUpdate
  <1>4. target[p] \in Administrators
    BY <1>1, <1>3 DEF AdminInformed, AdminLabels
  <1>5. /\ otp' \in [Administrators -> Otps \cup {NoOtp}]
        /\ \A a \in Administrators : otp'[a] = IF a = target[p] THEN c ELSE otp[a]
    BY <1>1, <1>2, <1>4 DEF AdminsTypeOK
  <1>6. OtpsApart'
    <2>1. c # NoOtp /\ c \notin usedOtp /\ c \in Otps
      BY <1>1, AdminsAssumption DEF AdminsTypeOK
    <2>2. \A a \in Administrators : otp[a] # c
      BY <1>1, <2>1 DEF OtpsApart
    <2> QED
      BY <1>1, <1>2, <1>3, <1>5, <2>1, <2>2 DEF OtpsApart
  <1>7. OtpUsedOnceUnlessRaced'
    BY <1>1, <1>3 DEF OtpUsedOnceUnlessRaced
  <1> QED
    BY <1>1, <1>2, <1>3, <1>5, <1>6, <1>7, AdminDoneKept DEF AdminsTypeOK

\* The one-time password that is compared is on this row, so on no other.
LEMMA OtpCompareKept ==
    ASSUME TopicKept, AdminsAlone, topic = "admins", NEW p \in Procs, OtpCompare(p),
           raced \subseteq raced'
    PROVE  AdminsAlone'
  <1>1. AdminsTypeOK /\ misused \subseteq raced /\ OtpsApart /\ AdminInformed(p)
    BY DEF AdminsAlone, AdminsInv, OtpUsedOnceUnlessRaced
  <1>2. /\ pc[p] = "otp_compare" /\ Goto(p, "otp_password")
        /\ otp[target[p]] = typedOtp[p]
        /\ role' = role /\ active' = active /\ otp' = otp
        /\ target' = target /\ seenAdmin' = seenAdmin /\ change' = change
        /\ typedOtp' = typedOtp /\ drawn' = drawn /\ usedOtp' = usedOtp /\ misused' = misused
    BY DEF OtpCompare, adminsTable, adminLocals
  <1>3. AdminsTypeOK'
    BY <1>1, <1>2 DEF AdminsTypeOK
  <1>4. OtpUsedOnceUnlessRaced' /\ OtpsApart'
    BY <1>1, <1>2 DEF OtpUsedOnceUnlessRaced, OtpsApart
  <1>5. AdminInformed(p)' /\ AdminAsRead(p)'
    <2>1. pc'[p] = "otp_password"
      BY <1>2 DEF Goto, TopicKept
    <2>2. /\ target[p] \in Administrators /\ role[target[p]] # "none"
          /\ typedOtp[p] \in drawn
      BY <1>1, <1>2 DEF AdminInformed, AdminLabels
    <2>3. typedOtp[p] # NoOtp
      BY <1>1, <2>2, AdminsAssumption DEF AdminsTypeOK
    <2>4. \A a \in Administrators \ {target[p]} : otp[a] # typedOtp[p]
      BY <1>1, <1>2, <2>2, <2>3 DEF OtpsApart
    <2> QED
      BY <1>2, <2>1, <2>2, <2>4 DEF AdminInformed, AdminAsRead, AdminLabels
  <1>6. /\ target' = [target EXCEPT ![p] = @] /\ seenAdmin' = [seenAdmin EXCEPT ![p] = @]
        /\ change' = [change EXCEPT ![p] = @] /\ typedOtp' = [typedOtp EXCEPT ![p] = @]
    BY <1>1, <1>2 DEF AdminsTypeOK
  <1>7. \A q \in Procs \ {p} : AdminInformed(q)' /\ AdminAsRead(q)'
    BY <1>2, <1>6, OtherAdminsKept
  <1> QED
    BY <1>3, <1>4, <1>5, <1>7 DEF AdminsAlone, AdminsInv

\* A one-time password that is used is gone from its row.
LEMMA OtpPasswordStepKept ==
    ASSUME TopicKept, AdminsAlone, topic = "admins", NEW p \in Procs, OtpPassword(p),
           raced \subseteq raced'
    PROVE  AdminsAlone'
  <1>1. /\ AdminsTypeOK /\ misused \subseteq raced /\ OtpsApart
        /\ AdminInformed(p) /\ AdminAsRead(p)
    BY DEF AdminsAlone, AdminsInv, OtpUsedOnceUnlessRaced
  <1>2. /\ pc[p] = "otp_password" /\ AdminDone(p)
        /\ otp' = [otp EXCEPT ![target[p]] = NoOtp]
        /\ usedOtp' = usedOtp \cup {typedOtp[p]}
        /\ misused' = misused \cup Misused(p)
        /\ role' = role /\ active' = active /\ drawn' = drawn
    BY DEF OtpPassword
  <1>3. /\ target[p] \in Administrators /\ typedOtp[p] \in drawn
        /\ \A a \in Administrators \ {target[p]} : otp[a] # typedOtp[p]
    BY <1>1, <1>2 DEF AdminInformed, AdminLabels
  <1>4. NoOtp \notin drawn
    BY <1>1, AdminsAssumption DEF AdminsTypeOK
  <1>5. /\ otp' \in [Administrators -> Otps \cup {NoOtp}]
        /\ \A a \in Administrators : otp'[a] = IF a = target[p] THEN NoOtp ELSE otp[a]
    BY <1>1, <1>2, <1>3 DEF AdminsTypeOK
  <1>6. OtpsApart'
    BY <1>1, <1>2, <1>3, <1>4, <1>5 DEF OtpsApart
  <1>7. Misused(p) \subseteq raced /\ Misused(p) \subseteq Administrators
    <2>1. target[p] \notin raced => otp[target[p]] = typedOtp[p]
      BY <1>1, <1>2 DEF AdminAsRead
    <2>2. target[p] \notin raced => typedOtp[p] \notin usedOtp
      BY <1>1, <1>3, <1>4, <2>1 DEF OtpsApart
    <2> QED
      BY <1>3, <2>1, <2>2 DEF Misused
  <1>8. OtpUsedOnceUnlessRaced'
    BY <1>1, <1>2, <1>7 DEF OtpUsedOnceUnlessRaced
  <1> QED
    BY <1>1, <1>2, <1>3, <1>4, <1>5, <1>6, <1>7, <1>8, AdminDoneKept DEF AdminsTypeOK

\* Every step of the specification.
LEMMA AdminsAloneKept ==
    ASSUME TopicKept, AdminsAlone, BackofficeStep
    PROVE  AdminsAlone'
  <1>1. topic' = topic /\ raced \subseteq raced'
    BY TopicKeptByStep
  <1>2. ASSUME UNCHANGED adminsState, topic # "admins" \/ UNCHANGED pc
        PROVE  AdminsAlone'
    <2>1. /\ role' = role /\ active' = active /\ otp' = otp
          /\ target' = target /\ seenAdmin' = seenAdmin /\ change' = change
          /\ typedOtp' = typedOtp /\ drawn' = drawn /\ usedOtp' = usedOtp /\ misused' = misused
      BY <1>2 DEF adminsState, adminsTable, adminLocals
    <2>2. AdminsInv' /\ OtpsApart'
      BY <1>1, <2>1 DEF AdminsAlone, AdminsInv, AdminsTypeOK, OtpUsedOnceUnlessRaced, OtpsApart
    <2>3. topic = "admins" => \A p \in Procs : AdminInformed(p)' /\ AdminAsRead(p)'
      BY <1>1, <1>2, <2>1 DEF AdminsAlone, AdminInformed, AdminAsRead
    <2> QED
      BY <1>1, <2>2, <2>3 DEF AdminsAlone
  <1>3. CASE UNCHANGED <<backofficeVars, raced>>
    BY <1>2, <1>3 DEF backofficeVars, backofficeState
  <1>4. ASSUME NEW p \in Procs, topic = "admins", AdminsNext(p)
        PROVE  AdminsAlone'
    <2>1. CASE AdminsRequest(p)
      BY <1>1, <1>4, <2>1, AdminsRequestKept
    <2>2. CASE AdminsStep(p)
      BY <1>1, <1>4, <2>2, AdminsSaveKept, ReadUpdaterKept, OtpUpdateKept, OtpCompareKept,
         OtpPasswordStepKept DEF AdminsStep
    <2> QED
      BY <1>4, <2>1, <2>2 DEF AdminsNext
  <1>5. CASE BackofficeNext
    BY <1>2, <1>4, <1>5 DEF BackofficeNext, SettingsNext, SupportNext, NotificationsNext
  <1> QED
    BY <1>3, <1>5 DEF BackofficeStep

\* The first state.
LEMMA AdminsAtStart ==
    ASSUME BackofficeStart
    PROVE  AdminsAlone
  <1>1. /\ AdminsInit /\ raced = {} /\ pc = [p \in Procs |-> "idle"]
    BY DEF BackofficeStart, CallsStart, RequestsInit
  <1>2. /\ NothingSeen \in [role : Roles \cup {"none"}, active : BOOLEAN]
        /\ NoChange \in AdminChanges
    BY DEF NothingSeen, NoChange, AdminChanges
  <1>3. AdminsTypeOK
    BY <1>1, <1>2 DEF AdminsInit, AdminsTypeOK
  <1>4. OtpUsedOnceUnlessRaced /\ OtpsApart
    BY <1>1 DEF AdminsInit, OtpUsedOnceUnlessRaced, OtpsApart
  <1>5. \A p \in Procs : AdminInformed(p) /\ AdminAsRead(p)
    BY <1>1 DEF AdminInformed, AdminAsRead, AdminLabels
  <1> QED
    BY <1>3, <1>4, <1>5 DEF AdminsAlone, AdminsInv

\* What a step does to the row of an administrator.
LEMMA AdminRowKept ==
    ASSUME TopicKept, AdminsAlone, BackofficeStep, NEW a \in Administrators
    PROVE  OnlyAskedChanges(a) /\ (a \notin raced' => SuperAdminKept(a))
  <1>1. AdminsTypeOK
    BY DEF AdminsAlone, AdminsInv
  <1>2. raced \subseteq raced'
    BY TopicKeptByStep
  <1>3. ASSUME role'[a] = role[a], a \in active <=> a \in active'
        PROVE  OnlyAskedChanges(a) /\ SuperAdminKept(a)
    BY <1>3 DEF OnlyAskedChanges, SuperAdminKept
  <1>4. CASE UNCHANGED <<role, active>>
    BY <1>3, <1>4
  <1>5. ASSUME NEW p \in Procs, topic = "admins", InsertAdmin(p)
        PROVE  OnlyAskedChanges(a) /\ SuperAdminKept(a)
    <2>1. /\ role[target[p]] = "none" /\ role' = [role EXCEPT ![target[p]] = change[p].role]
          /\ active' = active \cup {target[p]}
      BY <1>5 DEF InsertAdmin
    <2>2. CASE a = target[p]
      BY <2>1, <2>2 DEF OnlyAskedChanges, SuperAdminKept
    <2>3. CASE a # target[p]
      BY <1>1, <1>3, <2>1, <2>3 DEF AdminsTypeOK
    <2> QED
      BY <2>2, <2>3
  <1>6. ASSUME NEW p \in Procs, NEW seen, WriteActive(target[p], change[p].status, seen),
               (a \in active) # (a \in active')
        PROVE  /\ a = target[p]
               /\ change[p].status = IF a \in active' THEN "active" ELSE "disabled"
    BY <1>6 DEF WriteActive
  <1>7. ASSUME NEW p \in Procs, topic = "admins", SaveAdmin(p)
        PROVE  OnlyAskedChanges(a) /\ SuperAdminKept(a)
    <2>1. /\ pc[p] = "admin_save"
          /\ WriteRole(target[p], change[p].role, seenAdmin[p].role)
          /\ WriteActive(target[p], change[p].status, seenAdmin[p].active)
      BY <1>7 DEF SaveAdmin
    <2>2. role'[a] # role[a] => a = target[p] /\ change[p].role = role'[a]
      BY <1>1, <2>1 DEF WriteRole, AdminsTypeOK
    <2>3. (a \in active) # (a \in active') =>
              /\ a = target[p]
              /\ change[p].status = IF a \in active' THEN "active" ELSE "disabled"
      BY <1>6, <2>1
    <2>4. OnlyAskedChanges(a)
      BY <2>2, <2>3 DEF OnlyAskedChanges
    <2>5. SuperAdminKept(a)
      BY <2>1, <2>3 DEF SuperAdminKept
    <2> QED
      BY <2>4, <2>5
  <1>8. ASSUME NEW p \in Procs, topic = "admins", SaveAdminStatus(p)
        PROVE  OnlyAskedChanges(a) /\ (a \notin raced' => SuperAdminKept(a))
    <2>1. /\ pc[p] \in {"admin_disable", "admin_enable"} /\ role' = role
          /\ WriteActive(target[p], change[p].status, seenAdmin[p].active)
      BY <1>8 DEF SaveAdminStatus
    <2>2. (a \in active) # (a \in active') =>
              /\ a = target[p]
              /\ change[p].status = IF a \in active' THEN "active" ELSE "disabled"
      BY <1>6, <2>1
    <2>3. OnlyAskedChanges(a)
      BY <2>1, <2>2 DEF OnlyAskedChanges
    <2>4. ASSUME a \notin raced', role[a] = "super_admin", a \in active, a \notin active'
          PROVE  FALSE
      <3>1. a = target[p] /\ change[p].status = "disabled"
        BY <2>2, <2>4
      <3>2. pc[p] = "admin_disable"
        BY <1>8, <2>1, <3>1 DEF AdminsAlone, AdminInformed
      <3>3. role[a] # "super_admin"
        BY <1>2, <1>8, <2>4, <3>1, <3>2 DEF AdminsAlone, AdminAsRead
      <3> QED
        BY <2>4, <3>3
    <2> QED
      BY <2>3, <2>4 DEF SuperAdminKept
  <1>9. CASE BackofficeNext
    <2>1. ASSUME NEW p \in Procs, topic = "admins", AdminsNext(p)
          PROVE  OnlyAskedChanges(a) /\ (a \notin raced' => SuperAdminKept(a))
      <3>1. CASE AdminsRequest(p)
        BY <1>4, <3>1 DEF AdminsRequest, CreateAdmin, UpdateAdmin, DisableAdmin,
               UnsuspendAdmin, RequestOtp, VerifyOtp, ReadAdmin, adminsTable
      <3>2. CASE ReadUpdater(p) \/ OtpUpdate(p) \/ OtpCompare(p) \/ OtpPassword(p)
                   \/ AdminHandlerFails(p)
        BY <1>4, <3>2 DEF ReadUpdater, OtpUpdate, OtpCompare, OtpPassword,
               AdminHandlerFails, adminsTable
      <3> QED
        BY <1>5, <1>7, <1>8, <2>1, <3>1, <3>2 DEF AdminsNext, AdminsStep
    <2>2. CASE UNCHANGED adminsState
      BY <1>4, <2>2 DEF adminsState, adminsTable
    <2> QED
      BY <1>9, <2>1, <2>2 DEF BackofficeNext, SettingsNext, SupportNext, NotificationsNext
  <1>10. CASE UNCHANGED <<backofficeVars, raced>>
    BY <1>4, <1>10 DEF backofficeVars, backofficeState, adminsState, adminsTable
  <1> QED
    BY <1>9, <1>10 DEF BackofficeStep

-----------------------------------------------------------------------------
(* Proofs: settings *)

Updates ==
    [kind : {"none", "read", "limits", "extended", "switch"},
     limits : LimitUpdates \cup {NoLimits}, keys : SUBSET Keys,
     switch : Switches \cup {NoSwitch}, value : BOOLEAN,
     row : Rows \cup {NoSettings}, seenMin : Limits \cup {Unset},
     seenKeys : SUBSET Keys, seenOn : SUBSET Switches]

SettingsTablesOK ==
    /\ rows \subseteq Rows
    /\ minPayout \in [Rows -> Limits] /\ maxPayout \in [Rows -> Limits]
    /\ extended \in [Rows -> SUBSET Keys]
    /\ on \in [Rows -> SUBSET Switches]
    /\ acknowledged \subseteq Keys /\ reported \subseteq Switches

\* What a handler is changing.
Changing(p, what) ==
    \/ pc[p] = "settings_create" /\ what \in {"row", update[p].kind}
    \/ pc[p] = "settings_save" /\ what = update[p].kind

\* What two handlers are changing at once is in raced.
LEMMA SettingsMet ==
    ASSUME TopicKept, NEW p \in Procs, NEW q \in Procs, p # q, NEW what,
           Changing(p, what), Changing(q, what)
    PROVE  Met(what)
  <1>1. ASSUME NEW x, Changing(x, what)
        PROVE  <<"settings", what>> \in SettingsWorksOn(x)
    <2>1. CASE pc[x] = "settings_create"
      BY <1>1, <2>1 DEF Changing, SettingsWorksOn
    <2>2. CASE pc[x] = "settings_save"
      BY <1>1, <2>2 DEF Changing, SettingsWorksOn
    <2> QED
      BY <1>1, <2>1, <2>2 DEF Changing
  <1>2. /\ <<"settings", what>> \in BackofficeWorksOn(p)
        /\ <<"settings", what>> \in BackofficeWorksOn(q)
    BY <1>1 DEF BackofficeWorksOn
  <1> QED
    BY <1>2, WorkedOnByTwo DEF Met

\* What a step of a handler leaves to the others.
ChangesItsOwn(p) ==
    /\ rows \subseteq rows'
    /\ rows' # rows => pc[p] = "settings_create"
    /\ minPayout' # minPayout => Changing(p, "limits")
    /\ extended' # extended => Changing(p, "extended")
    /\ on' # on => Changing(p, "switch")

\* The other handlers know what they knew.
LEMMA OtherSettingsKept ==
    ASSUME TopicKept, SettingsAlone, topic = "settings", NEW p \in Procs,
           NEW u \in Updates, NEW label, SettingsGoOn(p, u, label), ChangesItsOwn(p),
           raced \subseteq raced', NEW q \in Procs, q # p
    PROVE  SettingsInformed(q)' /\ SettingsAsRead(q)'
  <1>1. SettingsTypeOK /\ SettingsInformed(q) /\ SettingsAsRead(q)
    BY DEF SettingsAlone, SettingsInv
  <1>2. pc'[q] = pc[q] /\ update'[q] = update[q]
    BY <1>1 DEF SettingsGoOn, Goto, TopicKept, SettingsTypeOK
  <1>3. SettingsInformed(q)'
    BY <1>1, <1>2 DEF SettingsInformed, WellAsked
  <1>4. \A what : ~(<<"settings", what>> \in raced') => ~Met(what)
    BY DEF Met
  <1>5. ASSUME pc[q] = "settings_create", ~Met("row")'
        PROVE  rows' = {}
    <2>1. ~Met("row") /\ rows = {}
      BY <1>1, <1>4, <1>5 DEF SettingsAsRead, Met
    <2>2. pc[p] # "settings_create"
      BY <1>5, <2>1, SettingsMet DEF Changing
    <2> QED
      BY <2>1, <2>2 DEF ChangesItsOwn
  <1>6. ASSUME pc[q] = "settings_save", update[q].kind = "limits", ~Met("limits")'
        PROVE  update[q].seenMin = minPayout'[update[q].row]
    <2>1. ~Met("limits") /\ update[q].seenMin = minPayout[update[q].row]
      BY <1>1, <1>4, <1>6 DEF SettingsAsRead, Met
    <2>2. ~Changing(p, "limits")
      BY <1>6, <2>1, SettingsMet DEF Changing
    <2> QED
      BY <2>1, <2>2 DEF ChangesItsOwn
  <1>7. ASSUME pc[q] = "settings_save", update[q].kind = "extended", ~Met("extended")'
        PROVE  update[q].seenKeys = extended'[update[q].row]
    <2>1. ~Met("extended") /\ update[q].seenKeys = extended[update[q].row]
      BY <1>1, <1>4, <1>7 DEF SettingsAsRead, Met
    <2>2. ~Changing(p, "extended")
      BY <1>7, <2>1, SettingsMet DEF Changing
    <2> QED
      BY <2>1, <2>2 DEF ChangesItsOwn
  <1>8. ASSUME pc[q] = "settings_save", update[q].kind = "switch", ~Met("switch")'
        PROVE  update[q].seenOn = on'[update[q].row]
    <2>1. ~Met("switch") /\ update[q].seenOn = on[update[q].row]
      BY <1>1, <1>4, <1>8 DEF SettingsAsRead, Met
    <2>2. ~Changing(p, "switch")
      BY <1>8, <2>1, SettingsMet DEF Changing
    <2> QED
      BY <2>1, <2>2 DEF ChangesItsOwn
  <1>9. SettingsAsRead(q)'
    BY <1>2, <1>5, <1>6, <1>7, <1>8 DEF SettingsAsRead
  <1> QED
    BY <1>3, <1>9

\* A step of a handler, and what is left to show of it.
LEMMA SettingsStepKept ==
    ASSUME TopicKept, SettingsAlone, topic = "settings", topic' = topic, NEW p \in Procs,
           NEW u \in Updates, NEW label, SettingsGoOn(p, u, label), ChangesItsOwn(p),
           raced \subseteq raced', SettingsTablesOK', RowsToCome', OneSettingsUnlessRaced',
           label = "settings_save" => u.row \in rows',
           SettingsInformed(p)', SettingsAsRead(p)'
    PROVE  SettingsAlone'
  <1>1. SettingsTypeOK
    BY DEF SettingsAlone, SettingsInv
  <1>2. /\ pc' = [pc EXCEPT ![p] = label] /\ update' = [update EXCEPT ![p] = u]
        /\ update \in [Procs -> Updates] /\ pc \in [Procs -> LabelsOf(topic)]
    BY <1>1 DEF SettingsGoOn, Goto, TopicKept, SettingsTypeOK, Updates
  <1>3. \A q \in Procs : pc'[q] = "settings_save" => update'[q].row \in rows'
    <2> SUFFICES ASSUME NEW q \in Procs, pc'[q] = "settings_save"
                 PROVE  update'[q].row \in rows'
      OBVIOUS
    <2>1. CASE q = p
      BY <1>2, <2>1
    <2>2. CASE q # p
      BY <1>1, <1>2, <2>2 DEF SettingsTypeOK, ChangesItsOwn
    <2> QED
      BY <2>1, <2>2
  <1>4. update' \in [Procs -> Updates]
    BY <1>2
  <1>5. SettingsTypeOK'
    BY <1>3, <1>4 DEF SettingsTypeOK, SettingsTablesOK, Updates
  <1>6. \A q \in Procs \ {p} : SettingsInformed(q)' /\ SettingsAsRead(q)'
    BY OtherSettingsKept
  <1> QED
    BY <1>5, <1>6 DEF SettingsAlone, SettingsInv

\* The instance of a row, which may have been made for it.
LEMMA TakeSettingsKept ==
    ASSUME TopicKept, SettingsAlone, topic = "settings", topic' = topic, NEW p \in Procs,
           raced \subseteq raced', NEW u \in Updates, WellAsked(u),
           NEW r \in rows', TakeSettings(p, r, u),
           UNCHANGED <<minPayout, maxPayout, extended, on, settingsReports>>,
           rows' \subseteq Rows, rows \subseteq rows',
           rows' # rows => pc[p] = "settings_create",
           RowsToCome', OneSettingsUnlessRaced'
    PROVE  SettingsAlone'
  <1>1. SettingsTypeOK
    BY DEF SettingsAlone, SettingsInv
  <1>2. /\ minPayout' = minPayout /\ maxPayout' = maxPayout /\ extended' = extended
        /\ on' = on /\ acknowledged' = acknowledged /\ reported' = reported
    BY DEF settingsReports
  <1>3. SettingsTablesOK' /\ ChangesItsOwn(p)
    BY <1>1, <1>2 DEF SettingsTypeOK, SettingsTablesOK, ChangesItsOwn
  <1>4. /\ pc \in [Procs -> LabelsOf(topic)] /\ update \in [Procs -> Updates]
    BY <1>1 DEF TopicKept, SettingsTypeOK, Updates
  <1>5. CASE u.kind = "read"
    <2>1. SettingsGoOn(p, NoUpdate, "idle")
      BY <1>5 DEF TakeSettings, SettingsDone
    <2>2. NoUpdate \in Updates /\ WellAsked(NoUpdate)
      BY DEF NoUpdate, Updates, WellAsked
    <2>3. pc'[p] = "idle" /\ update'[p] = NoUpdate
      BY <1>4, <2>1 DEF SettingsGoOn, Goto
    <2>4. SettingsInformed(p)' /\ SettingsAsRead(p)'
      BY <2>2, <2>3 DEF SettingsInformed, SettingsAsRead, WellAsked
    <2> QED
      BY <1>3, <2>1, <2>2, <2>4, SettingsStepKept
  <1>6. CASE u.kind # "read"
    <2> DEFINE w == [u EXCEPT !.row = r, !.seenMin = minPayout[r],
                              !.seenKeys = extended[r], !.seenOn = on[r]]
    <2>1. SettingsGoOn(p, w, "settings_save")
      BY <1>6 DEF TakeSettings
    <2>2. /\ minPayout[r] \in Limits /\ extended[r] \in SUBSET Keys
          /\ on[r] \in SUBSET Switches /\ r \in Rows
      BY <1>1 DEF SettingsTypeOK
    <2>3. w \in Updates
      BY <2>2 DEF Updates
    <2>4. /\ w.row = r /\ w.seenMin = minPayout[r] /\ w.seenKeys = extended[r]
          /\ w.seenOn = on[r] /\ w.limits = u.limits /\ w.kind = u.kind
          /\ w.switch = u.switch
      BY DEF Updates
    <2>5. WellAsked(w)
      BY <2>4 DEF WellAsked
    <2> HIDE DEF w
    <2>6. pc'[p] = "settings_save" /\ update'[p] = w
      BY <1>4, <2>1 DEF SettingsGoOn, Goto
    <2>7. SettingsInformed(p)'
      BY <2>5, <2>6 DEF SettingsInformed, WellAsked
    <2>8. SettingsAsRead(p)'
      BY <1>2, <2>4, <2>6 DEF SettingsAsRead
    <2> QED
      BY <1>3, <2>1, <2>3, <2>4, <2>7, <2>8, SettingsStepKept
  <1> QED
    BY <1>5, <1>6

\* Requests find a row, or none.
LEMMA FindSettingsKept ==
    ASSUME TopicKept, SettingsAlone, topic = "settings", topic' = topic, NEW p \in Procs,
           raced \subseteq raced', NEW u \in Updates, WellAsked(u), FindSettings(p, u)
    PROVE  SettingsAlone'
  <1>1. SettingsTypeOK /\ RowsToCome /\ OneSettingsUnlessRaced
    BY DEF SettingsAlone, SettingsInv
  <1>2. /\ rows' = rows /\ minPayout' = minPayout /\ maxPayout' = maxPayout
        /\ extended' = extended /\ on' = on
        /\ acknowledged' = acknowledged /\ reported' = reported
    BY DEF FindSettings, settingsTable, settingsReports
  <1>3. RowsToCome' /\ OneSettingsUnlessRaced'
    BY <1>1, <1>2 DEF RowsToCome, OneSettingsUnlessRaced, Met
  <1>4. ASSUME NEW r \in rows, TakeSettings(p, r, u)
        PROVE  SettingsAlone'
    <2>1. rows' \subseteq Rows
      BY <1>1, <1>2 DEF SettingsTypeOK
    <2> QED
      BY <1>2, <1>3, <1>4, <2>1, TakeSettingsKept DEF settingsReports
  <1>5. CASE rows = {} /\ SettingsGoOn(p, u, "settings_create")
    <2>1. pc'[p] = "settings_create" /\ update'[p] = u
      BY <1>1, <1>5 DEF SettingsGoOn, Goto, TopicKept, SettingsTypeOK
    <2>2. SettingsInformed(p)' /\ SettingsAsRead(p)'
      BY <1>2, <1>5, <2>1 DEF SettingsInformed, SettingsAsRead, WellAsked
    <2>3. SettingsTablesOK' /\ ChangesItsOwn(p)
      BY <1>1, <1>2 DEF SettingsTypeOK, SettingsTablesOK, ChangesItsOwn
    <2> QED
      BY <1>3, <1>5, <2>2, <2>3, SettingsStepKept
  <1> QED
    BY <1>4, <1>5 DEF FindSettings

\* Requests.
LEMMA SettingsRequestKept ==
    ASSUME TopicKept, SettingsAlone, topic = "settings", topic' = topic, NEW p \in Procs,
           raced \subseteq raced', SettingsRequest(p)
    PROVE  SettingsAlone'
  <1> USE DEF NoUpdate, Updates, WellAsked
  <1>1. CASE ReadSettings(p)
    <2>1. LET u == [NoUpdate EXCEPT !.kind = "read"] IN u \in Updates /\ WellAsked(u)
      OBVIOUS
    <2> QED
      BY <1>1, <2>1, FindSettingsKept DEF ReadSettings
  <1>2. ASSUME NEW limits \in LimitUpdates, UpdateLimits(p, limits)
        PROVE  SettingsAlone'
    <2>1. LET u == [NoUpdate EXCEPT !.kind = "limits", !.limits = limits]
          IN  u \in Updates /\ WellAsked(u)
      OBVIOUS
    <2> QED
      BY <1>2, <2>1, FindSettingsKept DEF UpdateLimits
  <1>3. ASSUME NEW k \in Keys, UpdateExtended(p, {k})
        PROVE  SettingsAlone'
    <2>1. LET u == [NoUpdate EXCEPT !.kind = "extended", !.keys = {k}]
          IN  u \in Updates /\ WellAsked(u)
      OBVIOUS
    <2> QED
      BY <1>3, <2>1, FindSettingsKept DEF UpdateExtended
  <1>4. ASSUME NEW s \in Switches, NEW value \in BOOLEAN, UpdateSwitch(p, s, value)
        PROVE  SettingsAlone'
    <2>1. LET u == [NoUpdate EXCEPT !.kind = "switch", !.switch = s, !.value = value]
          IN  u \in Updates /\ WellAsked(u)
      OBVIOUS
    <2> QED
      BY <1>4, <2>1, FindSettingsKept DEF UpdateSwitch
  <1> QED
    BY <1>1, <1>2, <1>3, <1>4 DEF SettingsRequest

\* The first reader makes a row, the only one unless it met another.
LEMMA CreateSettingsKept ==
    ASSUME TopicKept, SettingsAlone, topic = "settings", topic' = topic, NEW p \in Procs,
           raced \subseteq raced', CreateSettings(p)
    PROVE  SettingsAlone'
  <1>1. SettingsTypeOK /\ RowsToCome /\ SettingsInformed(p) /\ SettingsAsRead(p)
    BY DEF SettingsAlone, SettingsInv
  <1>2. PICK r \in Rows \ rows : rows' = rows \cup {r} /\ TakeSettings(p, r, update[p])
    BY DEF CreateSettings
  <1>3. /\ pc[p] = "settings_create"
        /\ UNCHANGED <<minPayout, maxPayout, extended, on, settingsReports>>
        /\ extended' = extended /\ on' = on
        /\ acknowledged' = acknowledged /\ reported' = reported
    BY DEF CreateSettings, settingsReports
  <1>4. RowsToCome'
    BY <1>1, <1>2, <1>3 DEF RowsToCome
  <1>5. OneSettingsUnlessRaced'
    <2> SUFFICES ASSUME ~Met("row")'
                 PROVE  /\ \A a, b \in rows' : a = b
                        /\ \A a \in rows' : acknowledged \subseteq extended[a] /\ on[a] = reported
      BY <1>3 DEF OneSettingsUnlessRaced
    <2>1. rows = {}
      BY <1>1, <1>3 DEF SettingsAsRead, Met
    <2> QED
      BY <1>1, <1>2, <2>1 DEF RowsToCome
  <1>6. update[p] \in Updates /\ WellAsked(update[p]) /\ rows' \subseteq Rows
    BY <1>1, <1>2 DEF SettingsTypeOK, Updates, SettingsInformed
  <1> QED
    BY <1>2, <1>3, <1>4, <1>5, <1>6, TakeSettingsKept

\* The last step of an update.
LEMMA SettingsDoneKept ==
    ASSUME TopicKept, SettingsAlone, topic = "settings", topic' = topic, NEW p \in Procs,
           SettingsDone(p), ChangesItsOwn(p),
           raced \subseteq raced', SettingsTablesOK', RowsToCome', OneSettingsUnlessRaced'
    PROVE  SettingsAlone'
  <1>1. SettingsTypeOK
    BY DEF SettingsAlone, SettingsInv
  <1>2. SettingsGoOn(p, NoUpdate, "idle")
    BY DEF SettingsDone
  <1>3. NoUpdate \in Updates /\ WellAsked(NoUpdate)
    BY DEF NoUpdate, Updates, WellAsked
  <1>4. pc'[p] = "idle" /\ update'[p] = NoUpdate
    BY <1>1, <1>2 DEF SettingsGoOn, Goto, TopicKept, SettingsTypeOK
  <1>5. SettingsInformed(p)' /\ SettingsAsRead(p)'
    BY <1>3, <1>4 DEF SettingsInformed, SettingsAsRead, WellAsked
  <1> QED
    BY <1>2, <1>3, <1>5, SettingsStepKept

\* An update of the limits, and a handler that fails.
LEMMA SaveLimitsKept ==
    ASSUME TopicKept, SettingsAlone, topic = "settings", topic' = topic, NEW p \in Procs,
           raced \subseteq raced', SaveLimits(p) \/ SettingsHandlerFails(p)
    PROVE  SettingsAlone'
  <1>1. SettingsTypeOK /\ RowsToCome /\ OneSettingsUnlessRaced
    BY DEF SettingsAlone, SettingsInv
  <1>2. /\ SettingsDone(p) /\ rows' = rows /\ extended' = extended /\ on' = on
        /\ acknowledged' = acknowledged /\ reported' = reported
    BY DEF SaveLimits, SettingsHandlerFails, settingsTable, settingsReports
  <1>3. RowsToCome' /\ OneSettingsUnlessRaced'
    BY <1>1, <1>2 DEF RowsToCome, OneSettingsUnlessRaced, Met
  <1>4. ChangesItsOwn(p)
    BY <1>2 DEF ChangesItsOwn, Changing, SaveLimits, SettingsHandlerFails, settingsTable
  <1>5. minPayout' \in [Rows -> Limits] /\ maxPayout' \in [Rows -> Limits]
    <2>1. CASE SaveLimits(p)
      <3>1. update[p].limits \in LimitUpdates \cup {NoLimits}
        BY <1>1 DEF SettingsTypeOK
      <3>2. /\ Given(update[p].limits.min) => update[p].limits.min \in Limits
            /\ Given(update[p].limits.max) => update[p].limits.max \in Limits
        BY <3>1 DEF LimitUpdates, NoLimits, Given
      <3> QED
        BY <1>1, <2>1, <3>2 DEF SaveLimits, SettingsTypeOK
    <2>2. CASE SettingsHandlerFails(p)
      BY <1>1, <2>2 DEF SettingsHandlerFails, settingsTable, SettingsTypeOK
    <2> QED
      BY <2>1, <2>2
  <1>6. SettingsTablesOK'
    BY <1>1, <1>2, <1>5 DEF SettingsTablesOK, SettingsTypeOK
  <1> QED
    BY <1>2, <1>3, <1>4, <1>6, SettingsDoneKept

\* An update of the extended settings writes what is there and what it adds.
LEMMA SaveExtendedKept ==
    ASSUME TopicKept, SettingsAlone, topic = "settings", topic' = topic, NEW p \in Procs,
           raced \subseteq raced', SaveExtended(p)
    PROVE  SettingsAlone'
  <1>1. SettingsTypeOK /\ RowsToCome /\ OneSettingsUnlessRaced /\ SettingsAsRead(p)
    BY DEF SettingsAlone, SettingsInv
  <1> DEFINE r == update[p].row
  <1>2. /\ pc[p] = "settings_save" /\ update[p].kind = "extended"
        /\ extended' = [extended EXCEPT ![r] = update[p].seenKeys \cup update[p].keys]
        /\ acknowledged' = acknowledged \cup update[p].keys
        /\ SettingsDone(p) /\ rows' = rows /\ minPayout' = minPayout
        /\ maxPayout' = maxPayout /\ on' = on /\ reported' = reported
    BY DEF SaveExtended
  <1>3. /\ r \in rows /\ rows \subseteq Rows
        /\ update[p].seenKeys \subseteq Keys /\ update[p].keys \subseteq Keys
        /\ extended \in [Rows -> SUBSET Keys]
    BY <1>1, <1>2 DEF SettingsTypeOK
  <1> HIDE DEF r
  <1>4. extended' \in [Rows -> SUBSET Keys]
    BY <1>2, <1>3
  <1>5. SettingsTablesOK'
    BY <1>1, <1>2, <1>3, <1>4 DEF SettingsTablesOK, SettingsTypeOK
  <1>6. RowsToCome'
    BY <1>1, <1>2, <1>3 DEF RowsToCome
  <1>7. ChangesItsOwn(p)
    BY <1>2 DEF ChangesItsOwn, Changing
  <1>8. OneSettingsUnlessRaced'
    <2> SUFFICES ASSUME ~Met("row")'
                 PROVE  /\ \A a, b \in rows : a = b
                        /\ ~Met("extended")' =>
                              \A a \in rows : acknowledged' \subseteq extended'[a]
                        /\ ~Met("switch")' => \A a \in rows : on[a] = reported
      BY <1>2 DEF OneSettingsUnlessRaced
    <2>1. ~Met("row") /\ (~Met("switch")' => ~Met("switch"))
      BY DEF Met
    <2>2. /\ \A a, b \in rows : a = b
          /\ ~Met("switch")' => \A a \in rows : on[a] = reported
      BY <1>1, <2>1 DEF OneSettingsUnlessRaced
    <2>3. ASSUME ~Met("extended")', NEW a \in rows
          PROVE  acknowledged' \subseteq extended'[a]
      <3>1. ~Met("extended")
        BY <2>3 DEF Met
      <3>2. acknowledged \subseteq extended[r] /\ update[p].seenKeys = extended[r]
        BY <1>1, <1>2, <1>3, <2>1, <3>1 DEF OneSettingsUnlessRaced, SettingsAsRead, r
      <3>3. a = r /\ extended'[r] = update[p].seenKeys \cup update[p].keys
        BY <1>2, <1>3, <2>2
      <3> QED
        BY <1>2, <3>2, <3>3
    <2> QED
      BY <2>2, <2>3
  <1> QED
    BY <1>2, <1>5, <1>6, <1>7, <1>8, SettingsDoneKept

\* An update of a switch leaves it as it reports.
LEMMA SaveSwitchKept ==
    ASSUME TopicKept, SettingsAlone, topic = "settings", topic' = topic, NEW p \in Procs,
           raced \subseteq raced', SaveSwitch(p)
    PROVE  SettingsAlone'
  <1>1. /\ SettingsTypeOK /\ RowsToCome /\ OneSettingsUnlessRaced
        /\ SettingsInformed(p) /\ SettingsAsRead(p)
    BY DEF SettingsAlone, SettingsInv
  <1> DEFINE r == update[p].row
             s == update[p].switch
             value == update[p].value
             stays == value = (s \in update[p].seenOn)
  <1>2. /\ pc[p] = "settings_save" /\ update[p].kind = "switch"
        /\ on' = IF stays THEN on ELSE [on EXCEPT ![r] = Switched(on[r], s, value)]
        /\ reported' = Switched(reported, s, value)
        /\ SettingsDone(p) /\ rows' = rows /\ minPayout' = minPayout
        /\ maxPayout' = maxPayout /\ extended' = extended /\ acknowledged' = acknowledged
    BY DEF SaveSwitch
  <1>3. /\ r \in rows /\ rows \subseteq Rows /\ s \in Switches
        /\ on \in [Rows -> SUBSET Switches] /\ reported \subseteq Switches
    BY <1>1, <1>2 DEF SettingsTypeOK, SettingsInformed, WellAsked
  <1>4. stays => \A set : set = update[p].seenOn => Switched(set, s, value) = set
    BY <1>1 DEF Switched, SettingsTypeOK
  <1>5. \A set : set \subseteq Switches => Switched(set, s, value) \subseteq Switches
    BY <1>3 DEF Switched
  <1> HIDE DEF r, s, value, stays
  <1>6. on[r] \subseteq Switches
    BY <1>3
  <1>7. on' \in [Rows -> SUBSET Switches] /\ reported' \subseteq Switches
    BY <1>2, <1>3, <1>5, <1>6
  <1>8. SettingsTablesOK'
    BY <1>1, <1>2, <1>7 DEF SettingsTablesOK, SettingsTypeOK
  <1>9. RowsToCome'
    BY <1>1, <1>2, <1>3 DEF RowsToCome
  <1>10. ChangesItsOwn(p)
    BY <1>2 DEF ChangesItsOwn, Changing
  <1>11. OneSettingsUnlessRaced'
    <2> SUFFICES ASSUME ~Met("row")'
                 PROVE  /\ \A a, b \in rows : a = b
                        /\ ~Met("extended")' =>
                              \A a \in rows : acknowledged \subseteq extended[a]
                        /\ ~Met("switch")' => \A a \in rows : on'[a] = reported'
      BY <1>2 DEF OneSettingsUnlessRaced
    <2>1. ~Met("row") /\ (~Met("extended")' => ~Met("extended"))
      BY DEF Met
    <2>2. /\ \A a, b \in rows : a = b
          /\ ~Met("extended")' => \A a \in rows : acknowledged \subseteq extended[a]
      BY <1>1, <2>1 DEF OneSettingsUnlessRaced
    <2>3. ASSUME ~Met("switch")', NEW a \in rows
          PROVE  on'[a] = reported'
      <3>1. ~Met("switch")
        BY <2>3 DEF Met
      <3>2. on[r] = reported /\ update[p].seenOn = on[r]
        BY <1>1, <1>2, <1>3, <2>1, <3>1 DEF OneSettingsUnlessRaced, SettingsAsRead, r
      <3>3. a = r
        BY <1>3, <2>2
      <3>4. CASE stays
        BY <1>2, <1>4, <3>2, <3>3, <3>4
      <3>5. CASE ~stays
        BY <1>2, <1>3, <3>2, <3>3, <3>5
      <3> QED
        BY <3>4, <3>5
    <2> QED
      BY <2>2, <2>3
  <1> QED
    BY <1>2, <1>8, <1>9, <1>10, <1>11, SettingsDoneKept

\* Every step of the specification.
LEMMA SettingsAloneKept ==
    ASSUME TopicKept, SettingsAlone, BackofficeStep
    PROVE  SettingsAlone'
  <1>1. topic' = topic /\ raced \subseteq raced' /\ pc' \in [Procs -> LabelsOf(topic)]
    BY TopicKeptByStep DEF TopicKept
  <1>2. ASSUME UNCHANGED settingsState, topic # "settings" \/ UNCHANGED pc
        PROVE  SettingsAlone'
    <2>1. /\ rows' = rows /\ minPayout' = minPayout /\ maxPayout' = maxPayout
          /\ extended' = extended /\ on' = on /\ update' = update
          /\ acknowledged' = acknowledged /\ reported' = reported
      BY <1>2 DEF settingsState, settingsTable, settingsReports
    <2>2. \A p \in Procs : pc'[p] = "settings_save" => update'[p].row \in rows'
      <3>1. CASE topic # "settings"
        <4>1. "settings_save" \notin LabelsOf(topic)
          BY <3>1, BackofficeAssumption DEF LabelsOf, AdminLabels, SupportLabels,
                 MessageLabels, NotificationsLabels, TopicKept
        <4> QED
          BY <1>1, <4>1
      <3>2. CASE UNCHANGED pc
        BY <2>1, <3>2 DEF SettingsAlone, SettingsInv, SettingsTypeOK
      <3> QED
        BY <1>2, <3>1, <3>2
    <2>3. SettingsTypeOK'
      BY <2>1, <2>2 DEF SettingsAlone, SettingsInv, SettingsTypeOK
    <2>4. OneSettingsUnlessRaced' /\ RowsToCome'
      BY <1>1, <2>1 DEF SettingsAlone, SettingsInv, OneSettingsUnlessRaced, RowsToCome, Met
    <2>5. topic = "settings" =>
              \A p \in Procs : SettingsInformed(p)' /\ SettingsAsRead(p)'
      BY <1>1, <1>2, <2>1 DEF SettingsAlone, SettingsInformed, SettingsAsRead, WellAsked, Met
    <2> QED
      BY <1>1, <2>3, <2>4, <2>5 DEF SettingsAlone, SettingsInv
  <1>3. CASE UNCHANGED <<backofficeVars, raced>>
    BY <1>2, <1>3 DEF backofficeVars, backofficeState
  <1>4. ASSUME NEW p \in Procs, topic = "settings", SettingsNext(p)
        PROVE  SettingsAlone'
    <2>1. CASE SettingsRequest(p)
      BY <1>1, <1>4, <2>1, SettingsRequestKept
    <2>2. CASE SettingsStep(p)
      BY <1>1, <1>4, <2>2, CreateSettingsKept, SaveLimitsKept, SaveExtendedKept,
         SaveSwitchKept DEF SettingsStep
    <2> QED
      BY <1>4, <2>1, <2>2 DEF SettingsNext
  <1>5. CASE BackofficeNext
    BY <1>2, <1>4, <1>5 DEF BackofficeNext, AdminsNext, SupportNext, NotificationsNext
  <1> QED
    BY <1>3, <1>5 DEF BackofficeStep

\* The defaults of the two limits.
LEMMA DefaultLimits ==
    DefaultMin \in Limits /\ DefaultMax \in Limits
  <1>1. PICK a, b \in Limits : \A c \in Limits : a <= c /\ c <= b
    BY SettingsAssumption
  <1> QED
    BY <1>1 DEF DefaultMin, DefaultMax

\* The first state.
LEMMA SettingsAtStart ==
    ASSUME BackofficeStart
    PROVE  SettingsAlone
  <1>1. /\ SettingsInit /\ raced = {} /\ pc = [p \in Procs |-> "idle"]
    BY DEF BackofficeStart, CallsStart, RequestsInit
  <1>2. NoUpdate \in Updates /\ WellAsked(NoUpdate)
    BY DEF NoUpdate, Updates, WellAsked
  <1>3. SettingsTypeOK
    <2>1. update \in [Procs -> Updates] /\ \A p \in Procs : pc[p] # "settings_save"
      BY <1>1, <1>2 DEF SettingsInit
    <2> QED
      BY <1>1, <2>1, DefaultLimits DEF SettingsInit, SettingsTypeOK, Updates
  <1>4. OneSettingsUnlessRaced /\ RowsToCome
    BY <1>1 DEF SettingsInit, OneSettingsUnlessRaced, RowsToCome
  <1>5. \A p \in Procs : SettingsInformed(p) /\ SettingsAsRead(p)
    BY <1>1, <1>2 DEF SettingsInit, SettingsInformed, SettingsAsRead
  <1> QED
    BY <1>3, <1>4, <1>5 DEF SettingsAlone, SettingsInv

\* What a step does to the two limits.
LEMMA MaximumKeptAbove ==
    ASSUME TopicKept, SettingsAlone, BackofficeStep, ~Met("row")', ~Met("limits")',
           NEW p \in Procs, Given(update[p].limits.max),
           <<minPayout, maxPayout>>' # <<minPayout, maxPayout>>,
           NEW r \in rows
    PROVE  maxPayout'[r] > minPayout'[r]
  <1>1. ~Met("row") /\ ~Met("limits")
    BY TopicKeptByStep DEF Met
  <1>2. SettingsTypeOK /\ \A a, b \in rows : a = b
    BY <1>1 DEF SettingsAlone, SettingsInv, OneSettingsUnlessRaced
  <1>3. ~UNCHANGED settingsState
    BY DEF settingsState, settingsTable
  <1>4. BackofficeNext
    BY <1>3 DEF BackofficeStep, backofficeVars, backofficeState
  <1>5. PICK q \in Procs : topic = "settings" /\ SettingsNext(q)
    BY <1>3, <1>4 DEF BackofficeNext, AdminsNext, SupportNext, NotificationsNext
  <1>6. SaveLimits(q)
    <2>1. CASE SettingsRequest(q)
      BY <2>1 DEF SettingsRequest, ReadSettings, UpdateLimits, UpdateExtended, UpdateSwitch,
             FindSettings, settingsTable
    <2>2. CASE CreateSettings(q) \/ SaveExtended(q) \/ SaveSwitch(q) \/ SettingsHandlerFails(q)
      BY <2>2 DEF CreateSettings, SaveExtended, SaveSwitch, SettingsHandlerFails, settingsTable
    <2> QED
      BY <1>5, <2>1, <2>2 DEF SettingsNext, SettingsStep
  <1>7. /\ pc[q] = "settings_save" /\ update[q].kind = "limits"
        /\ LimitsAccepted(q)
        /\ minPayout' = IF Given(update[q].limits.min)
                        THEN [minPayout EXCEPT ![update[q].row] = update[q].limits.min]
                        ELSE minPayout
        /\ maxPayout' = IF Given(update[q].limits.max)
                        THEN [maxPayout EXCEPT ![update[q].row] = update[q].limits.max]
                        ELSE maxPayout
    BY <1>6 DEF SaveLimits
  <1>8. p = q
    <2>1. update[p].limits # NoLimits
      BY DEF Given, NoLimits
    <2>2. update[p].kind = "limits" /\ pc[p] # "idle"
      BY <1>5, <2>1 DEF SettingsAlone, SettingsInformed, WellAsked, NoUpdate
    <2>3. pc[p] \in SettingsLabels
      <3>1. LabelsOf(topic) = {"idle"} \cup SettingsLabels
        BY <1>5 DEF LabelsOf
      <3> QED
        BY <2>2, <3>1 DEF TopicKept
    <2>4. Changing(p, "limits") /\ Changing(q, "limits")
      BY <1>7, <2>2, <2>3 DEF Changing, SettingsLabels
    <2> QED
      BY <1>1, <2>4, SettingsMet
  <1>9. update[p].row = r /\ r \in Rows
    BY <1>2, <1>7, <1>8 DEF SettingsTypeOK
  <1>10. update[p].seenMin = minPayout[r]
    BY <1>1, <1>5, <1>7, <1>8, <1>9 DEF SettingsAlone, SettingsAsRead
  <1>11. maxPayout'[r] = update[p].limits.max
    BY <1>2, <1>7, <1>8, <1>9 DEF SettingsTypeOK
  <1>12. minPayout'[r] = NewMin(p)
    BY <1>2, <1>7, <1>8, <1>9, <1>10 DEF SettingsTypeOK, NewMin
  <1> QED
    BY <1>7, <1>8, <1>11, <1>12 DEF LimitsAccepted

-----------------------------------------------------------------------------
(* Proofs: notifications *)

\* A step that answers nothing, and what is left to show of it.
LEMMA SendKept ==
    ASSUME NotificationsAlone, NEW p \in Procs, NEW what \in Sendings, NEW label,
           Send(p, what, label), answered' = answered
    PROVE  NotificationsAlone'
  BY DEF NotificationsAlone, AnsweredWhenAllNotified, Send, Sendings, NotifiedSoFar

\* Nothing is sent.
LEMMA NothingToSend == NothingSent \in Sendings
  BY DEF NothingSent, Sendings, NotifiedSoFar

\* One row more, for one recipient less.
LEMMA OneMoreNotified ==
    ASSUME NEW what \in Sendings, NEW r \in what.to, NEW n \in Notes
    PROVE  [what EXCEPT !.to = @ \ {r}, !.made = @ \cup {<<n, r>>}] \in Sendings
  <1> DEFINE then == [what EXCEPT !.to = @ \ {r}, !.made = @ \cup {<<n, r>>}]
  <1> DEFINE Shape == [note : Notes \cup {NoNote}, to : SUBSET Recipients,
                      made : SUBSET (Notes \X Recipients), addressed : SUBSET Recipients]
  <1>1. /\ then.to = what.to \ {r} /\ then.made = what.made \cup {<<n, r>>}
        /\ then.addressed = what.addressed /\ then \in Shape
    <2>1. what \in Shape
      BY DEF Sendings
    <2>2. r \in Recipients /\ what.made \subseteq Notes \X Recipients
      BY <2>1
    <2>3. <<n, r>> \in Notes \X Recipients
      BY <2>2
    <2>4. what.made \cup {<<n, r>>} \in SUBSET (Notes \X Recipients)
      BY <2>2, <2>3
    <2>5. what.to \ {r} \in SUBSET Recipients
      BY <2>1
    <2> QED
      BY <2>1, <2>4, <2>5
  <1>2. NotifiedSoFar(what)
    BY DEF Sendings
  <1> HIDE DEF then
  <1>3. ASSUME NEW s \in then.to
        PROVE  \A m \in then.made : m[2] # s
    BY <1>1, <1>2, <1>3 DEF NotifiedSoFar
  <1>4. ASSUME NEW s \in then.addressed \ then.to
        PROVE  \E k \in Notes : {m \in then.made : m[2] = s} = {<<k, s>>}
    <2>1. CASE s = r
      <3>1. \A m \in what.made : m[2] # r
        BY <1>2 DEF NotifiedSoFar
      <3>2. {m \in then.made : m[2] = r} = {<<n, r>>}
        BY <1>1, <3>1
      <3> QED
        BY <2>1, <3>2
    <2>2. CASE s # r
      <3>1. PICK k \in Notes : {m \in what.made : m[2] = s} = {<<k, s>>}
        BY <1>1, <1>2, <1>4, <2>2 DEF NotifiedSoFar
      <3>2. {m \in then.made : m[2] = s} = {m \in what.made : m[2] = s}
        BY <1>1, <2>2
      <3> QED
        BY <3>1, <3>2
    <2> QED
      BY <2>1, <2>2
  <1>5. NotifiedSoFar(then)
    BY <1>3, <1>4 DEF NotifiedSoFar
  <1> QED
    BY <1>1, <1>5 DEF Sendings, then

\* Every step of the specification.
LEMMA NotificationsAloneKept ==
    ASSUME NotificationsAlone, BackofficeStep
    PROVE  NotificationsAlone'
  <1>1. ASSUME sending' = sending, answered' = answered
        PROVE  NotificationsAlone'
    BY <1>1 DEF NotificationsAlone, AnsweredWhenAllNotified, Sendings, NotifiedSoFar
  <1>2. CASE UNCHANGED notificationsState
    BY <1>1, <1>2 DEF notificationsState
  <1>3. ASSUME NEW p \in Procs, NotificationsRequest(p)
        PROVE  NotificationsAlone'
    <2>1. ASSUME NEW to \in SUBSET Recipients, Notify(p, to)
          PROVE  NotificationsAlone'
      <3>1. [NothingSent EXCEPT !.to = to, !.addressed = to] \in Sendings
        BY DEF NothingSent, Sendings, NotifiedSoFar
      <3> QED
        BY <2>1, <3>1, SendKept DEF Notify
    <2>2. ASSUME NEW n \in Notes, MarkAsRead(p, n) \/ DeleteNotification(p, n)
          PROVE  NotificationsAlone'
      <3>1. [NothingSent EXCEPT !.note = n] \in Sendings
        BY DEF NothingSent, Sendings, NotifiedSoFar
      <3> QED
        BY <2>2, <3>1, SendKept DEF MarkAsRead, DeleteNotification, FindNotification
    <2>3. ASSUME NEW s \in Sockets, Disconnect(p, s) \/ \E r \in Recipients : Connect(p, s, r)
          PROVE  NotificationsAlone'
      BY <1>1, <2>3 DEF Disconnect, Connect
    <2>4. ASSUME NEW r \in Recipients, MarkAllAsRead(p, r)
          PROVE  NotificationsAlone'
      BY <1>1, <2>4 DEF MarkAllAsRead
    <2> QED
      BY <1>3, <2>1, <2>2, <2>3, <2>4 DEF NotificationsRequest
  <1>4. ASSUME NEW p \in Procs, CreateNotification(p)
        PROVE  NotificationsAlone'
    <2>1. PICK r \in sending[p].to, n \in Notes :
             Send(p, [sending[p] EXCEPT !.to = @ \ {r}, !.made = @ \cup {<<n, r>>}], pc[p])
      BY <1>4 DEF CreateNotification
    <2>2. sending[p] \in Sendings
      BY DEF NotificationsAlone
    <2>3. [sending[p] EXCEPT !.to = @ \ {r}, !.made = @ \cup {<<n, r>>}] \in Sendings
      BY <2>2, OneMoreNotified
    <2> QED
      BY <1>4, <2>1, <2>3, SendKept DEF CreateNotification
  <1>5. ASSUME NEW p \in Procs, PushNotifications(p)
        PROVE  NotificationsAlone'
    <2> DEFINE answer == [to |-> sending[p].addressed, made |-> sending[p].made]
    <2>1. /\ sending[p].to = {} /\ answered' = answered \cup {answer}
          /\ Send(p, NothingSent, "idle")
      BY <1>5 DEF PushNotifications, NotificationDone
    <2>2. sending' \in [Procs -> Sendings]
      BY <2>1, NothingToSend DEF Send, NotificationsAlone
    <2>3. NotifiedSoFar(sending[p])
      BY DEF NotificationsAlone, Sendings
    <2>4. \A r \in answer.to : \E n \in Notes : {m \in answer.made : m[2] = r} = {<<n, r>>}
      BY <2>1, <2>3 DEF NotifiedSoFar
    <2>5. AnsweredWhenAllNotified'
      BY <2>1, <2>4 DEF AnsweredWhenAllNotified, NotificationsAlone
    <2> QED
      BY <2>2, <2>5 DEF NotificationsAlone, Sendings, NotifiedSoFar
  <1>6. ASSUME NEW p \in Procs, SaveRead(p) \/ DestroyNotification(p)
                                \/ NotificationsHandlerFails(p)
        PROVE  NotificationsAlone'
    BY <1>6, NothingToSend, SendKept DEF SaveRead, DestroyNotification,
       NotificationsHandlerFails, NotificationDone
  <1>7. CASE BackofficeNext
    BY <1>2, <1>3, <1>4, <1>5, <1>6, <1>7 DEF BackofficeNext, AdminsNext, SettingsNext,
       SupportNext, NotificationsNext, NotificationsStep
  <1>8. CASE UNCHANGED <<backofficeVars, raced>>
    BY <1>2, <1>8 DEF backofficeVars, backofficeState
  <1> QED
    BY <1>7, <1>8 DEF BackofficeStep

\* The first state.
LEMMA NotificationsAtStart ==
    ASSUME BackofficeStart
    PROVE  NotificationsAlone
  BY NothingToSend DEF BackofficeStart, NotificationsInit, NotificationsAlone,
     AnsweredWhenAllNotified

-----------------------------------------------------------------------------
(* Proofs: support *)

\* A row that two handlers work on, or the total that two are on the way to.
LEMMA SupportMet ==
    ASSUME TopicKept, NEW p \in Procs, NEW q \in Procs, p # q
    PROVE  /\ task[q].customer \in Customers /\ task[p].customer = task[q].customer =>
                 task[q].customer \in raced
           /\ task[q].conv \in Conversations /\ task[p].conv = task[q].conv =>
                 task[q].conv \in raced
           /\ task[q].row \in AuthRows /\ task[p].row = task[q].row => task[q].row \in raced
           /\ pc[p] \in MessageLabels /\ pc[q] \in MessageLabels =>
                 <<"support", "total">> \in raced
  <1>1. ASSUME NEW x \in Procs
        PROVE  /\ task[x].customer \in Customers => task[x].customer \in BackofficeWorksOn(x)
               /\ task[x].conv \in Conversations => task[x].conv \in BackofficeWorksOn(x)
               /\ task[x].row \in AuthRows => task[x].row \in BackofficeWorksOn(x)
               /\ pc[x] \in MessageLabels => <<"support", "total">> \in BackofficeWorksOn(x)
    BY SupportAssumption DEF BackofficeWorksOn, SupportWorksOn
  <1>2. /\ task[q].customer \in Customers /\ task[p].customer = task[q].customer =>
                 task[q].customer \in raced
        /\ task[q].conv \in Conversations /\ task[p].conv = task[q].conv =>
                 task[q].conv \in raced
    BY <1>1, WorkedOnByTwo
  <1>3. /\ task[q].row \in AuthRows /\ task[p].row = task[q].row => task[q].row \in raced
        /\ pc[p] \in MessageLabels /\ pc[q] \in MessageLabels =>
                 <<"support", "total">> \in raced
    BY <1>1, WorkedOnByTwo
  <1> QED
    BY <1>2, <1>3

\* What a step of a handler leaves to the others.
LeavesSupport(p) ==
    /\ \A k \in Conversations : IsConversation(k) =>
          IsConversation(k)' /\ convOwner'[k] = convOwner[k]
    /\ \A k \in Conversations : convStatus'[k] # convStatus[k] =>
          convOwner'[k] = task[p].customer /\ task[p].customer \in Customers
    /\ \A m \in Sent : messageIn'[m] = messageIn[m] /\ (m \in fromAdmin' <=> m \in fromAdmin)
    /\ \A r \in AuthRows :
          codeStatus'[r] # codeStatus[r] => r = task[p].row \/ codeStatus[r] = "none"

\* A handler's step from one await to another.
Moves(p, t, label) == pc' = [pc EXCEPT ![p] = label] /\ task' = [task EXCEPT ![p] = t]

\* The other handlers know what they knew.
LEMMA OtherSupportKept ==
    ASSUME TopicKept, SupportAlone, topic = "support", NEW p \in Procs, NEW t \in Tasks,
           NEW label, Moves(p, t, label), LeavesSupport(p), raced \subseteq raced',
           NEW q \in Procs, q # p
    PROVE  SupportInformed(q)' /\ SupportAsRead(q)'
  <1>1. /\ SupportInformed(q) /\ SupportAsRead(q) /\ ConversationsOK /\ CodesOK
        /\ MessagesOK /\ task[q] \in Tasks
    BY DEF SupportAlone
  <1>2. pc'[q] = pc[q] /\ task'[q] = task[q]
    BY DEF Moves, TopicKept, SupportAlone
  <1>3. SupportInformed(q)'
    <2>1. \A m \in Sent : m \in Messages /\ messageIn[m] # NoConversation
      BY DEF Sent
    <2>2. \A m \in Sent : m \in Sent'
      BY <2>1 DEF LeavesSupport, Sent
    <2>3. pc[q] = "message_count" => task[q].message \in Sent
      BY <1>1, SupportAssumption DEF SupportInformed, MessageLabels, Sent
    <2>4. pc[q] = "status_save" =>
              convStatus'[task[q].conv] # "none" /\ task[q].customer = convOwner'[task[q].conv]
      BY <1>1 DEF SupportInformed, LeavesSupport, IsConversation
    <2>5. pc[q] = "message_count" =>
              /\ messageIn'[task[q].message] = task[q].conv
              /\ task[q].asked = "admin" <=> task[q].message \in fromAdmin'
      BY <1>1, <2>3 DEF SupportInformed, LeavesSupport
    <2> QED
      BY <1>1, <1>2, <2>2, <2>4, <2>5 DEF SupportInformed, IsConversation
  <1>4. ASSUME pc[q] = "conversation_create", task[q].customer \notin raced'
        PROVE  OpenOf(task[q].customer)' = {}
    <2>1. PICK x : x = task[q].customer
      OBVIOUS
    <2>2. x \in Customers /\ x \notin raced
      BY <1>1, <1>4, <2>1 DEF SupportInformed
    <2>3. OpenOf(x) = {} /\ task[p].customer # x
      BY <1>1, <1>4, <2>1, <2>2, SupportMet DEF SupportAsRead
    <2>4. \A k \in Conversations : ~(convOwner'[k] = x /\ convStatus'[k] = "open")
      <3> SUFFICES ASSUME NEW k \in Conversations, convOwner'[k] = x, convStatus'[k] = "open"
                   PROVE  FALSE
        OBVIOUS
      <3>1. convStatus[k] = "open"
        BY <2>3 DEF LeavesSupport
      <3>2. convOwner[k] = x
        BY <3>1 DEF LeavesSupport, IsConversation
      <3> QED
        BY <2>3, <3>1, <3>2 DEF OpenOf
    <2> QED
      BY <1>2, <2>1, <2>4 DEF OpenOf
  <1>5. ASSUME pc[q] \in {"code_expire", "code_use"}, task[q].row \notin raced'
        PROVE  codeStatus'[task[q].row] = "pending"
    <2>1. task[q].row \in AuthRows /\ task[q].row \notin raced
      BY <1>1, <1>5 DEF SupportInformed
    <2>2. codeStatus[task[q].row] = "pending" /\ task[p].row # task[q].row
      BY <1>1, <1>5, <2>1, SupportMet DEF SupportAsRead
    <2> QED
      BY <2>1, <2>2 DEF LeavesSupport
  <1>6. SupportAsRead(q)'
    BY <1>2, <1>4, <1>5 DEF SupportAsRead, OpenOf
  <1> QED
    BY <1>3, <1>6

\* A step of a handler, and what is left to show of it.
LEMMA SupportStepKept ==
    ASSUME TopicKept, SupportAlone, topic = "support", topic' = topic, NEW p \in Procs,
           NEW t \in Tasks, NEW label, Moves(p, t, label), LeavesSupport(p),
           raced \subseteq raced', ConversationsOK', MessagesOK', ShownOK', CodesOK',
           AlertsApart', AlertToCome', TotalToCome',
           SupportInformed(p)', SupportAsRead(p)'
    PROVE  SupportAlone'
  <1>1. task' \in [Procs -> Tasks]
    BY DEF Moves, SupportAlone
  <1>2. \A q \in Procs \ {p} : SupportInformed(q)' /\ SupportAsRead(q)'
    BY OtherSupportKept
  <1> QED
    BY <1>1, <1>2 DEF SupportAlone

\* Tables that a step does not write stay well-formed.
LEMMA SupportTablesKept ==
    ASSUME SupportAlone, raced \subseteq raced'
    PROVE  /\ UNCHANGED conversations => ConversationsOK'
           /\ UNCHANGED messages => MessagesOK'
           /\ UNCHANGED <<alerts, shownTotal, unannounced>> => ShownOK'
           /\ UNCHANGED <<authCodes, acceptedAgain>> => CodesOK'
  <1>1. UNCHANGED conversations => ConversationsOK'
    BY DEF SupportAlone, ConversationsOK, conversations, IsConversation
  <1>2. UNCHANGED messages => MessagesOK'
    BY DEF SupportAlone, MessagesOK, messages, Sent
  <1>3. UNCHANGED <<alerts, shownTotal, unannounced>> => ShownOK'
    BY DEF SupportAlone, ShownOK
  <1>4. UNCHANGED <<authCodes, acceptedAgain>> => CodesOK'
    BY DEF SupportAlone, CodesOK, authCodes
  <1> QED
    BY <1>1, <1>2, <1>3, <1>4

\* A step neither from nor to the count of a message or the alert leaves the
\* alerts alone.
LEMMA AlertsLeftAlone ==
    ASSUME TopicKept, SupportAlone, topic = "support", NEW p \in Procs, NEW t, NEW label,
           Moves(p, t, label), raced \subseteq raced',
           pc[p] \notin {"message_count", "message_alert"},
           label \notin {"message_count", "message_alert"},
           UNCHANGED <<messageIn, fromAdmin, alerts>>, unannounced \subseteq unannounced'
    PROVE  AlertsApart' /\ AlertToCome'
  <1>1. AlertsApart /\ AlertToCome
    BY DEF SupportAlone
  <1>2. \A q \in Procs :
          /\ pc'[q] = "message_count" <=> pc[q] = "message_count"
          /\ pc'[q] = "message_alert" <=> pc[q] = "message_alert"
          /\ pc[q] \in {"message_count", "message_alert"} => task'[q] = task[q]
    BY DEF Moves, TopicKept, SupportAlone
  <1>3. \A k \in Conversations : FromCustomer(k)' = FromCustomer(k)
    BY DEF FromCustomer, Sent
  <1>4. /\ \A q \in Procs, k \in Conversations : Alerting(q, k)' <=> Alerting(q, k)
        /\ \A k \in Conversations : Claimed(k)' <=> Claimed(k)
    BY <1>2 DEF Alerting, Claimed
  <1>5. AlertsApart'
    BY <1>1, <1>2, <1>3, <1>4 DEF AlertsApart
  <1>6. \A k \in Conversations : FirstOnItsWay(k) => FirstOnItsWay(k)'
    BY <1>2, <1>3, <1>4 DEF FirstOnItsWay
  <1>7. AlertToCome'
    BY <1>1, <1>3, <1>6 DEF AlertToCome
  <1> QED
    BY <1>5, <1>7

OnItsWay == MessageLabels \ {"message_insert", "read_update"}

\* A step neither from nor to a count leaves the total alone.
LEMMA TotalLeftAlone ==
    ASSUME TopicKept, SupportAlone, topic = "support", NEW p \in Procs, NEW t, NEW label,
           Moves(p, t, label), raced \subseteq raced',
           pc[p] \notin OnItsWay, label \notin OnItsWay,
           UNCHANGED <<messages, shownTotal>>, unannounced \subseteq unannounced'
    PROVE  TotalToCome'
  <1>1. TotalToCome
    BY DEF SupportAlone
  <1>2. \A q \in Procs :
          /\ pc[q] \in OnItsWay => pc'[q] = pc[q] /\ task'[q] = task[q]
          /\ pc'[q] \in OnItsWay => pc[q] = pc'[q]
    BY DEF Moves, TopicKept, SupportAlone
  <1>3. UnreadForAdmin' = UnreadForAdmin
    BY DEF UnreadForAdmin, Sent, messages
  <1> QED
    BY <1>1, <1>2, <1>3 DEF TotalToCome, OnItsWay, MessageLabels

\* A handler on the way to the total is the only one, unless it met another.
LEMMA OnlyOneOnItsWay ==
    ASSUME TopicKept, NEW p \in Procs, pc[p] \in MessageLabels,
           <<"support", "total">> \notin raced
    PROVE  \A q \in Procs : pc[q] \in MessageLabels => q = p
  BY SupportMet

\* A step that neither writes nor counts a message.
LEMMA NoMessageStepKept ==
    ASSUME TopicKept, SupportAlone, topic = "support", topic' = topic, NEW p \in Procs,
           NEW t \in Tasks, NEW label, Moves(p, t, label), raced \subseteq raced',
           pc[p] \notin OnItsWay, label \notin OnItsWay,
           UNCHANGED <<messages, alerts, shownTotal, unannounced>>,
           LeavesSupport(p), ConversationsOK', CodesOK',
           SupportInformed(p)', SupportAsRead(p)'
    PROVE  SupportAlone'
  <1>1. UNCHANGED <<messageIn, fromAdmin, alerts>>
    BY DEF messages
  <1>2. AlertsApart' /\ AlertToCome'
    BY <1>1, AlertsLeftAlone DEF OnItsWay, MessageLabels
  <1>3. TotalToCome'
    BY TotalLeftAlone
  <1>4. MessagesOK' /\ ShownOK'
    BY SupportTablesKept
  <1> QED
    BY <1>2, <1>3, <1>4, SupportStepKept

\* The end of a handler: it holds nothing.
LEMMA NoTaskHeld ==
    ASSUME TopicKept, SupportAlone, NEW p \in Procs, SupportDone(p)
    PROVE  /\ NoTask \in Tasks /\ Moves(p, NoTask, "idle")
           /\ SupportInformed(p)' /\ SupportAsRead(p)'
  <1>1. NoTask \in Tasks /\ Moves(p, NoTask, "idle")
    BY DEF NoTask, Tasks, SupportDone, Work, Goto, Moves
  <1>2. pc'[p] = "idle" /\ task'[p] = NoTask
    BY <1>1 DEF Moves, TopicKept, SupportAlone
  <1> QED
    BY <1>1, <1>2 DEF SupportInformed, SupportAsRead, MessageLabels

\* A handler that ends without having written or counted a message.
LEMMA NoMessageDoneKept ==
    ASSUME TopicKept, SupportAlone, topic = "support", topic' = topic, NEW p \in Procs,
           SupportDone(p), raced \subseteq raced', pc[p] \notin OnItsWay,
           UNCHANGED <<messages, alerts, shownTotal, unannounced>>,
           LeavesSupport(p), ConversationsOK', CodesOK'
    PROVE  SupportAlone'
  <1>1. "idle" \notin OnItsWay
    BY DEF OnItsWay, MessageLabels
  <1> QED
    BY <1>1, NoTaskHeld, NoMessageStepKept

\* A step that only takes note of what it read.
LEMMA SupportReadKept ==
    ASSUME TopicKept, SupportAlone, topic = "support", topic' = topic, NEW p \in Procs,
           NEW t \in Tasks, NEW label \in SupportLabels \ OnItsWay, Work(p, t, label),
           raced \subseteq raced', pc[p] \notin OnItsWay,
           UNCHANGED <<supportTables, supportShown>>,
           label \notin {"code_replace"},
           label = "conversation_create" => t.customer \in Customers /\ OpenOf(t.customer) = {},
           label = "status_save" =>
              /\ t.conv \in Conversations /\ IsConversation(t.conv)
              /\ t.customer = convOwner[t.conv] /\ t.asked \in ConvStatuses,
           label \in MessageLabels => t.conv \in Conversations,
           label = "message_insert" => t.asked \in {"customer", "admin", "upload"},
           label = "read_update" => t.message \in Sent,
           label \in {"code_expire", "code_use"} =>
              t.row \in AuthRows /\ codeStatus[t.row] = "pending"
    PROVE  SupportAlone'
  <1>1. Moves(p, t, label)
    BY DEF Work, Goto, Moves
  <1>2. /\ convOwner' = convOwner /\ convStatus' = convStatus /\ messageIn' = messageIn
        /\ fromAdmin' = fromAdmin /\ isRead' = isRead /\ codeOf' = codeOf
        /\ codeStatus' = codeStatus /\ alerts' = alerts /\ shownTotal' = shownTotal
        /\ unannounced' = unannounced /\ acceptedAgain' = acceptedAgain
    BY DEF supportTables, conversations, messages, authCodes, supportShown
  <1>3. pc'[p] = label /\ task'[p] = t
    BY <1>1 DEF Moves, TopicKept, SupportAlone
  <1>4. LeavesSupport(p)
    BY <1>2 DEF LeavesSupport, IsConversation
  <1>5. /\ UNCHANGED conversations /\ UNCHANGED <<authCodes, acceptedAgain>>
        /\ UNCHANGED <<messages, alerts, shownTotal, unannounced>>
    BY <1>2 DEF conversations, authCodes, messages
  <1>6. ConversationsOK' /\ CodesOK'
    BY <1>5, SupportTablesKept
  <1>7. label # "idle" /\ label # "message_count"
    BY DEF SupportLabels, MessageLabels, OnItsWay
  <1>8. SupportInformed(p)'
    BY <1>2, <1>3, <1>7 DEF SupportInformed, IsConversation, Sent
  <1>9. SupportAsRead(p)'
    BY <1>2, <1>3 DEF SupportAsRead, OpenOf
  <1> QED
    BY <1>1, <1>4, <1>5, <1>6, <1>8, <1>9, NoMessageStepKept

\* Requests.
LEMMA SupportRequestKept ==
    ASSUME TopicKept, SupportAlone, topic = "support", topic' = topic, NEW p \in Procs,
           raced \subseteq raced', SupportRequest(p)
    PROVE  SupportAlone'
  <1>1. /\ ConversationsOK /\ MessagesOK /\ NoTask \in Tasks
        /\ \A m \in Sent : m \in Messages /\ messageIn[m] \in Conversations
    BY DEF SupportAlone, NoTask, Tasks, MessagesOK, Sent
  <1>2. pc[p] = "idle"
    BY DEF SupportRequest, FindConversation, UpdateStatus, SendMessage, ReadMessage,
           VerifyCode, GenerateCode, Idle
  <1>3. pc[p] \notin OnItsWay
    BY <1>2 DEF OnItsWay, MessageLabels
  <1>4. /\ {"conversation_create", "status_save", "message_insert", "read_update",
            "code_expire", "code_use", "code_create"} \subseteq SupportLabels \ OnItsWay
        /\ {"message_insert", "read_update"} \subseteq MessageLabels
        /\ {"conversation_create", "status_save", "code_expire", "code_use",
            "code_create"} \cap MessageLabels = {}
    BY DEF SupportLabels, MessageLabels, OnItsWay
  <1>5. ASSUME NEW x \in Customers, FindConversation(p, x)
        PROVE  SupportAlone'
    <2> DEFINE t == [NoTask EXCEPT !.customer = x]
    <2>1. t \in Tasks /\ t.customer = x
      BY DEF NoTask, Tasks
    <2>2. Work(p, t, "conversation_create") /\ OpenOf(x) = {}
          /\ UNCHANGED <<supportTables, supportShown>>
      BY <1>5 DEF FindConversation
    <2> HIDE DEF t
    <2> QED
      BY <1>3, <1>4, <2>1, <2>2, SupportReadKept
  <1>6. ASSUME NEW k \in Conversations, NEW status \in ConvStatuses, UpdateStatus(p, k, status)
        PROVE  SupportAlone'
    <2> DEFINE t == [NoTask EXCEPT !.conv = k, !.customer = convOwner[k], !.asked = status]
    <2>1. convOwner[k] \in Customers \cup {NoCustomer}
      BY <1>1 DEF ConversationsOK
    <2>2. /\ t \in Tasks
          /\ t.conv = k /\ t.customer = convOwner[k] /\ t.asked = status
      BY <2>1 DEF NoTask, Tasks
    <2>3. Work(p, t, "status_save") /\ IsConversation(k)
          /\ UNCHANGED <<supportTables, supportShown>>
      BY <1>6 DEF UpdateStatus
    <2> HIDE DEF t
    <2> QED
      BY <1>3, <1>4, <2>2, <2>3, SupportReadKept
  <1>7. ASSUME NEW k \in Conversations, NEW way \in {"customer", "admin", "upload"},
               SendMessage(p, k, way)
        PROVE  SupportAlone'
    <2> DEFINE t == [NoTask EXCEPT !.conv = k, !.asked = way]
    <2>1. t \in Tasks /\ t.conv = k /\ t.asked = way
      BY DEF NoTask, Tasks
    <2>2. Work(p, t, "message_insert") /\ UNCHANGED <<supportTables, supportShown>>
      BY <1>7 DEF SendMessage
    <2> HIDE DEF t
    <2> QED
      BY <1>3, <1>4, <2>1, <2>2, SupportReadKept
  <1>8. ASSUME NEW m \in Messages, ReadMessage(p, m)
        PROVE  SupportAlone'
    <2> DEFINE t == [NoTask EXCEPT !.conv = messageIn[m], !.message = m]
    <2>1. Work(p, t, "read_update") /\ m \in Sent
          /\ UNCHANGED <<supportTables, supportShown>>
      BY <1>8 DEF ReadMessage
    <2>2. messageIn[m] \in Conversations
      BY <1>1, <2>1
    <2>3. t \in Tasks /\ t.conv = messageIn[m] /\ t.message = m
      BY <2>2 DEF NoTask, Tasks
    <2> HIDE DEF t
    <2> QED
      BY <1>3, <1>4, <2>1, <2>2, <2>3, SupportReadKept
  <1>9. ASSUME NEW c \in AuthCodes, VerifyCode(p, c)
        PROVE  SupportAlone'
    <2>1. PICK r \in AuthRows : codeStatus[r] = "pending" /\ TakeCode(p, r)
      BY <1>9 DEF VerifyCode
    <2> DEFINE t == [NoTask EXCEPT !.row = r]
    <2>2. PICK label \in {"code_expire", "code_use"} : Work(p, t, label)
      BY <2>1 DEF TakeCode
    <2>3. t \in Tasks /\ t.row = r
      BY DEF NoTask, Tasks
    <2>4. UNCHANGED <<supportTables, supportShown>>
      BY <2>1 DEF TakeCode
    <2> HIDE DEF t
    <2> QED
      BY <1>3, <1>4, <2>1, <2>2, <2>3, <2>4, SupportReadKept
  <1>10. ASSUME NEW c \in AuthCodes \cup {NoAuthCode}, GenerateCode(p, c)
        PROVE  SupportAlone'
    <2> DEFINE t == [NoTask EXCEPT !.mailed = c]
    <2>1. t \in Tasks
      BY DEF NoTask, Tasks
    <2>2. Work(p, t, "code_create") /\ UNCHANGED <<supportTables, supportShown>>
      BY <1>10 DEF GenerateCode
    <2> HIDE DEF t
    <2> QED
      BY <1>3, <1>4, <2>1, <2>2, SupportReadKept
  <1> QED
    BY <1>5, <1>6, <1>7, <1>8, <1>9, <1>10 DEF SupportRequest

\* A conversation is opened, or changes its status.
LEMMA ConversationStepKept ==
    ASSUME TopicKept, SupportAlone, topic = "support", topic' = topic, NEW p \in Procs,
           raced \subseteq raced', CreateConversation(p) \/ SaveStatus(p)
    PROVE  SupportAlone'
  <1>1. SupportInformed(p) /\ ConversationsOK /\ task[p] \in Tasks
    BY DEF SupportAlone
  <1>2. SupportDone(p) /\ UNCHANGED <<messages, authCodes, supportShown>>
    BY DEF CreateConversation, SaveStatus
  <1>3. /\ messageIn' = messageIn /\ fromAdmin' = fromAdmin /\ codeStatus' = codeStatus
        /\ UNCHANGED <<messages, alerts, shownTotal, unannounced>>
        /\ UNCHANGED <<authCodes, acceptedAgain>>
    BY <1>2 DEF messages, authCodes, supportShown
  <1>4. CodesOK'
    BY <1>3, SupportTablesKept
  <1>5. pc[p] \notin OnItsWay
    BY DEF CreateConversation, SaveStatus, OnItsWay, MessageLabels
  <1>6. ConversationsOK' /\ LeavesSupport(p)
    <2>1. CASE CreateConversation(p)
      <3>1. task[p].customer \in Customers
        BY <1>1, <2>1 DEF CreateConversation, SupportInformed
      <3>2. PICK k \in Conversations :
               /\ ~IsConversation(k)
               /\ convOwner' = [convOwner EXCEPT ![k] = task[p].customer]
               /\ convStatus' = [convStatus EXCEPT ![k] = "open"]
        BY <2>1 DEF CreateConversation
      <3>3. ConversationsOK'
        BY <1>1, <3>1, <3>2 DEF ConversationsOK, IsConversation, ConvStatuses
      <3>4. LeavesSupport(p)
        BY <1>1, <1>3, <3>1, <3>2 DEF LeavesSupport, ConversationsOK, IsConversation
      <3> QED
        BY <3>3, <3>4
    <2>2. CASE SaveStatus(p)
      <3>1. /\ task[p].conv \in Conversations /\ IsConversation(task[p].conv)
            /\ task[p].customer = convOwner[task[p].conv]
            /\ task[p].asked \in ConvStatuses
        BY <1>1, <2>2 DEF SaveStatus, SupportInformed
      <3>2. /\ convStatus' = [convStatus EXCEPT ![task[p].conv] = task[p].asked]
            /\ convOwner' = convOwner
        BY <2>2 DEF SaveStatus
      <3>3. ConversationsOK'
        BY <1>1, <3>1, <3>2 DEF ConversationsOK, IsConversation
      <3>4. convOwner[task[p].conv] \in Customers
        BY <1>1, <3>1 DEF ConversationsOK
      <3>5. LeavesSupport(p)
        BY <1>1, <1>3, <3>1, <3>2, <3>4 DEF LeavesSupport, ConversationsOK, IsConversation,
           ConvStatuses
      <3> QED
        BY <3>3, <3>5
    <2> QED
      BY <2>1, <2>2
  <1> QED
    BY <1>2, <1>3, <1>4, <1>5, <1>6, NoMessageDoneKept

\* An auth code is made, replaced by the one that was mailed, or verified.
LEMMA CodeStepKept ==
    ASSUME TopicKept, SupportAlone, topic = "support", topic' = topic, NEW p \in Procs,
           raced \subseteq raced',
           CreateCode(p) \/ ReplaceCode(p) \/ SaveExpired(p) \/ SaveUsed(p)
    PROVE  SupportAlone'
  <1>1. SupportInformed(p) /\ SupportAsRead(p) /\ CodesOK /\ task[p] \in Tasks
    BY DEF SupportAlone
  <1>2. UNCHANGED <<conversations, messages, alerts, shownTotal, unannounced>>
    BY DEF CreateCode, ReplaceCode, SaveExpired, SaveUsed, supportShown
  <1>3. /\ convOwner' = convOwner /\ convStatus' = convStatus
        /\ messageIn' = messageIn /\ fromAdmin' = fromAdmin
    BY <1>2 DEF conversations, messages
  <1>4. ConversationsOK'
    BY <1>2, SupportTablesKept
  <1>5. pc[p] \notin OnItsWay
    BY DEF CreateCode, ReplaceCode, SaveExpired, SaveUsed, OnItsWay, MessageLabels
  <1>6. ASSUME \A r \in AuthRows :
                  codeStatus'[r] # codeStatus[r] => r = task[p].row \/ codeStatus[r] = "none"
        PROVE  LeavesSupport(p)
    BY <1>3, <1>6 DEF LeavesSupport, IsConversation
  <1>7. CASE CreateCode(p)
    <2>1. ASSUME NEW r \in AuthRows, NEW c \in AuthCodes, codeStatus[r] = "none", Free(c),
                 codeOf' = [codeOf EXCEPT ![r] = c],
                 codeStatus' = [codeStatus EXCEPT ![r] = "pending"],
                 IF task[p].mailed = NoAuthCode
                   THEN SupportDone(p)
                   ELSE Work(p, [task[p] EXCEPT !.row = r], "code_replace")
          PROVE  SupportAlone'
      <3>1. acceptedAgain' = acceptedAgain
        BY <1>7 DEF CreateCode, supportShown
      <3>2. CodesOK'
        BY <1>1, <2>1, <3>1 DEF CodesOK, CodeStatuses, Free
      <3>3. LeavesSupport(p)
        BY <1>1, <1>6, <2>1 DEF CodesOK
      <3>4. CASE task[p].mailed = NoAuthCode
        BY <1>2, <1>4, <1>5, <2>1, <3>2, <3>3, <3>4, NoMessageDoneKept
      <3>5. CASE task[p].mailed # NoAuthCode
        <4> DEFINE t == [task[p] EXCEPT !.row = r]
        <4>1. t \in Tasks /\ t.row = r /\ t.mailed \in AuthCodes
          BY <1>1, <3>5 DEF Tasks
        <4>2. Moves(p, t, "code_replace")
          BY <2>1, <3>5 DEF Work, Goto, Moves
        <4> HIDE DEF t
        <4>3. pc'[p] = "code_replace" /\ task'[p] = t
          BY <4>2 DEF Moves, TopicKept, SupportAlone
        <4>4. SupportInformed(p)' /\ SupportAsRead(p)'
          BY <4>1, <4>3 DEF SupportInformed, SupportAsRead, MessageLabels
        <4>5. "code_replace" \notin OnItsWay
          BY DEF OnItsWay, MessageLabels
        <4> QED
          BY <1>2, <1>4, <1>5, <3>2, <3>3, <4>1, <4>2, <4>4, <4>5, NoMessageStepKept
      <3> QED
        BY <3>4, <3>5
    <2> QED
      BY <1>7, <2>1 DEF CreateCode
  <1>8. CASE ReplaceCode(p)
    <2>1. task[p].row \in AuthRows /\ task[p].mailed \in AuthCodes
      BY <1>1, <1>8 DEF ReplaceCode, SupportInformed
    <2>2. /\ Free(task[p].mailed) /\ SupportDone(p)
          /\ codeOf' = [codeOf EXCEPT ![task[p].row] = task[p].mailed]
          /\ codeStatus' = codeStatus /\ acceptedAgain' = acceptedAgain
      BY <1>8 DEF ReplaceCode, supportShown
    <2>3. CodesOK'
      BY <1>1, <2>1, <2>2 DEF CodesOK, Free
    <2>4. LeavesSupport(p)
      BY <1>6, <2>2
    <2> QED
      BY <1>2, <1>4, <1>5, <2>2, <2>3, <2>4, NoMessageDoneKept
  <1>9. CASE SaveExpired(p) \/ SaveUsed(p)
    <2>1. /\ task[p].row \in AuthRows
          /\ task[p].row \notin raced => codeStatus[task[p].row] = "pending"
      BY <1>1, <1>9 DEF SaveExpired, SaveUsed, SupportInformed, SupportAsRead
    <2>2. PICK status \in {"expired", "used"} :
             codeStatus' = [codeStatus EXCEPT ![task[p].row] = status]
      BY <1>9 DEF SaveExpired, SaveUsed
    <2>3. /\ SupportDone(p) /\ codeOf' = codeOf
          /\ acceptedAgain' \subseteq
                acceptedAgain \cup {d \in {task[p].row} : codeStatus[task[p].row] # "pending"}
      BY <1>9 DEF SaveExpired, SaveUsed, supportShown
    <2>4. CodesOK'
      BY <1>1, <2>1, <2>2, <2>3 DEF CodesOK, CodeStatuses
    <2>5. LeavesSupport(p)
      BY <1>1, <1>6, <2>1, <2>2 DEF CodesOK
    <2> QED
      BY <1>2, <1>4, <1>5, <2>3, <2>4, <2>5, NoMessageDoneKept
  <1> QED
    BY <1>7, <1>8, <1>9

-----------------------------------------------------------------------------
(* Proofs: the messages of a conversation *)

\* What a step of a message leaves alone.
LEMMA MessageLeaves ==
    ASSUME SupportAlone, NEW p \in Procs, UNCHANGED <<conversations, authCodes>>,
           \A m \in Sent : messageIn'[m] = messageIn[m] /\ (m \in fromAdmin' <=> m \in fromAdmin)
    PROVE  LeavesSupport(p)
  BY DEF LeavesSupport, conversations, authCodes, IsConversation

\* The conversation and the message of a handler on its way.
LEMMA MessageHeld ==
    ASSUME SupportAlone, topic = "support", NEW p \in Procs, pc[p] \in MessageLabels
    PROVE  /\ task[p] \in Tasks /\ task[p].conv \in Conversations
           /\ MessagesOK /\ ShownOK /\ AlertsApart /\ AlertToCome /\ TotalToCome
           /\ SupportInformed(p)
           /\ pc[p] = "message_count" =>
                 /\ task[p].message \in Sent
                 /\ task[p].asked # "admin" => task[p].message \in FromCustomer(task[p].conv)
  <1>1. task[p] \in Tasks /\ task[p].conv \in Conversations /\ SupportInformed(p)
    BY DEF SupportAlone, SupportInformed
  <1>2. pc[p] = "message_count" =>
                 /\ task[p].message \in Sent
                 /\ task[p].asked # "admin" => task[p].message \in FromCustomer(task[p].conv)
    BY <1>1, SupportAssumption DEF SupportInformed, Sent, FromCustomer
  <1> QED
    BY <1>1, <1>2 DEF SupportAlone

\* The count of unread messages is a number.
LEMMA UnreadIsNat ==
    ASSUME MessagesOK
    PROVE  UnreadForAdmin \in Nat
  <1>1. IsFiniteSet(Sent \ (fromAdmin \cup isRead))
    BY FS_Difference DEF MessagesOK
  <1> QED
    BY <1>1, FS_CardinalityType DEF UnreadForAdmin

\* The INSERT.  A new message is on its way to be counted, and is another
\* than any that was counted before.
LEMMA InsertMessageKept ==
    ASSUME TopicKept, SupportAlone, topic = "support", topic' = topic, NEW p \in Procs,
           raced \subseteq raced', InsertMessage(p)
    PROVE  SupportAlone'
  <1>1. PICK m \in Messages \ Sent :
          /\ messageIn' = [messageIn EXCEPT ![m] = task[p].conv]
          /\ fromAdmin' = IF task[p].asked = "admin" THEN fromAdmin \cup {m} ELSE fromAdmin
          /\ Work(p, [task[p] EXCEPT !.message = m], "message_count")
    BY DEF InsertMessage
  <1>2. PICK k : k = task[p].conv
    OBVIOUS
  <1>3. PICK asked : asked = task[p].asked
    OBVIOUS
  <1>4. /\ pc[p] = "message_insert" /\ isRead' = isRead
        /\ UNCHANGED <<conversations, authCodes, supportShown>>
        /\ alerts' = alerts /\ shownTotal' = shownTotal /\ unannounced' = unannounced
        /\ UNCHANGED <<conversations, authCodes>> /\ UNCHANGED <<authCodes, acceptedAgain>>
        /\ UNCHANGED <<alerts, shownTotal, unannounced>>
    BY DEF InsertMessage, supportShown
  <1>5. pc[p] \in MessageLabels
    BY <1>4 DEF MessageLabels
  <1>6. /\ task[p] \in Tasks /\ k \in Conversations
        /\ MessagesOK /\ ShownOK /\ AlertsApart /\ AlertToCome /\ TotalToCome
        /\ SupportInformed(p)
    BY <1>2, <1>5, MessageHeld
  <1>7. asked \in {"customer", "admin", "upload"}
    BY <1>3, <1>4, <1>6 DEF SupportInformed
  <1> DEFINE t == [task[p] EXCEPT !.message = m]
  <1>8. /\ t \in Tasks /\ t.message = m /\ t.conv = k /\ t.asked = asked
        /\ Moves(p, t, "message_count")
    BY <1>1, <1>2, <1>3, <1>6 DEF Tasks, Work, Goto, Moves
  <1> HIDE DEF t
  <1>9. /\ pc'[p] = "message_count" /\ task'[p] = t
        /\ \A q \in Procs \ {p} : pc'[q] = pc[q] /\ task'[q] = task[q]
    BY <1>8 DEF Moves, TopicKept, SupportAlone
  <1>10. /\ \A n \in Messages : messageIn'[n] = IF n = m THEN k ELSE messageIn[n]
         /\ messageIn' \in [Messages -> Conversations \cup {NoConversation}]
         /\ Sent' = Sent \cup {m} /\ k # NoConversation
    BY <1>1, <1>2, <1>6, SupportAssumption DEF MessagesOK, Sent
  <1>11. m \notin Sent /\ m \notin fromAdmin /\ m \notin isRead
    BY <1>1, <1>6 DEF MessagesOK
  <1>12. MessagesOK'
    BY <1>1, <1>4, <1>6, <1>10, FS_AddElement DEF MessagesOK
  <1>13. ConversationsOK' /\ ShownOK' /\ CodesOK'
    BY <1>4, SupportTablesKept
  <1>14. LeavesSupport(p)
    <2>1. \A n \in Sent : messageIn'[n] = messageIn[n] /\ (n \in fromAdmin' <=> n \in fromAdmin)
      BY <1>1, <1>10, <1>11 DEF Sent
    <2> QED
      BY <1>4, <2>1, MessageLeaves
  <1>15. SupportInformed(p)' /\ SupportAsRead(p)'
    BY <1>1, <1>3, <1>6, <1>7, <1>8, <1>9, <1>10, <1>11 DEF SupportInformed, SupportAsRead,
       MessageLabels
  <1>16. \A j \in Conversations :
            FromCustomer(j)' = IF j = k /\ asked # "admin" THEN FromCustomer(j) \cup {m}
                                                           ELSE FromCustomer(j)
    BY <1>1, <1>3, <1>6, <1>10, <1>11 DEF FromCustomer, Sent
  <1>17. \A j \in Conversations : m \notin FromCustomer(j)
    BY <1>11 DEF FromCustomer
  <1>18. /\ \A q \in Procs, j \in Conversations : Alerting(q, j)' <=> Alerting(q, j)
         /\ \A j \in Conversations : Claimed(j)' <=> Claimed(j)
    BY <1>4, <1>9 DEF Alerting, Claimed
  <1>19. AlertsApart'
    <2>1. \A q \in Procs \ {p} : pc[q] = "message_count" => task[q].message # m
      <3> SUFFICES ASSUME NEW q \in Procs \ {p}, pc[q] = "message_count"
                   PROVE  task[q].message \in Sent
        BY <1>11
      <3> QED
        BY MessageHeld DEF MessageLabels
    <2>2. ASSUME NEW x \in Procs, NEW y \in Procs, x # y,
                 pc'[x] = "message_count", pc'[y] = "message_count"
          PROVE  task'[x].message # task'[y].message
      BY <1>6, <1>8, <1>9, <2>1, <2>2 DEF AlertsApart
    <2>3. ASSUME NEW j \in Conversations, Claimed(j)
          PROVE  FromCustomer(j)' # {}
      BY <1>6, <1>16, <2>3 DEF AlertsApart
    <2>4. ASSUME NEW j \in Conversations, NEW q \in Procs, Alerting(q, j)
          PROVE  alerts'[j] = 0 /\ \A x \in Procs : Alerting(x, j) => x = q
      BY <1>4, <1>6, <2>4 DEF AlertsApart
    <2>5. ASSUME NEW j \in Conversations, NEW q \in Procs, Claimed(j),
                 pc'[q] = "message_count", task'[q].conv = j
          PROVE  \E n \in FromCustomer(j)' : n # task'[q].message
      <3>1. CASE q = p
        <4>1. PICK n \in FromCustomer(j) : TRUE
          BY <1>6, <2>5 DEF AlertsApart
        <4> QED
          BY <1>8, <1>9, <1>16, <1>17, <3>1, <4>1
      <3>2. CASE q # p
        <4>1. PICK n \in FromCustomer(j) : n # task[q].message
          BY <1>6, <1>9, <2>5, <3>2 DEF AlertsApart
        <4> QED
          BY <1>9, <1>16, <3>2, <4>1
      <3> QED
        BY <3>1, <3>2
    <2> QED
      BY <1>18, <2>2, <2>3, <2>4, <2>5 DEF AlertsApart
  <1>20. AlertToCome'
    <2> SUFFICES ASSUME NEW j \in Conversations, j \notin raced', j \notin unannounced',
                        FromCustomer(j)' # {}
                 PROVE  alerts'[j] = 1 \/ FirstOnItsWay(j)'
      BY DEF AlertToCome
    <2>1. CASE FromCustomer(j) = {}
      <3>1. j = k /\ asked # "admin" /\ FromCustomer(j)' = {m}
        BY <1>16, <2>1
      <3>2. /\ pc'[p] = "message_count" /\ task'[p].conv = j
            /\ task'[p].asked \in {"customer", "upload"}
            /\ FromCustomer(j)' = {task'[p].message}
        BY <1>7, <1>8, <1>9, <3>1
      <3> QED
        BY <3>2 DEF FirstOnItsWay
    <2>2. CASE FromCustomer(j) # {} /\ alerts[j] = 1
      BY <1>4, <2>2
    <2>3. CASE FromCustomer(j) # {} /\ FirstOnItsWay(j)
      <3>1. PICK q \in Procs :
                \/ Alerting(q, j)
                \/ /\ pc[q] = "message_count" /\ task[q].conv = j
                   /\ task[q].asked \in {"customer", "upload"}
                   /\ FromCustomer(j) = {task[q].message}
        BY <2>3 DEF FirstOnItsWay
      <3>2. q # p /\ task[q].conv = j
        BY <1>4, <3>1 DEF Alerting
      <3>3. j # k
        BY <1>2, <3>2, SupportMet
      <3>4. \/ Alerting(q, j)'
            \/ /\ pc'[q] = "message_count" /\ task'[q].conv = j
               /\ task'[q].asked \in {"customer", "upload"}
               /\ FromCustomer(j)' = {task'[q].message}
        BY <1>9, <1>16, <1>18, <3>1, <3>2, <3>3
      <3> QED
        BY <3>4 DEF FirstOnItsWay
    <2> QED
      BY <1>4, <1>6, <2>1, <2>2, <2>3 DEF AlertToCome
  <1>21. TotalToCome'
    <2> SUFFICES ASSUME <<"support", "total">> \notin raced'
                 PROVE  /\ unannounced' = {} =>
                              \/ shownTotal' = UnreadForAdmin'
                              \/ pc'[p] = "message_count"
                                   /\ task'[p].asked \in {"customer", "upload"}
                        /\ \A q \in Procs : pc'[q] # "total_emit"
      BY DEF TotalToCome
    <2>1. \A q \in Procs : pc[q] \in MessageLabels => q = p
      BY <1>5, OnlyOneOnItsWay
    <2>2. \A q \in Procs : pc'[q] # "total_emit"
      BY <1>9, <2>1 DEF MessageLabels
    <2>3. ASSUME unannounced' = {}, asked = "admin"
          PROVE  shownTotal' = UnreadForAdmin'
      <3>1. \A q \in Procs :
                pc[q] \notin {"message_count", "message_alert", "total_count", "total_emit"}
        BY <1>4, <2>1 DEF MessageLabels
      <3>2. shownTotal = UnreadForAdmin
        BY <1>4, <1>6, <2>3, <3>1 DEF TotalToCome
      <3>3. Sent' \ (fromAdmin' \cup isRead') = Sent \ (fromAdmin \cup isRead)
        BY <1>1, <1>3, <1>4, <1>10, <2>3
      <3> QED
        BY <1>4, <3>2, <3>3 DEF UnreadForAdmin
    <2> QED
      BY <1>7, <1>8, <1>9, <2>2, <2>3
  <1> QED
    BY <1>8, <1>12, <1>13, <1>14, <1>15, <1>19, <1>20, <1>21, SupportStepKept

\* A step that writes no message.
LEMMA MessageStepKept ==
    ASSUME TopicKept, SupportAlone, topic = "support", topic' = topic, NEW p \in Procs,
           NEW t \in Tasks, NEW label, Moves(p, t, label), raced \subseteq raced',
           UNCHANGED <<conversations, messageIn, fromAdmin, authCodes, acceptedAgain>>,
           MessagesOK', ShownOK', AlertsApart', AlertToCome', TotalToCome',
           SupportInformed(p)', SupportAsRead(p)'
    PROVE  SupportAlone'
  <1>1. ConversationsOK' /\ CodesOK'
    BY SupportTablesKept
  <1>2. LeavesSupport(p)
    BY MessageLeaves
  <1> QED
    BY <1>1, <1>2, SupportStepKept

\* A handler that was to count its message, or to alert the administrators,
\* goes on.  The first message of its conversation is announced, or was not
\* its own, or is noted as not announced.
LEMMA AlertsLeftBehind ==
    ASSUME TopicKept, SupportAlone, topic = "support", NEW p \in Procs, NEW t, NEW label,
           Moves(p, t, label), raced \subseteq raced', unannounced \subseteq unannounced',
           pc[p] \in {"message_count", "message_alert"},
           label \notin {"message_count", "message_alert"},
           UNCHANGED <<messageIn, fromAdmin>>,
           \/ alerts' = alerts
           \/ /\ pc[p] = "message_alert"
              /\ alerts' = [alerts EXCEPT ![task[p].conv] = 1],
           \/ task[p].conv \in unannounced'
           \/ alerts'[task[p].conv] = 1
           \/ /\ pc[p] = "message_count"
              /\ \/ task[p].asked = "admin"
                 \/ FromCustomer(task[p].conv) # {task[p].message}
    PROVE  AlertsApart' /\ AlertToCome'
  <1>1. /\ AlertsApart /\ AlertToCome /\ task[p].conv \in Conversations
        /\ alerts \in [Conversations -> {0, 1}]
    BY MessageHeld DEF MessageLabels, ShownOK
  <1>2. /\ \A q \in Procs \ {p} : pc'[q] = pc[q] /\ task'[q] = task[q]
        /\ pc'[p] \notin {"message_count", "message_alert"}
    BY DEF Moves, TopicKept, SupportAlone
  <1>3. PICK k \in Conversations : k = task[p].conv
    BY <1>1
  <1>4. \A j \in Conversations : FromCustomer(j)' = FromCustomer(j)
    BY DEF FromCustomer, Sent
  <1>5. \A q \in Procs, j \in Conversations :
          Alerting(q, j)' <=> q # p /\ Alerting(q, j)
    BY <1>2 DEF Alerting
  <1>6. \A j \in Conversations :
          \/ alerts'[j] = alerts[j]
          \/ alerts'[j] = 1 /\ Alerting(p, j)
    BY <1>1 DEF Alerting
  <1>7. \A j \in Conversations : Claimed(j)' => Claimed(j)
    BY <1>5, <1>6 DEF Claimed
  <1>8. AlertsApart'
    <2>1. ASSUME NEW x \in Procs, NEW y \in Procs, x # y,
                 pc'[x] = "message_count", pc'[y] = "message_count"
          PROVE  task'[x].message # task'[y].message
      BY <1>1, <1>2, <2>1 DEF AlertsApart
    <2>2. ASSUME NEW j \in Conversations, Claimed(j)'
          PROVE  FromCustomer(j)' # {}
      BY <1>1, <1>4, <1>7, <2>2 DEF AlertsApart
    <2>3. ASSUME NEW j \in Conversations, NEW q \in Procs, Alerting(q, j)'
          PROVE  alerts'[j] = 0 /\ \A x \in Procs : Alerting(x, j)' => x = q
      <3>1. /\ q # p /\ Alerting(q, j) /\ alerts[j] = 0
            /\ \A x \in Procs : Alerting(x, j) => x = q
        BY <1>1, <1>5, <2>3 DEF AlertsApart
      <3> QED
        BY <1>5, <1>6, <3>1
    <2>4. ASSUME NEW j \in Conversations, NEW q \in Procs, Claimed(j)',
                 pc'[q] = "message_count", task'[q].conv = j
          PROVE  \E n \in FromCustomer(j)' : n # task'[q].message
      <3>1. q # p /\ pc[q] = "message_count" /\ task'[q] = task[q]
        BY <1>2, <2>4
      <3>2. PICK n \in FromCustomer(j) : n # task[q].message
        BY <1>1, <1>7, <2>4, <3>1 DEF AlertsApart
      <3> QED
        BY <1>4, <3>1, <3>2
    <2> QED
      BY <2>1, <2>2, <2>3, <2>4 DEF AlertsApart
  <1>9. AlertToCome'
    <2> SUFFICES ASSUME NEW j \in Conversations, j \notin raced', j \notin unannounced',
                        FromCustomer(j) # {}
                 PROVE  alerts'[j] = 1 \/ FirstOnItsWay(j)'
      BY <1>4 DEF AlertToCome
    <2>1. alerts[j] = 1 => alerts'[j] = 1
      BY <1>6
    <2>2. ASSUME FirstOnItsWay(j)
          PROVE  alerts'[j] = 1 \/ FirstOnItsWay(j)'
      <3>1. PICK q \in Procs :
                \/ Alerting(q, j)
                \/ /\ pc[q] = "message_count" /\ task[q].conv = j
                   /\ task[q].asked \in {"customer", "upload"}
                   /\ FromCustomer(j) = {task[q].message}
        BY <2>2 DEF FirstOnItsWay
      <3>2. CASE q = p
        BY <1>3, <3>1, <3>2 DEF Alerting
      <3>3. CASE q # p
        <4>1. \/ Alerting(q, j)'
              \/ /\ pc'[q] = "message_count" /\ task'[q].conv = j
                 /\ task'[q].asked \in {"customer", "upload"}
                 /\ FromCustomer(j)' = {task'[q].message}
          BY <1>2, <1>4, <1>5, <3>1, <3>3
        <4> QED
          BY <4>1 DEF FirstOnItsWay
      <3> QED
        BY <3>2, <3>3
    <2> QED
      BY <1>1, <2>1, <2>2 DEF AlertToCome
  <1> QED
    BY <1>8, <1>9

\* One message of the customer: it is the handler's own.
LEMMA FirstIsOwn ==
    ASSUME SupportAlone, topic = "support", NEW p \in Procs, pc[p] = "message_count",
           task[p].asked # "admin"
    PROVE  FirstInConversation(task[p].conv) <=>
               FromCustomer(task[p].conv) = {task[p].message}
  <1>1. MessagesOK /\ task[p].message \in FromCustomer(task[p].conv)
    BY MessageHeld DEF MessageLabels
  <1>2. PICK S : S = FromCustomer(task[p].conv)
    OBVIOUS
  <1>3. IsFiniteSet(S)
    <2>1. S \subseteq Sent
      BY <1>2 DEF FromCustomer
    <2> QED
      BY <1>1, <2>1, FS_Subset DEF MessagesOK
  <1>4. Cardinality(S) = 1 <=> \E x : S = {x}
    BY <1>3, FS_Singleton
  <1> QED
    BY <1>1, <1>2, <1>4 DEF FirstInConversation

\* The first message of a conversation claims its alert.
LEMMA FirstMessageKept ==
    ASSUME TopicKept, SupportAlone, topic = "support", NEW p \in Procs, NEW t,
           Moves(p, t, "message_alert"), t = task[p],
           raced \subseteq raced', UNCHANGED <<messageIn, fromAdmin, alerts, unannounced>>,
           pc[p] = "message_count", task[p].asked # "admin",
           FirstInConversation(task[p].conv)
    PROVE  AlertsApart' /\ AlertToCome'
  <1>1. /\ AlertsApart /\ AlertToCome /\ task[p].conv \in Conversations
        /\ alerts \in [Conversations -> {0, 1}]
    BY MessageHeld DEF MessageLabels, ShownOK
  <1>2. /\ \A q \in Procs \ {p} : pc'[q] = pc[q]
        /\ \A q \in Procs : task'[q] = task[q]
        /\ pc'[p] = "message_alert"
    BY DEF Moves, TopicKept, SupportAlone
  <1>3. PICK k \in Conversations : k = task[p].conv
    BY <1>1
  <1>4. PICK m : m = task[p].message
    OBVIOUS
  <1>5. \A j \in Conversations : FromCustomer(j)' = FromCustomer(j)
    BY DEF FromCustomer, Sent
  <1>6. FromCustomer(k) = {m}
    BY <1>3, <1>4, FirstIsOwn
  <1>7. ~Claimed(k)
    BY <1>1, <1>3, <1>4, <1>6 DEF AlertsApart
  <1>8. alerts[k] = 0 /\ \A q \in Procs : ~Alerting(q, k)
    BY <1>1, <1>7 DEF Claimed
  <1>9. /\ \A q \in Procs, j \in Conversations :
              Alerting(q, j)' <=> Alerting(q, j) \/ (q = p /\ j = k)
        /\ \A j \in Conversations : j # k => (Claimed(j)' <=> Claimed(j))
    BY <1>2, <1>3 DEF Alerting, Claimed
  <1>10. AlertsApart'
    <2>1. ASSUME NEW x \in Procs, NEW y \in Procs, x # y,
                 pc'[x] = "message_count", pc'[y] = "message_count"
          PROVE  task'[x].message # task'[y].message
      BY <1>1, <1>2, <2>1 DEF AlertsApart
    <2>2. ASSUME NEW j \in Conversations, Claimed(j)'
          PROVE  FromCustomer(j)' # {}
      BY <1>1, <1>5, <1>6, <1>9, <2>2 DEF AlertsApart
    <2>3. ASSUME NEW j \in Conversations, NEW q \in Procs, Alerting(q, j)'
          PROVE  alerts'[j] = 0 /\ \A x \in Procs : Alerting(x, j)' => x = q
      <3>1. CASE j = k
        BY <1>8, <1>9, <2>3, <3>1
      <3>2. CASE j # k
        BY <1>1, <1>9, <2>3, <3>2 DEF AlertsApart
      <3> QED
        BY <3>1, <3>2
    <2>4. ASSUME NEW j \in Conversations, NEW q \in Procs, Claimed(j)',
                 pc'[q] = "message_count", task'[q].conv = j
          PROVE  \E n \in FromCustomer(j)' : n # task'[q].message
      <3>1. q # p /\ pc[q] = "message_count" /\ task'[q] = task[q]
        BY <1>2, <2>4
      <3>2. CASE j = k
        <4>1. task[q].message # m
          BY <1>1, <1>4, <3>1 DEF AlertsApart
        <4> QED
          BY <1>5, <1>6, <3>1, <3>2, <4>1
      <3>3. CASE j # k
        <4>1. PICK n \in FromCustomer(j) : n # task[q].message
          BY <1>1, <1>9, <2>4, <3>1, <3>3 DEF AlertsApart
        <4> QED
          BY <1>5, <3>1, <4>1
      <3> QED
        BY <3>2, <3>3
    <2> QED
      BY <2>1, <2>2, <2>3, <2>4 DEF AlertsApart
  <1>11. AlertToCome'
    <2> SUFFICES ASSUME NEW j \in Conversations, j \notin raced', j \notin unannounced,
                        FromCustomer(j) # {}
                 PROVE  alerts[j] = 1 \/ FirstOnItsWay(j)'
      BY <1>5 DEF AlertToCome
    <2>1. CASE j = k
      <3>1. Alerting(p, k)'
        BY <1>9
      <3> QED
        BY <2>1, <3>1 DEF FirstOnItsWay
    <2>2. CASE j # k /\ FirstOnItsWay(j)
      <3>1. PICK q \in Procs :
                \/ Alerting(q, j)
                \/ /\ pc[q] = "message_count" /\ task[q].conv = j
                   /\ task[q].asked \in {"customer", "upload"}
                   /\ FromCustomer(j) = {task[q].message}
        BY <2>2 DEF FirstOnItsWay
      <3>2. q # p
        BY <1>3, <2>2, <3>1 DEF Alerting
      <3>3. \/ Alerting(q, j)'
            \/ /\ pc'[q] = "message_count" /\ task'[q].conv = j
               /\ task'[q].asked \in {"customer", "upload"}
               /\ FromCustomer(j)' = {task'[q].message}
        BY <1>2, <1>5, <1>9, <3>1, <3>2
      <3> QED
        BY <3>3 DEF FirstOnItsWay
    <2> QED
      BY <1>1, <2>1, <2>2 DEF AlertToCome
  <1> QED
    BY <1>10, <1>11

\* A handler on the way to the total corrects it.
LEMMA TotalOnTheWay ==
    ASSUME TopicKept, SupportAlone, NEW p \in Procs, pc[p] \in MessageLabels,
           NEW t, NEW label \in {"message_alert", "total_count"}, Moves(p, t, label),
           raced \subseteq raced'
    PROVE  TotalToCome'
  <1>1. pc'[p] = label /\ \A q \in Procs \ {p} : pc'[q] = pc[q]
    BY DEF Moves, TopicKept
  <1>2. <<"support", "total">> \notin raced' =>
            \A q \in Procs : pc[q] \in MessageLabels => q = p
    BY OnlyOneOnItsWay
  <1> QED
    BY <1>1, <1>2 DEF TotalToCome, MessageLabels

\* A handler that ends leaves the total right, if there was no other.
LEMMA TotalSettled ==
    ASSUME TopicKept, NEW p \in Procs, pc[p] \in MessageLabels,
           NEW t, Moves(p, t, "idle"), raced \subseteq raced',
           <<"support", "total">> \notin raced' /\ unannounced' = {} =>
              shownTotal' = UnreadForAdmin'
    PROVE  TotalToCome'
  <1>1. pc'[p] = "idle" /\ \A q \in Procs \ {p} : pc'[q] = pc[q]
    BY DEF Moves, TopicKept
  <1>2. <<"support", "total">> \notin raced' =>
            \A q \in Procs : pc[q] \in MessageLabels => q = p
    BY OnlyOneOnItsWay
  <1> QED
    BY <1>1, <1>2 DEF TotalToCome, MessageLabels

\* What the total was when a handler that is alone was not on its way to it.
LEMMA TotalRight ==
    ASSUME TopicKept, SupportAlone, topic = "support", NEW p \in Procs,
           \/ pc[p] \in {"message_insert", "read_update"}
           \/ pc[p] = "message_count" /\ task[p].asked = "admin",
           <<"support", "total">> \notin raced, unannounced = {}
    PROVE  shownTotal = UnreadForAdmin
  <1>1. \A q \in Procs : pc[q] \in MessageLabels => q = p
    BY OnlyOneOnItsWay DEF MessageLabels
  <1> QED
    BY <1>1 DEF SupportAlone, TotalToCome, MessageLabels

\* A message is counted.
LEMMA CountMessagesKept ==
    ASSUME TopicKept, SupportAlone, topic = "support", topic' = topic, NEW p \in Procs,
           raced \subseteq raced', CountMessages(p)
    PROVE  SupportAlone'
  <1>1. pc[p] = "message_count" /\ UNCHANGED supportTables
    BY DEF CountMessages
  <1>2. pc[p] \in MessageLabels
    BY <1>1 DEF MessageLabels
  <1>3. /\ task[p] \in Tasks /\ task[p].conv \in Conversations
        /\ MessagesOK /\ ShownOK /\ SupportInformed(p)
    BY <1>2, MessageHeld
  <1>4. /\ UNCHANGED <<conversations, messageIn, fromAdmin, authCodes>>
        /\ UNCHANGED <<messageIn, fromAdmin>> /\ UNCHANGED messages
    BY <1>1 DEF supportTables, messages
  <1>5. MessagesOK'
    BY <1>4, SupportTablesKept
  <1>6. CASE task[p].asked = "customer"
    <2>1. PICK label \in {"message_alert", "total_count"} :
             /\ label = "message_alert" <=> FirstInConversation(task[p].conv)
             /\ Goto(p, label)
      BY <1>6 DEF CountMessages
    <2>2. UNCHANGED <<task, supportShown>>
      BY <1>6 DEF CountMessages
    <2>3. /\ UNCHANGED <<alerts, shownTotal, unannounced>>
          /\ UNCHANGED <<messageIn, fromAdmin, alerts, unannounced>>
          /\ unannounced' = unannounced /\ alerts' = alerts
          /\ UNCHANGED acceptedAgain
      BY <1>4, <2>2 DEF supportShown
    <2>4. Moves(p, task[p], label)
      BY <2>1, <2>2 DEF Goto, Moves, SupportAlone
    <2>5. ShownOK'
      BY <2>3, SupportTablesKept
    <2>6. AlertsApart' /\ AlertToCome'
      <3>1. CASE label = "message_alert"
        BY <1>1, <1>6, <2>1, <2>3, <2>4, <3>1, FirstMessageKept
      <3>2. CASE label = "total_count"
        <4>1. FromCustomer(task[p].conv) # {task[p].message}
          BY <1>1, <1>6, <2>1, <3>2, FirstIsOwn
        <4> QED
          BY <1>1, <1>4, <2>3, <2>4, <3>2, <4>1, AlertsLeftBehind
      <3> QED
        BY <3>1, <3>2
    <2>7. TotalToCome'
      BY <1>2, <2>4, TotalOnTheWay
    <2>8. SupportInformed(p)' /\ SupportAsRead(p)'
      <3>1. pc'[p] = label /\ task'[p] = task[p]
        BY <2>1, <2>2 DEF Goto, TopicKept
      <3> QED
        BY <1>3, <3>1 DEF SupportInformed, SupportAsRead
    <2> QED
      BY <1>3, <1>4, <1>5, <2>3, <2>4, <2>5, <2>6, <2>7, <2>8, MessageStepKept
  <1>7. ASSUME SupportDone(p), alerts' = alerts, shownTotal' = shownTotal,
               acceptedAgain' = acceptedAgain,
               \/ task[p].asked = "admin" /\ unannounced' = unannounced
               \/ unannounced' = unannounced \cup {task[p].conv}
        PROVE  SupportAlone'
    <2>1. /\ NoTask \in Tasks /\ Moves(p, NoTask, "idle")
          /\ SupportInformed(p)' /\ SupportAsRead(p)'
      BY <1>7, NoTaskHeld
    <2>2. ShownOK'
      BY <1>3, <1>7 DEF ShownOK
    <2>3. AlertsApart' /\ AlertToCome'
      BY <1>1, <1>4, <1>7, <2>1, AlertsLeftBehind
    <2>4. UnreadForAdmin' = UnreadForAdmin
      BY <1>4 DEF UnreadForAdmin, Sent, messages
    <2>5. TotalToCome'
      <3>1. ASSUME <<"support", "total">> \notin raced', unannounced' = {}
            PROVE  shownTotal' = UnreadForAdmin'
        BY <1>1, <1>7, <2>4, <3>1, TotalRight
      <3> QED
        BY <1>2, <2>1, <3>1, TotalSettled
    <2> QED
      BY <1>4, <1>5, <1>7, <2>1, <2>2, <2>3, <2>5, MessageStepKept
  <1>8. CASE task[p].asked = "admin"
    BY <1>7, <1>8 DEF CountMessages, supportShown
  <1>9. CASE task[p].asked = "upload"
    BY <1>7, <1>9 DEF CountMessages, supportShown
  <1> QED
    BY <1>6, <1>8, <1>9 DEF CountMessages

\* The administrators are alerted, for the first time, or the alert fails.
LEMMA AlertAdminsKept ==
    ASSUME TopicKept, SupportAlone, topic = "support", topic' = topic, NEW p \in Procs,
           raced \subseteq raced', AlertAdmins(p)
    PROVE  SupportAlone'
  <1>1. /\ pc[p] = "message_alert" /\ Goto(p, "total_count")
        /\ \/ /\ alerts' = [alerts EXCEPT ![task[p].conv] = @ + 1]
              /\ unannounced' = unannounced
           \/ /\ alerts' = alerts /\ unannounced' = unannounced \cup {task[p].conv}
        /\ UNCHANGED <<supportTables, task, shownTotal, acceptedAgain>>
    BY DEF AlertAdmins
  <1>2. pc[p] \in MessageLabels
    BY <1>1 DEF MessageLabels
  <1>3. /\ task[p] \in Tasks /\ task[p].conv \in Conversations
        /\ MessagesOK /\ ShownOK /\ AlertsApart
    BY <1>2, MessageHeld
  <1>4. /\ UNCHANGED <<conversations, messageIn, fromAdmin, authCodes, acceptedAgain>>
        /\ UNCHANGED <<messageIn, fromAdmin>> /\ UNCHANGED messages
        /\ unannounced \subseteq unannounced' /\ shownTotal' = shownTotal /\ task' = task
    BY <1>1 DEF supportTables, messages
  <1>5. alerts[task[p].conv] = 0
    BY <1>1, <1>3 DEF AlertsApart, Alerting
  <1>6. \/ alerts' = [alerts EXCEPT ![task[p].conv] = 1] /\ unannounced' = unannounced
        \/ alerts' = alerts /\ unannounced' = unannounced \cup {task[p].conv}
    BY <1>1, <1>3, <1>5
  <1>7. /\ alerts'[task[p].conv] = 1 \/ task[p].conv \in unannounced'
        /\ ShownOK'
    BY <1>3, <1>4, <1>6 DEF ShownOK
  <1>8. MessagesOK'
    BY <1>4, SupportTablesKept
  <1>9. Moves(p, task[p], "total_count")
    BY <1>1, <1>4 DEF Goto, Moves, SupportAlone
  <1>10. AlertsApart' /\ AlertToCome'
    <2>1. /\ unannounced \subseteq unannounced' /\ pc[p] \in {"message_count", "message_alert"}
          /\ pc[p] = "message_alert"
          /\ alerts' = alerts \/ alerts' = [alerts EXCEPT ![task[p].conv] = 1]
      BY <1>1, <1>4, <1>6
    <2>2. \/ alerts' = alerts
          \/ /\ pc[p] = "message_alert"
             /\ alerts' = [alerts EXCEPT ![task[p].conv] = 1]
      BY <2>1
    <2>3. \/ task[p].conv \in unannounced'
          \/ alerts'[task[p].conv] = 1
          \/ /\ pc[p] = "message_count"
             /\ \/ task[p].asked = "admin"
                \/ FromCustomer(task[p].conv) # {task[p].message}
      BY <1>7
    <2>4. UNCHANGED <<messageIn, fromAdmin>>
      BY <1>4
    <2>5. "total_count" \notin {"message_count", "message_alert"}
      OBVIOUS
    <2> QED
      BY <1>9, <2>1, <2>2, <2>3, <2>4, <2>5, AlertsLeftBehind
  <1>11. TotalToCome'
    BY <1>2, <1>9, TotalOnTheWay
  <1>12. SupportInformed(p)' /\ SupportAsRead(p)'
    <2>1. pc'[p] = "total_count" /\ task'[p] = task[p]
      BY <1>1, <1>4 DEF Goto, TopicKept
    <2> QED
      BY <1>3, <2>1 DEF SupportInformed, SupportAsRead
  <1> QED
    BY <1>3, <1>4, <1>7, <1>8, <1>9, <1>10, <1>11, <1>12, MessageStepKept

\* A message is read.  The message of an administrator counts for nothing.
LEMMA MarkReadKept ==
    ASSUME TopicKept, SupportAlone, topic = "support", topic' = topic, NEW p \in Procs,
           raced \subseteq raced', MarkRead(p)
    PROVE  SupportAlone'
  <1>1. /\ pc[p] = "read_update" /\ isRead' = isRead \cup {task[p].message}
        /\ UNCHANGED <<conversations, messageIn, fromAdmin, authCodes, supportShown>>
    BY DEF MarkRead
  <1>2. pc[p] \in MessageLabels
    BY <1>1 DEF MessageLabels
  <1>3. /\ task[p] \in Tasks /\ task[p].conv \in Conversations
        /\ MessagesOK /\ ShownOK /\ SupportInformed(p)
    BY <1>2, MessageHeld
  <1>4. task[p].message \in Sent
    BY <1>1, <1>3 DEF SupportInformed
  <1>5. /\ UNCHANGED <<conversations, messageIn, fromAdmin, authCodes, acceptedAgain>>
        /\ UNCHANGED <<messageIn, fromAdmin, alerts>>
        /\ UNCHANGED <<alerts, shownTotal, unannounced>>
        /\ unannounced' = unannounced /\ shownTotal' = shownTotal
        /\ messageIn' = messageIn /\ fromAdmin' = fromAdmin
    BY <1>1 DEF supportShown
  <1>6. MessagesOK' /\ ShownOK'
    <2>1. MessagesOK'
      BY <1>1, <1>3, <1>4, <1>5 DEF MessagesOK, Sent
    <2> QED
      BY <1>5, <2>1, SupportTablesKept
  <1>7. CASE ReaderIsAdmin(task[p].message)
    <2>1. Goto(p, "total_count") /\ task' = task
      BY <1>7 DEF MarkRead
    <2>2. Moves(p, task[p], "total_count")
      BY <2>1 DEF Goto, Moves, SupportAlone
    <2>3. AlertsApart' /\ AlertToCome'
      BY <1>1, <1>5, <2>2, AlertsLeftAlone
    <2>4. TotalToCome'
      BY <1>2, <2>2, TotalOnTheWay
    <2>5. SupportInformed(p)' /\ SupportAsRead(p)'
      <3>1. pc'[p] = "total_count" /\ task'[p] = task[p]
        BY <2>1 DEF Goto, TopicKept
      <3> QED
        BY <1>3, <3>1 DEF SupportInformed, SupportAsRead
    <2> QED
      BY <1>3, <1>5, <1>6, <2>2, <2>3, <2>4, <2>5, MessageStepKept
  <1>8. CASE ~ReaderIsAdmin(task[p].message)
    <2>1. SupportDone(p)
      BY <1>8 DEF MarkRead
    <2>2. /\ NoTask \in Tasks /\ Moves(p, NoTask, "idle")
          /\ SupportInformed(p)' /\ SupportAsRead(p)'
      BY <2>1, NoTaskHeld
    <2>3. AlertsApart' /\ AlertToCome'
      BY <1>1, <1>5, <2>2, AlertsLeftAlone
    <2>4. UnreadForAdmin' = UnreadForAdmin
      <3>1. Sent' \ (fromAdmin' \cup isRead') = Sent \ (fromAdmin \cup isRead)
        BY <1>1, <1>5, <1>8 DEF ReaderIsAdmin, Sent
      <3> QED
        BY <3>1 DEF UnreadForAdmin
    <2>5. TotalToCome'
      <3>1. ASSUME <<"support", "total">> \notin raced', unannounced' = {}
            PROVE  shownTotal' = UnreadForAdmin'
        BY <1>1, <1>5, <2>4, <3>1, TotalRight
      <3> QED
        BY <1>2, <2>2, <3>1, TotalSettled
    <2> QED
      BY <1>5, <1>6, <2>2, <2>3, <2>5, MessageStepKept
  <1> QED
    BY <1>7, <1>8

\* The total is counted, and is right until it is sent.
LEMMA CountTotalKept ==
    ASSUME TopicKept, SupportAlone, topic = "support", topic' = topic, NEW p \in Procs,
           raced \subseteq raced', CountTotal(p)
    PROVE  SupportAlone'
  <1>1. /\ pc[p] = "total_count" /\ UNCHANGED <<supportTables, supportShown>>
        /\ Work(p, [task[p] EXCEPT !.count = UnreadForAdmin], "total_emit")
    BY DEF CountTotal
  <1>2. pc[p] \in MessageLabels
    BY <1>1 DEF MessageLabels
  <1>3. task[p] \in Tasks /\ task[p].conv \in Conversations /\ MessagesOK
    BY <1>2, MessageHeld
  <1> DEFINE t == [task[p] EXCEPT !.count = UnreadForAdmin]
  <1>4. /\ t \in Tasks /\ t.conv = task[p].conv /\ t.count = UnreadForAdmin
        /\ Moves(p, t, "total_emit")
    BY <1>1, <1>3, UnreadIsNat DEF Tasks, Work, Goto, Moves
  <1> HIDE DEF t
  <1>5. /\ UNCHANGED <<conversations, messageIn, fromAdmin, authCodes, acceptedAgain>>
        /\ UNCHANGED <<messageIn, fromAdmin, alerts>>
        /\ UNCHANGED <<alerts, shownTotal, unannounced>> /\ UNCHANGED messages
        /\ unannounced' = unannounced
    BY <1>1 DEF supportTables, supportShown, messages
  <1>6. MessagesOK' /\ ShownOK'
    BY <1>5, SupportTablesKept
  <1>7. AlertsApart' /\ AlertToCome'
    BY <1>1, <1>4, <1>5, AlertsLeftAlone
  <1>8. pc'[p] = "total_emit" /\ task'[p] = t /\ \A q \in Procs \ {p} : pc'[q] = pc[q]
    BY <1>4 DEF Moves, TopicKept, SupportAlone
  <1>9. TotalToCome'
    <2>1. UnreadForAdmin' = UnreadForAdmin
      BY <1>5 DEF UnreadForAdmin, Sent, messages
    <2>2. <<"support", "total">> \notin raced' =>
              \A q \in Procs : pc[q] \in MessageLabels => q = p
      BY <1>2, OnlyOneOnItsWay
    <2> QED
      BY <1>4, <1>8, <2>1, <2>2 DEF TotalToCome, MessageLabels
  <1>10. SupportInformed(p)' /\ SupportAsRead(p)'
    BY <1>3, <1>4, <1>8 DEF SupportInformed, SupportAsRead
  <1> QED
    BY <1>4, <1>5, <1>6, <1>7, <1>9, <1>10, MessageStepKept

\* The total is sent.
LEMMA EmitTotalKept ==
    ASSUME TopicKept, SupportAlone, topic = "support", topic' = topic, NEW p \in Procs,
           raced \subseteq raced', EmitTotal(p)
    PROVE  SupportAlone'
  <1>1. /\ pc[p] = "total_emit" /\ shownTotal' = task[p].count /\ SupportDone(p)
        /\ UNCHANGED <<supportTables, alerts, unannounced, acceptedAgain>>
    BY DEF EmitTotal
  <1>2. pc[p] \in MessageLabels
    BY <1>1 DEF MessageLabels
  <1>3. task[p] \in Tasks /\ MessagesOK /\ ShownOK /\ TotalToCome
    BY <1>2, MessageHeld
  <1>4. /\ UNCHANGED <<conversations, messageIn, fromAdmin, authCodes, acceptedAgain>>
        /\ UNCHANGED <<messageIn, fromAdmin, alerts>> /\ UNCHANGED messages
        /\ unannounced' = unannounced /\ alerts' = alerts
    BY <1>1 DEF supportTables, messages
  <1>5. MessagesOK'
    BY <1>4, SupportTablesKept
  <1>6. ShownOK'
    <2>1. task[p].count \in Nat
      BY <1>3 DEF Tasks
    <2> QED
      BY <1>1, <1>3, <1>4, <2>1 DEF ShownOK
  <1>7. /\ NoTask \in Tasks /\ Moves(p, NoTask, "idle")
        /\ SupportInformed(p)' /\ SupportAsRead(p)'
    BY <1>1, NoTaskHeld
  <1>8. AlertsApart' /\ AlertToCome'
    BY <1>1, <1>4, <1>7, AlertsLeftAlone
  <1>9. TotalToCome'
    <2>1. UnreadForAdmin' = UnreadForAdmin
      BY <1>4 DEF UnreadForAdmin, Sent, messages
    <2>2. <<"support", "total">> \notin raced' => shownTotal' = UnreadForAdmin'
      BY <1>1, <1>3, <2>1 DEF TotalToCome
    <2> QED
      BY <1>2, <1>7, <2>2, TotalSettled
  <1> QED
    BY <1>4, <1>5, <1>6, <1>7, <1>8, <1>9, MessageStepKept

\* A handler that fails on the way leaves its conversation unannounced.
LEMMA SupportHandlerFailsKept ==
    ASSUME TopicKept, SupportAlone, topic = "support", topic' = topic, NEW p \in Procs,
           raced \subseteq raced', SupportHandlerFails(p)
    PROVE  SupportAlone'
  <1>1. /\ SupportDone(p)
        /\ unannounced' = unannounced \cup {k \in {task[p].conv} : pc[p] \in OnItsWay}
        /\ UNCHANGED <<supportTables, alerts, shownTotal, acceptedAgain>>
    BY DEF SupportHandlerFails, OnItsWay
  <1>2. /\ UNCHANGED <<conversations, messageIn, fromAdmin, authCodes, acceptedAgain>>
        /\ UNCHANGED <<messageIn, fromAdmin, alerts>> /\ UNCHANGED messages
        /\ UNCHANGED conversations /\ UNCHANGED <<authCodes, acceptedAgain>>
        /\ alerts' = alerts /\ unannounced \subseteq unannounced' /\ shownTotal' = shownTotal
    BY <1>1 DEF supportTables, messages
  <1>3. MessagesOK' /\ ConversationsOK' /\ CodesOK'
    BY <1>2, SupportTablesKept
  <1>4. /\ NoTask \in Tasks /\ Moves(p, NoTask, "idle")
        /\ SupportInformed(p)' /\ SupportAsRead(p)'
    BY <1>1, NoTaskHeld
  <1>5. CASE pc[p] \notin OnItsWay
    <2>1. unannounced' = unannounced
      BY <1>1, <1>5
    <2>2. UNCHANGED <<messages, alerts, shownTotal, unannounced>>
      BY <1>2, <2>1
    <2>3. LeavesSupport(p)
      BY <1>2, MessageLeaves
    <2> QED
      BY <1>1, <1>3, <1>5, <2>2, <2>3, NoMessageDoneKept
  <1>6. CASE pc[p] \in OnItsWay
    <2>1. pc[p] \in MessageLabels
      BY <1>6 DEF OnItsWay
    <2>2. ShownOK /\ task[p].conv \in Conversations
      BY <2>1, MessageHeld
    <2>3. unannounced' = unannounced \cup {task[p].conv}
      BY <1>1, <1>6
    <2>4. ShownOK'
      BY <1>2, <2>2, <2>3 DEF ShownOK
    <2>5. AlertsApart' /\ AlertToCome'
      <3>1. CASE pc[p] \in {"message_count", "message_alert"}
        BY <1>2, <1>4, <2>3, <3>1, AlertsLeftBehind
      <3>2. CASE pc[p] \notin {"message_count", "message_alert"}
        BY <1>2, <1>4, <3>2, AlertsLeftAlone
      <3> QED
        BY <3>1, <3>2
    <2>6. TotalToCome'
      BY <1>4, <2>1, <2>3, TotalSettled
    <2> QED
      BY <1>2, <1>3, <1>4, <2>4, <2>5, <2>6, MessageStepKept
  <1> QED
    BY <1>5, <1>6

\* Every step of the specification.
LEMMA SupportAloneKept ==
    ASSUME TopicKept, SupportAlone, BackofficeStep
    PROVE  SupportAlone'
  <1>1. topic' = topic /\ raced \subseteq raced'
    BY TopicKeptByStep
  <1>2. ASSUME UNCHANGED supportState, topic # "support"
        PROVE  SupportAlone'
    <2>1. /\ UNCHANGED conversations /\ UNCHANGED messages /\ task' = task
          /\ UNCHANGED <<alerts, shownTotal, unannounced>>
          /\ UNCHANGED <<authCodes, acceptedAgain>>
      BY <1>2 DEF supportState, supportTables, supportShown
    <2>2. ConversationsOK' /\ MessagesOK' /\ ShownOK' /\ CodesOK'
      BY <1>1, <2>1, SupportTablesKept
    <2>3. Sent' = {} /\ shownTotal' = 0
      BY <1>2, <2>1 DEF SupportAlone, Sent, messages
    <2> QED
      BY <1>1, <1>2, <2>1, <2>2, <2>3 DEF SupportAlone
  <1>3. CASE UNCHANGED <<backofficeVars, raced>>
    <2>1. /\ pc' = pc /\ raced' = raced /\ UNCHANGED supportState
      BY <1>3 DEF backofficeVars, backofficeState
    <2>2. /\ convOwner' = convOwner /\ convStatus' = convStatus /\ messageIn' = messageIn
          /\ fromAdmin' = fromAdmin /\ isRead' = isRead /\ codeOf' = codeOf
          /\ codeStatus' = codeStatus /\ alerts' = alerts /\ shownTotal' = shownTotal
          /\ unannounced' = unannounced /\ acceptedAgain' = acceptedAgain /\ task' = task
      BY <2>1 DEF supportState, supportTables, conversations, messages, authCodes, supportShown
    <2>3. CASE topic # "support"
      BY <1>2, <2>1, <2>3
    <2>4. CASE topic = "support"
      <3>1. ConversationsOK' /\ MessagesOK' /\ ShownOK' /\ CodesOK'
        BY <1>1, <2>2, SupportTablesKept DEF conversations, messages, authCodes
      <3>2. Sent' = Sent /\ UnreadForAdmin' = UnreadForAdmin
        BY <2>2 DEF UnreadForAdmin, Sent
      <3>3. \A k \in Conversations : FromCustomer(k)' = FromCustomer(k)
        BY <2>2, <3>2 DEF FromCustomer
      <3>4. \A q \in Procs : SupportInformed(q)' /\ SupportAsRead(q)'
        BY <2>1, <2>2, <2>4, <3>2 DEF SupportAlone, SupportInformed, SupportAsRead,
           IsConversation, OpenOf
      <3>5. /\ \A q \in Procs, k \in Conversations : Alerting(q, k)' <=> Alerting(q, k)
            /\ \A k \in Conversations : Claimed(k)' <=> Claimed(k)
        BY <2>1, <2>2 DEF Alerting, Claimed
      <3>6. AlertsApart'
        BY <2>1, <2>2, <2>4, <3>3, <3>5 DEF SupportAlone, AlertsApart
      <3>7. \A k \in Conversations : FirstOnItsWay(k) => FirstOnItsWay(k)'
        BY <2>1, <2>2, <3>3, <3>5 DEF FirstOnItsWay
      <3>8. AlertToCome'
        BY <2>1, <2>2, <2>4, <3>3, <3>7 DEF SupportAlone, AlertToCome
      <3>9. TotalToCome'
        BY <2>1, <2>2, <2>4, <3>2 DEF SupportAlone, TotalToCome
      <3> QED
        BY <1>1, <2>2, <2>4, <3>1, <3>4, <3>6, <3>8, <3>9 DEF SupportAlone
    <2> QED
      BY <2>3, <2>4
  <1>4. ASSUME NEW p \in Procs, topic = "support", SupportNext(p)
        PROVE  SupportAlone'
    <2>1. CASE SupportRequest(p)
      BY <1>1, <1>4, <2>1, SupportRequestKept
    <2>2. CASE CreateConversation(p) \/ SaveStatus(p)
      BY <1>1, <1>4, <2>2, ConversationStepKept
    <2>3. CASE CreateCode(p) \/ ReplaceCode(p) \/ SaveExpired(p) \/ SaveUsed(p)
      BY <1>1, <1>4, <2>3, CodeStepKept
    <2>4. CASE InsertMessage(p)
      BY <1>1, <1>4, <2>4, InsertMessageKept
    <2>5. CASE CountMessages(p)
      BY <1>1, <1>4, <2>5, CountMessagesKept
    <2>6. CASE AlertAdmins(p)
      BY <1>1, <1>4, <2>6, AlertAdminsKept
    <2>7. CASE MarkRead(p)
      BY <1>1, <1>4, <2>7, MarkReadKept
    <2>8. CASE CountTotal(p)
      BY <1>1, <1>4, <2>8, CountTotalKept
    <2>9. CASE EmitTotal(p)
      BY <1>1, <1>4, <2>9, EmitTotalKept
    <2>10. CASE SupportHandlerFails(p)
      BY <1>1, <1>4, <2>10, SupportHandlerFailsKept
    <2> QED
      BY <1>4, <2>1, <2>2, <2>3, <2>4, <2>5, <2>6, <2>7, <2>8, <2>9, <2>10
      DEF SupportNext, SupportStep
  <1>5. CASE BackofficeNext
    BY <1>2, <1>4, <1>5 DEF BackofficeNext, AdminsNext, SettingsNext, NotificationsNext
  <1> QED
    BY <1>3, <1>5 DEF BackofficeStep

\* The first state.
LEMMA SupportAtStart ==
    ASSUME BackofficeStart
    PROVE  SupportAlone
  <1>1. /\ SupportInit /\ raced = {} /\ pc = [p \in Procs |-> "idle"]
    BY DEF BackofficeStart, CallsStart, RequestsInit
  <1>2. Sent = {} /\ \A k \in Conversations : FromCustomer(k) = {}
    BY <1>1 DEF SupportInit, Sent, FromCustomer
  <1>3. ConversationsOK /\ MessagesOK /\ ShownOK /\ CodesOK
    BY <1>1, <1>2, FS_EmptySet DEF SupportInit, ConversationsOK, MessagesOK, ShownOK, CodesOK,
       IsConversation
  <1>4. NoTask \in Tasks
    BY DEF NoTask, Tasks
  <1>5. \A p \in Procs : SupportInformed(p) /\ SupportAsRead(p)
    BY <1>1 DEF SupportInit, SupportInformed, SupportAsRead, MessageLabels
  <1>6. \A k \in Conversations : ~Claimed(k)
    BY <1>1 DEF SupportInit, Claimed, Alerting
  <1>7. AlertsApart /\ AlertToCome
    BY <1>1, <1>2, <1>6 DEF AlertsApart, AlertToCome, Alerting
  <1>8. TotalToCome
    <2>1. UnreadForAdmin = 0
      <3>1. Sent \ (fromAdmin \cup isRead) = {}
        BY <1>2
      <3> QED
        BY <3>1, FS_EmptySet DEF UnreadForAdmin
    <2> QED
      BY <1>1, <2>1 DEF SupportInit, TotalToCome
  <1> QED
    BY <1>1, <1>2, <1>3, <1>4, <1>5, <1>7, <1>8 DEF SupportInit, SupportAlone

\* What a step that opens a conversation found.
LEMMA OpenedWhenNoneOpen ==
    ASSUME TopicKept, SupportAlone, BackofficeStep, NEW k \in Conversations,
           convStatus[k] = "none", convStatus'[k] # "none", convOwner'[k] \notin raced'
    PROVE  OpenOf(convOwner'[k]) = {}
  <1>1. raced \subseteq raced'
    BY TopicKeptByStep
  <1>2. ~UNCHANGED convStatus
    OBVIOUS
  <1>3. ~UNCHANGED supportState
    BY <1>2 DEF supportState, supportTables, conversations
  <1>4. BackofficeNext
    BY <1>3 DEF BackofficeStep, backofficeVars, backofficeState
  <1>5. PICK p \in Procs : topic = "support" /\ SupportNext(p)
    BY <1>3, <1>4 DEF BackofficeNext, AdminsNext, SettingsNext, NotificationsNext
  <1>6. SupportInformed(p) /\ SupportAsRead(p) /\ ConversationsOK
    BY <1>5 DEF SupportAlone
  <1>7. CreateConversation(p) \/ SaveStatus(p)
    <2>1. ~UNCHANGED supportTables /\ ~UNCHANGED conversations
      BY <1>2 DEF supportTables, conversations
    <2>2. ~SupportRequest(p)
      BY <2>1 DEF SupportRequest, FindConversation, UpdateStatus, SendMessage, ReadMessage,
             VerifyCode, TakeCode, GenerateCode
    <2> QED
      BY <1>5, <2>1, <2>2 DEF SupportNext, SupportStep, InsertMessage, CountMessages,
         AlertAdmins, MarkRead, CountTotal, EmitTotal, CreateCode, ReplaceCode, SaveExpired,
         SaveUsed, SupportHandlerFails
  <1>8. ~SaveStatus(p)
    BY <1>6 DEF SaveStatus, SupportInformed, IsConversation, ConversationsOK
  <1>9. PICK j \in Conversations :
          /\ convOwner' = [convOwner EXCEPT ![j] = task[p].customer]
          /\ convStatus' = [convStatus EXCEPT ![j] = "open"]
    BY <1>7, <1>8 DEF CreateConversation
  <1>10. j = k
    BY <1>6, <1>9 DEF ConversationsOK
  <1>11. convOwner'[k] = task[p].customer
    BY <1>6, <1>9, <1>10 DEF ConversationsOK
  <1>12. pc[p] = "conversation_create"
    BY <1>7, <1>8 DEF CreateConversation
  <1>13. OpenOf(task[p].customer) = {}
    BY <1>1, <1>6, <1>11, <1>12 DEF SupportAsRead
  <1> QED
    BY <1>11, <1>13

\* What the four invariants say of a state.
LEMMA SupportPromised ==
    ASSUME TopicKept, SupportAlone
    PROVE  SupportInv /\ TotalShownUnlessRaced
  <1>1. ConversationsOK /\ MessagesOK /\ ShownOK /\ CodesOK /\ task \in [Procs -> Tasks]
    BY DEF SupportAlone
  <1>2. SupportTypeOK
    <2>1. alerts \in [Conversations -> Nat]
      BY <1>1 DEF ShownOK
    <2> QED
      BY <1>1, <2>1 DEF SupportTypeOK, ConversationsOK, MessagesOK, ShownOK, CodesOK, Tasks
  <1>3. CodeAcceptedOnceUnlessRaced
    BY <1>1 DEF CodesOK, CodeAcceptedOnceUnlessRaced
  <1>4. AlertedOnce
    <2>1. \A k \in Conversations : alerts[k] <= 1
      BY <1>1 DEF ShownOK
    <2>2. ASSUME NEW k \in Conversations, FromCustomer(k) # {}, k \notin raced \cup unannounced,
                 \A p \in Procs : task[p].conv # k
          PROVE  alerts[k] = 1
      <3>1. topic = "support"
        BY <2>2 DEF SupportAlone, FromCustomer
      <3>2. ~FirstOnItsWay(k)
        BY <2>2 DEF FirstOnItsWay, Alerting
      <3> QED
        BY <2>2, <3>1, <3>2 DEF SupportAlone, AlertToCome
    <2> QED
      BY <2>1, <2>2 DEF AlertedOnce
  <1>5. TotalShownUnlessRaced
    <2> SUFFICES ASSUME <<"support", "total">> \notin raced, unannounced = {},
                        \A p \in Procs : pc[p] \notin MessageLabels
                 PROVE  shownTotal = UnreadForAdmin
      BY DEF TotalShownUnlessRaced
    <2>1. CASE topic = "support"
      BY <2>1 DEF SupportAlone, TotalToCome, MessageLabels
    <2>2. CASE topic # "support"
      <3>1. Sent \ (fromAdmin \cup isRead) = {} /\ shownTotal = 0
        BY <2>2 DEF SupportAlone
      <3> QED
        BY <3>1, FS_EmptySet DEF UnreadForAdmin
    <2> QED
      BY <2>1, <2>2
  <1> QED
    BY <1>2, <1>3, <1>4, <1>5 DEF SupportInv

-----------------------------------------------------------------------------
(* Theorems *)

BackofficeAlone ==
    TopicKept /\ AdminsAlone /\ SettingsAlone /\ SupportAlone /\ NotificationsAlone

\* The inductive invariant holds in every behaviour of the back office.
LEMMA BackofficeAloneInvariant == BackofficeSpec => []BackofficeAlone
  <1>1. BackofficeStart => BackofficeAlone
    BY TopicKeptAtStart, AdminsAtStart, SettingsAtStart, SupportAtStart,
       NotificationsAtStart DEF BackofficeAlone
  <1>2. BackofficeAlone /\ BackofficeStep => BackofficeAlone'
    BY TopicKeptByStep, AdminsAloneKept, SettingsAloneKept, SupportAloneKept,
       NotificationsAloneKept DEF BackofficeAlone
  <1> QED
    BY <1>1, <1>2, PTL DEF BackofficeSpec, BackofficeStep

\* The accounts of administrators are well-formed, and a one-time password
\* changes a password once while it is the current one, unless two handlers
\* worked on the row at once.
THEOREM AdministratorsInvariant == BackofficeSpec => []AdminsInv
  <1>1. BackofficeAlone => AdminsInv
    BY DEF BackofficeAlone, AdminsAlone
  <1> QED
    BY <1>1, BackofficeAloneInvariant, PTL

\* save() of an administrator changes what it was asked to change, whatever
\* interleaves, and suspendAdmin and deleteAdmin disable no super admin unless
\* two handlers worked on the row at once.
THEOREM AdministratorRowsKept == BackofficeSpec => AdminRowsKeptUnlessRaced
  <1> DEFINE rowsKept == \A a \in Administrators :
                            OnlyAskedChanges(a) /\ (a \notin raced' => SuperAdminKept(a))
  <1>1. BackofficeAlone /\ BackofficeStep => rowsKept
    BY AdminRowKept DEF BackofficeAlone
  <1> HIDE DEF rowsKept
  <1>2. BackofficeSpec => [][rowsKept]_<<role, active, raced>>
    BY <1>1, BackofficeAloneInvariant, PTL DEF BackofficeSpec, BackofficeStep
  <1> QED
    BY <1>2 DEF AdminRowsKeptUnlessRaced, rowsKept

\* There is one row of settings, with what updates of one category reported
\* as saved, unless two handlers changed the same thing at once.
THEOREM SettingsInvariant == BackofficeSpec => []SettingsInv
  <1>1. BackofficeAlone => SettingsInv
    BY DEF BackofficeAlone, SettingsAlone
  <1> QED
    BY <1>1, BackofficeAloneInvariant, PTL

\* An update that gives a maximum leaves it above the minimum, unless two
\* updates of the limits met.
THEOREM LimitsApart == BackofficeSpec => MaximumAboveMinimumUnlessRaced
  <1> DEFINE apart ==
        ~Met("row")' /\ ~Met("limits")' =>
            \A p \in Procs :
                Given(update[p].limits.max) /\ <<minPayout, maxPayout>>' # <<minPayout, maxPayout>>
                   => \A r \in rows : maxPayout'[r] > minPayout'[r]
  <1>1. BackofficeAlone /\ BackofficeStep => apart
    BY MaximumKeptAbove DEF BackofficeAlone
  <1> HIDE DEF apart
  <1>2. BackofficeSpec => [][apart]_<<minPayout, maxPayout, raced>>
    BY <1>1, BackofficeAloneInvariant, PTL DEF BackofficeSpec, BackofficeStep
  <1> QED
    BY <1>2 DEF MaximumAboveMinimumUnlessRaced, apart

\* The administrators are alerted of a conversation once at most, whatever
\* interleaves; a customer who has written was announced, and a code is
\* accepted once, unless two handlers met or one failed.
THEOREM SupportInvariant == BackofficeSpec => []SupportInv
  <1>1. BackofficeAlone => SupportInv
    BY SupportPromised DEF BackofficeAlone
  <1> QED
    BY <1>1, BackofficeAloneInvariant, PTL

\* Between requests the administrators see the number of unread messages,
\* unless two messages met, one was uploaded, or a handler or an alert failed.
THEOREM TotalShown == BackofficeSpec => []TotalShownUnlessRaced
  <1>1. BackofficeAlone => TotalShownUnlessRaced
    BY SupportPromised DEF BackofficeAlone
  <1> QED
    BY <1>1, BackofficeAloneInvariant, PTL

\* No conversation is created for a customer who has an open one, unless two
\* handlers worked for the customer at once.  Nothing is said of a conversation
\* that an administrator reopens.
THEOREM OpenedOnce == BackofficeSpec => OpenedOnceUnlessRaced
  <1> DEFINE once == \A k \in Conversations :
          /\ convStatus[k] = "none" /\ convStatus'[k] # "none"
          /\ convOwner'[k] \notin raced'
          => OpenOf(convOwner'[k]) = {}
  <1>1. BackofficeAlone /\ BackofficeStep => once
    BY OpenedWhenNoneOpen DEF BackofficeAlone
  <1> HIDE DEF once
  <1>2. BackofficeSpec => [][once]_<<convOwner, convStatus, raced>>
    BY <1>1, BackofficeAloneInvariant, PTL DEF BackofficeSpec, BackofficeStep
  <1> QED
    BY <1>2 DEF OpenedOnceUnlessRaced, once

\* An answer of broadcastAnnouncement or of a notify method stands for one row
\* of its own for each recipient it addressed, whatever interleaves.
THEOREM AnnouncementsComplete == BackofficeSpec => []AnsweredWhenAllNotified
  <1>1. BackofficeAlone => AnsweredWhenAllNotified
    BY DEF BackofficeAlone, NotificationsAlone
  <1> QED
    BY <1>1, BackofficeAloneInvariant, PTL

=============================================================================
