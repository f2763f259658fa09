------------------------------- MODULE Support -------------------------------
(***************************************************************************)
(* SupportService and SupportGateway: conversations of users and guests    *)
(* with the administrators, their messages, the count of unread messages   *)
(* that is broadcast to the administrators, the alert that a conversation  *)
(* has begun, and the auth codes that administrators hand out.             *)
(*                                                                         *)
(* One type of conversation.  Messages, assignment and priority are not    *)
(* modelled beyond who sent a message and whether it is read.  A message   *)
(* or a read flag comes through the gateway, which broadcasts, or a        *)
(* message through the upload route, which does not.  The rooms that the   *)
(* gateway notes for users and administrators are never read.              *)
(***************************************************************************)
EXTENDS Calls, FiniteSets

CONSTANTS
    Customers,      \* users and guests
    NoCustomer,     \* a conversation that was never opened
    Conversations,  \* rows that support_conversations may come to have
    NoConversation, \* a handler without a conversation
    Messages,       \* rows that support_messages may come to have
    NoMessage,      \* a handler without a message
    AuthRows,       \* rows that onboarding_auth_codes may come to have
    NoAuthRow,      \* a handler without such a row
    AuthCodes,      \* codes, drawn here or by PayPal
    NoAuthCode      \* no code

ASSUME SupportAssumption ==
    /\ {NoCustomer, NoConversation, NoAuthRow}
          \cap (Customers \cup Conversations \cup AuthRows) = {}
    /\ NoMessage \notin Messages
    /\ NoAuthCode \notin AuthCodes
    /\ Customers \cap (Conversations \cup AuthRows) = {}
    /\ Conversations \cap AuthRows = {}

VARIABLES
    convOwner,      \* user_id or guest_id
    convStatus,     \* status, "none" without a row
    messageIn,      \* conversation_id of a message
    fromAdmin,      \* messages whose sender is an administrator
    isRead,         \* messages with is_read
    alerts,         \* alerts[k]: how often the administrators were alerted
    shownTotal,     \* the count of unread messages last sent to them
    codeOf,         \* code of a row of onboarding_auth_codes
    codeStatus,     \* and its status, "none" without a row
    task,           \* what a handler works on
    unannounced,    \* conversations whose message was uploaded, or whose
                    \* handler failed to alert or to broadcast
    acceptedAgain   \* rows of auth codes that were accepted twice

conversations == <<convOwner, convStatus>>
messages == <<messageIn, fromAdmin, isRead>>
authCodes == <<codeOf, codeStatus>>
supportTables == <<conversations, messages, authCodes>>
supportShown == <<alerts, shownTotal, unannounced, acceptedAgain>>
supportState == <<supportTables, supportShown, task>>

\* asked: the status of an update, or the way a message came.  count: the
\* total about to be broadcast.  mailed: the code that PayPal has mailed.
NoTask == [customer |-> NoCustomer, conv |-> NoConversation, message |-> NoMessage,
           row |-> NoAuthRow, asked |-> "none", count |-> 0, mailed |-> NoAuthCode]

ConvStatuses == {"open", "closed", "resolved"}
CodeStatuses == {"pending", "used", "expired"}

SupportInit ==
    /\ convOwner = [k \in Conversations |-> NoCustomer]
    /\ convStatus = [k \in Conversations |-> "none"]
    /\ messageIn = [m \in Messages |-> NoConversation]
    /\ fromAdmin = {} /\ isRead = {}
    /\ alerts = [k \in Conversations |-> 0]
    /\ shownTotal = 0
    /\ codeOf = [r \in AuthRows |-> NoAuthCode]
    /\ codeStatus = [r \in AuthRows |-> "none"]
    /\ task = [p \in Procs |-> NoTask]
    /\ unannounced = {} /\ acceptedAgain = {}

IsConversation(k) == convStatus[k] # "none"
Sent == {m \in Messages : messageIn[m] # NoConversation}

\* calculateTotalUnreadCountForAdmin.
UnreadForAdmin == Cardinality(Sent \ (fromAdmin \cup isRead))

FromCustomer(k) == {m \in Sent \ fromAdmin : messageIn[m] = k}

Work(p, t, label) == task' = [task EXCEPT ![p] = t] /\ Goto(p, label)

SupportDone(p) == Work(p, NoTask, "idle")

-----------------------------------------------------------------------------
(* getOrCreateUserConversation, getOrCreateGuestConversation *)

OpenOf(x) == {k \in Conversations : convOwner[k] = x /\ convStatus[k] = "open"}

\* Mutant: a conversation is opened whatever findOne found.
FindConversationNever(p, x) ==
    /\ Idle(p)
    /\ Work(p, [NoTask EXCEPT !.customer = x], "conversation_create")
    /\ UNCHANGED <<supportTables, supportShown>>

\* SupportConversation.findOne: an open one is answered.
FindConversation(p, x) ==
    /\ Idle(p)
    /\ OpenOf(x) = {}
    /\ Work(p, [NoTask EXCEPT !.customer = x], "conversation_create")
    /\ UNCHANGED <<supportTables, supportShown>>

CreateConversation(p) ==
    /\ pc[p] = "conversation_create"
    /\ \E k \in Conversations :
          /\ ~IsConversation(k)
          /\ convOwner' = [convOwner EXCEPT ![k] = task[p].customer]
          /\ convStatus' = [convStatus EXCEPT ![k] = "open"]
    /\ SupportDone(p)
    /\ UNCHANGED <<messages, authCodes, supportShown>>

\* updateConversationStatus, with the administrator who answers it.
UpdateStatus(p, k, status) ==
    /\ Idle(p)
    /\ IsConversation(k) /\ convStatus[k] # status
    /\ Work(p, [NoTask EXCEPT !.conv = k, !.customer = convOwner[k], !.asked = status],
            "status_save")
    /\ UNCHANGED <<supportTables, supportShown>>

SaveStatus(p) ==
    /\ pc[p] = "status_save"
    /\ convStatus' = [convStatus EXCEPT ![task[p].conv] = task[p].asked]
    /\ SupportDone(p)
    /\ UNCHANGED <<convOwner, messages, authCodes, supportShown>>

-----------------------------------------------------------------------------
(* createMessage: handleMessage of the gateway, uploadMessageFile *)

\* SupportConversation.findByPk.  Its status is not looked at.
SendMessage(p, k, way) ==
    /\ Idle(p)
    /\ IsConversation(k)
    /\ Work(p, [NoTask EXCEPT !.conv = k, !.asked = way], "message_insert")
    /\ UNCHANGED <<supportTables, supportShown>>

\* The INSERT; the time of the conversation follows in a later statement.
InsertMessage(p) ==
    /\ pc[p] = "message_insert"
    /\ \E m \in Messages \ Sent :
          /\ messageIn' = [messageIn EXCEPT ![m] = task[p].conv]
          /\ fromAdmin' = IF task[p].asked = "admin" THEN fromAdmin \cup {m} ELSE fromAdmin
          /\ Work(p, [task[p] EXCEPT !.message = m], "message_count")
    /\ UNCHANGED <<conversations, isRead, authCodes, supportShown>>

\* Mutant: the conversation's messages so far, the answers included.
FirstInConversationAny(k) == Cardinality({m \in Sent : messageIn[m] = k}) = 1

\* isFirstUserOrGuestMessage.
FirstInConversation(k) == Cardinality(FromCustomer(k)) = 1

\* The SELECT that counts the customer's messages.  The upload route has
\* its answer then, and so has a message of an administrator.
CountMessages(p) ==
    LET k == task[p].conv IN
    /\ pc[p] = "message_count"
    /\ \/ /\ task[p].asked = "customer"
          /\ Goto(p, IF FirstInConversation(k) THEN "message_alert" ELSE "total_count")
          /\ UNCHANGED <<task, supportShown>>
       \/ /\ task[p].asked = "admin"
          /\ SupportDone(p) /\ UNCHANGED supportShown
       \/ /\ task[p].asked = "upload"
          /\ SupportDone(p)
          /\ unannounced' = unannounced \cup {k}
          /\ UNCHANGED <<alerts, shownTotal, acceptedAgain>>
    /\ UNCHANGED supportTables

\* notifyAdminNewSupportMessage and the mail.  An error is logged and the
\* handler goes on, whether or not the administrators were notified before it.
AlertAdmins(p) ==
    LET k == task[p].conv IN
    /\ pc[p] = "message_alert"
    /\ \/ alerts' = [alerts EXCEPT ![k] = @ + 1] /\ unannounced' = unannounced
       \/ alerts' = alerts /\ unannounced' = unannounced \cup {k}
    /\ Goto(p, "total_count")
    /\ UNCHANGED <<supportTables, task, shownTotal, acceptedAgain>>

-----------------------------------------------------------------------------
(* markMessageAsRead: handleMessageRead of the gateway *)

\* SupportMessage.findByPk, then the UPDATE, then who it was that read it.
ReadMessage(p, m) ==
    /\ Idle(p)
    /\ m \in Sent
    /\ Work(p, [NoTask EXCEPT !.conv = messageIn[m], !.message = m], "read_update")
    /\ UNCHANGED <<supportTables, supportShown>>

\* Mutant: the sides are swapped.
ReaderIsSender(m) == m \in fromAdmin

\* The viewer is the other side: administrators read what customers send.
ReaderIsAdmin(m) == m \notin fromAdmin

MarkRead(p) ==
    /\ pc[p] = "read_update"
    /\ isRead' = isRead \cup {task[p].message}
    /\ IF ReaderIsAdmin(task[p].message)
         THEN Goto(p, "total_count") /\ UNCHANGED task
         ELSE SupportDone(p)
    /\ UNCHANGED <<conversations, messageIn, fromAdmin, authCodes, supportShown>>

\* The SELECT of the total; the broadcast follows when its answer arrives.
CountTotal(p) ==
    /\ pc[p] = "total_count"
    /\ Work(p, [task[p] EXCEPT !.count = UnreadForAdmin], "total_emit")
    /\ UNCHANGED <<supportTables, supportShown>>

EmitTotal(p) ==
    /\ pc[p] = "total_emit"
    /\ shownTotal' = task[p].count
    /\ SupportDone(p)
    /\ UNCHANGED <<supportTables, alerts, unannounced, acceptedAgain>>

-----------------------------------------------------------------------------
(* generateOnboardingAuthCode, storeRetrievedAuthCode, verifyOnboardingAuthCode *)

\* A code is looked for until one is free; storeRetrievedAuthCode comes with
\* the code that PayPal has mailed.
GenerateCode(p, mailed) ==
    /\ Idle(p)
    /\ Work(p, [NoTask EXCEPT !.mailed = mailed], "code_create")
    /\ UNCHANGED <<supportTables, supportShown>>

Free(c) == \A r \in AuthRows : codeOf[r] # c

\* OnboardingAuthCode.create: the code is unique.
CreateCode(p) ==
    /\ pc[p] = "code_create"
    /\ \E r \in AuthRows, c \in AuthCodes :
          /\ codeStatus[r] = "none" /\ Free(c)
          /\ codeOf' = [codeOf EXCEPT ![r] = c]
          /\ codeStatus' = [codeStatus EXCEPT ![r] = "pending"]
          /\ IF task[p].mailed = NoAuthCode
               THEN SupportDone(p)
               ELSE Work(p, [task[p] EXCEPT !.row = r], "code_replace")
    /\ UNCHANGED <<conversations, messages, supportShown>>

\* save() of the instance with the mailed code, which is unique too.
ReplaceCode(p) ==
    /\ pc[p] = "code_replace"
    /\ Free(task[p].mailed)
    /\ codeOf' = [codeOf EXCEPT ![task[p].row] = task[p].mailed]
    /\ SupportDone(p)
    /\ UNCHANGED <<conversations, messages, codeStatus, supportShown>>

TakeCode(p, r) ==
    /\ \E label \in {"code_expire", "code_use"} :
          Work(p, [NoTask EXCEPT !.row = r], label)
    /\ UNCHANGED <<supportTables, supportShown>>

\* findOne of a pending code, in time or too late.
VerifyCode(p, c) ==
    /\ Idle(p)
    /\ \E r \in AuthRows : codeOf[r] = c /\ codeStatus[r] = "pending" /\ TakeCode(p, r)

SaveExpired(p) ==
    /\ pc[p] = "code_expire"
    /\ codeStatus' = [codeStatus EXCEPT ![task[p].row] = "expired"]
    /\ SupportDone(p)
    /\ UNCHANGED <<conversations, messages, codeOf, supportShown>>

SaveUsed(p) ==
    LET r == task[p].row IN
    /\ pc[p] = "code_use"
    /\ codeStatus' = [codeStatus EXCEPT ![r] = "used"]
    /\ acceptedAgain' = acceptedAgain \cup {d \in {r} : codeStatus[r] # "pending"}
    /\ SupportDone(p)
    /\ UNCHANGED <<conversations, messages, codeOf, alerts, shownTotal, unannounced>>

-----------------------------------------------------------------------------
MessageLabels == {"message_insert", "message_count", "message_alert",
                  "read_update", "total_count", "total_emit"}
SupportLabels == MessageLabels \cup
    {"conversation_create", "status_save", "code_create", "code_replace",
     "code_expire", "code_use"}

\* The handler ends with an error.  One that has inserted or read a message
\* leaves the administrators with an old count.
SupportHandlerFails(p) ==
    /\ pc[p] \in SupportLabels
    /\ unannounced' = unannounced \cup
          {k \in {task[p].conv} : pc[p] \in MessageLabels \ {"message_insert", "read_update"}}
    /\ SupportDone(p)
    /\ UNCHANGED <<supportTables, alerts, shownTotal, acceptedAgain>>

SupportRequest(p) ==
    \/ \E x \in Customers : FindConversation(p, x)
    \/ \E k \in Conversations :
          \/ \E status \in ConvStatuses : UpdateStatus(p, k, status)
          \/ \E way \in {"customer", "admin", "upload"} : SendMessage(p, k, way)
    \/ \E m \in Messages : ReadMessage(p, m)
    \/ \E c \in AuthCodes : VerifyCode(p, c)
    \/ \E c \in AuthCodes \cup {NoAuthCode} : GenerateCode(p, c)

SupportStep(p) ==
    \/ CreateConversation(p) \/ SaveStatus(p)
    \/ InsertMessage(p) \/ CountMessages(p) \/ AlertAdmins(p)
    \/ MarkRead(p) \/ CountTotal(p) \/ EmitTotal(p)
    \/ CreateCode(p) \/ ReplaceCode(p) \/ SaveExpired(p) \/ SaveUsed(p)
    \/ SupportHandlerFails(p)

\* The rows that a handler works on, and the total of the administrators.
SupportWorksOn(p) ==
    ({task[p].customer, task[p].conv, task[p].row} \ {NoCustomer, NoConversation, NoAuthRow})
      \cup IF pc[p] \in MessageLabels THEN {<<"support", "total">>} ELSE {}

-----------------------------------------------------------------------------
(* Properties *)

SupportTypeOK ==
    /\ convOwner \in [Conversations -> Customers \cup {NoCustomer}]
    /\ convStatus \in [Conversations -> ConvStatuses \cup {"none"}]
    /\ messageIn \in [Messages -> Conversations \cup {NoConversation}]
    /\ fromAdmin \subseteq Sent /\ isRead \subseteq Sent
    /\ alerts \in [Conversations -> Nat] /\ shownTotal \in Nat
    /\ codeOf \in [AuthRows -> AuthCodes \cup {NoAuthCode}]
    /\ codeStatus \in [AuthRows -> CodeStatuses \cup {"none"}]
    /\ \A r, s \in AuthRows : codeOf[r] = codeOf[s] => r = s \/ codeOf[r] = NoAuthCode
    /\ task \in [Procs ->
          [customer : Customers \cup {NoCustomer}, conv : Conversations \cup {NoConversation},
           message : Messages \cup {NoMessage}, row : AuthRows \cup {NoAuthRow},
           asked : ConvStatuses \cup {"none", "customer", "admin", "upload"},
           count : Nat, mailed : AuthCodes \cup {NoAuthCode}]]
    /\ unannounced \subseteq Conversations /\ acceptedAgain \subseteq AuthRows

\* "If conversation is closed, creates a new one": no conversation is created
\* for a customer who has an open one, unless two handlers worked for the
\* customer at once.  There may be two open ones all the same, when an
\* administrator reopens an old one with updateConversationStatus.
OpenedOnceUnlessRaced ==
    [][\A k \in Conversations :
          /\ convStatus[k] = "none" /\ convStatus'[k] # "none"
          /\ convOwner'[k] \notin raced'
          => OpenOf(convOwner'[k]) = {}]_<<convOwner, convStatus, raced>>

\* "First user/guest message in conversation: persist admin notification":
\* the administrators are alerted of a conversation once at most, whatever
\* interleaves, and exactly once when its customer has written, unless two
\* messages met, one was uploaded, or a handler or the alert failed.
AlertedOnce ==
    \A k \in Conversations :
        /\ alerts[k] <= 1
        /\ /\ FromCustomer(k) # {} /\ k \notin raced \cup unannounced
           /\ \A p \in Procs : task[p].conv # k
           => alerts[k] = 1

\* Between requests the administrators see the number of unread messages,
\* unless two messages were on their way at once, one was uploaded, or a
\* handler or an alert failed after its statement.
TotalShownUnlessRaced ==
    /\ <<"support", "total">> \notin raced /\ unannounced = {}
    /\ \A p \in Procs : pc[p] \notin MessageLabels
    => shownTotal = UnreadForAdmin

\* An auth code is accepted once, and not after it was found expired,
\* unless two verifications met.
CodeAcceptedOnceUnlessRaced == acceptedAgain \subseteq raced

\* What a conversation tells the administrators, and what a code is worth.
SupportInv == SupportTypeOK /\ AlertedOnce /\ CodeAcceptedOnceUnlessRaced

=============================================================================
