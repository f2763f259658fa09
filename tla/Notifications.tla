---------------------------- MODULE Notifications ----------------------------
(***************************************************************************)
(* NotificationsService and NotificationsGateway: rows that users and      *)
(* administrators are notified with, the broadcast of an announcement, and *)
(* the sockets that rows are pushed to.                                    *)
(*                                                                         *)
(* A recipient is a user or an administrator; which of the two columns     *)
(* names it is left out, and so is the text.  The cleanup of old rows is   *)
(* called from nowhere, and the messages "mark_read" and "mark_all_read"   *)
(* of a socket change no row: the first has no body, the other no id.      *)
(***************************************************************************)
EXTENDS Calls

CONSTANTS
    Recipients,     \* users and administrators
    NoRecipient,    \* nobody
    Undefined,      \* a field that a JavaScript object does not have
    Notes,          \* rows that notifications may come to have
    NoNote,         \* a handler without a row
    Sockets

ASSUME NotificationsAssumption ==
    /\ NoRecipient \notin Recipients /\ Undefined \notin Recipients
    /\ NoNote \notin Notes

VARIABLES
    noteOwner,      \* user_id or admin_id, NoRecipient without a row
    unread,         \* rows with is_read false
    connectedAs,    \* whose token a connected socket came with
    room,           \* sockets in the room of a recipient
    pushed,         \* rows that were sent to a room
    sending,        \* what a handler holds
    answered        \* what handlers that sent notifications answered

notesTable == <<noteOwner, unread>>
sockets == <<connectedAs, room>>
notificationsState == <<notesTable, sockets, pushed, sending, answered>>

\* note: the row of a handler.  to: who is to get a row yet.  made: the rows
\* created.  addressed: all the recipients.
NothingSent == [note |-> NoNote, to |-> {}, made |-> {}, addressed |-> {}]

NotificationsInit ==
    /\ noteOwner = [n \in Notes |-> NoRecipient]
    /\ unread = {}
    /\ connectedAs = [s \in Sockets |-> NoRecipient]
    /\ room = [r \in Recipients |-> {}]
    /\ pushed = {}
    /\ sending = [p \in Procs |-> NothingSent]
    /\ answered = {}

Exists(n) == noteOwner[n] # NoRecipient

Send(p, what, label) == sending' = [sending EXCEPT ![p] = what] /\ Goto(p, label)

NotificationDone(p) == Send(p, NothingSent, "idle")

-----------------------------------------------------------------------------
(* handleConnection, handleDisconnect *)

\* The payload that AuthService signs, for an administrator with a role.
Token(r) == [sub |-> r, email |-> r, type |-> "user"]

Field(object, name) == IF name \in DOMAIN object THEN object[name] ELSE Undefined

\* verifyAsync, and the room of the id it finds; then the unread rows are
\* counted for the socket.
Connect(p, s, r) ==
    LET id == Field(Token(r), "id") IN
    /\ Idle(p)
    /\ connectedAs[s] = NoRecipient
    /\ connectedAs' = [connectedAs EXCEPT ![s] = r]
    /\ room' = [x \in Recipients |-> IF x = id THEN room[x] \cup {s} ELSE room[x]]
    /\ Goto(p, "idle")
    /\ UNCHANGED <<notesTable, pushed, sending, answered>>

Disconnect(p, s) ==
    /\ Idle(p)
    /\ connectedAs[s] # NoRecipient
    /\ connectedAs' = [connectedAs EXCEPT ![s] = NoRecipient]
    /\ room' = [x \in Recipients |-> room[x] \ {s}]
    /\ Goto(p, "idle")
    /\ UNCHANGED <<notesTable, pushed, sending, answered>>

-----------------------------------------------------------------------------
(* broadcastAnnouncement, and the notify methods, which send to one user or *)
(* to all active administrators *)

\* getBroadcastUserIds, getActiveAdminIds: the rows that are found.
Notify(p, to) ==
    /\ Idle(p)
    /\ Send(p, [NothingSent EXCEPT !.to = to, !.addressed = to], "notification_create")
    /\ UNCHANGED <<notesTable, sockets, pushed, answered>>

\* Mutant: an error of Notification.create is logged and the loop goes on.
CreateNotificationLogged(p) ==
    /\ pc[p] = "notification_create"
    /\ \E r \in sending[p].to, n \in Notes :
          /\ ~Exists(n)
          /\ \/ /\ noteOwner' = [noteOwner EXCEPT ![n] = r]
                /\ unread' = unread \cup {n}
                /\ Send(p, [sending[p] EXCEPT !.to = @ \ {r}, !.made = @ \cup {<<n, r>>}], pc[p])
             \/ /\ Send(p, [sending[p] EXCEPT !.to = @ \ {r}], pc[p])
                /\ UNCHANGED notesTable
    /\ UNCHANGED <<sockets, pushed, answered>>

\* Notification.create for one of those who have none yet.
CreateNotification(p) ==
    /\ pc[p] = "notification_create"
    /\ \E r \in sending[p].to, n \in Notes :
          /\ ~Exists(n)
          /\ noteOwner' = [noteOwner EXCEPT ![n] = r]
          /\ unread' = unread \cup {n}
          /\ Send(p, [sending[p] EXCEPT !.to = @ \ {r}, !.made = @ \cup {<<n, r>>}], pc[p])
    /\ UNCHANGED <<sockets, pushed, answered>>

\* sendToUser, sendToAllAdmins: errors are logged.
PushNotifications(p) ==
    /\ pc[p] = "notification_create"
    /\ sending[p].to = {}
    /\ pushed' = pushed \cup {m \in sending[p].made : room[m[2]] # {}}
    /\ answered' = answered \cup {[to |-> sending[p].addressed, made |-> sending[p].made]}
    /\ NotificationDone(p)
    /\ UNCHANGED <<notesTable, sockets>>

-----------------------------------------------------------------------------
(* markAsRead, markAllAsRead, delete *)

\* Notification.findByPk, and its recipient.
FindNotification(p, n, label) ==
    /\ Idle(p)
    /\ Exists(n)
    /\ Send(p, [NothingSent EXCEPT !.note = n], label)
    /\ UNCHANGED <<notesTable, sockets, pushed, answered>>

MarkAsRead(p, n) == n \in unread /\ FindNotification(p, n, "notification_save")
DeleteNotification(p, n) == FindNotification(p, n, "notification_destroy")

SaveRead(p) ==
    /\ pc[p] = "notification_save"
    /\ unread' = unread \ {sending[p].note}
    /\ NotificationDone(p)
    /\ UNCHANGED <<noteOwner, sockets, pushed, answered>>

DestroyNotification(p) ==
    /\ pc[p] = "notification_destroy"
    /\ noteOwner' = [noteOwner EXCEPT ![sending[p].note] = NoRecipient]
    /\ unread' = unread \ {sending[p].note}
    /\ NotificationDone(p)
    /\ UNCHANGED <<sockets, pushed, answered>>

MarkAllAsRead(p, r) ==
    /\ Idle(p)
    /\ unread' = {n \in unread : noteOwner[n] # r}
    /\ Goto(p, "idle")
    /\ UNCHANGED <<noteOwner, sockets, pushed, sending, answered>>

-----------------------------------------------------------------------------
NotificationsLabels == {"notification_create", "notification_save", "notification_destroy"}

NotificationsHandlerFails(p) ==
    /\ pc[p] \in NotificationsLabels
    /\ NotificationDone(p)
    /\ UNCHANGED <<notesTable, sockets, pushed, answered>>

NotificationsRequest(p) ==
    \/ \E s \in Sockets : Disconnect(p, s) \/ \E r \in Recipients : Connect(p, s, r)
    \/ \E to \in SUBSET Recipients : Notify(p, to)
    \/ \E n \in Notes : MarkAsRead(p, n) \/ DeleteNotification(p, n)
    \/ \E r \in Recipients : MarkAllAsRead(p, r)

NotificationsStep(p) ==
    \/ CreateNotification(p) \/ PushNotifications(p)
    \/ SaveRead(p) \/ DestroyNotification(p)
    \/ NotificationsHandlerFails(p)

NotificationsWorksOn(p) == {sending[p].note} \ {NoNote}

-----------------------------------------------------------------------------
(* Properties *)

\* "Returns list of { userId, notification } for pushing": an answer of
\* broadcastAnnouncement, or of a notify method, stands for exactly one row
\* of its own for each recipient it addressed.
AnsweredWhenAllNotified ==
    \A answer \in answered :
        \A r \in answer.to : \E n \in Notes :
            {m \in answer.made : m[2] = r} = {<<n, r>>}

\* "Join user-specific room", "Join admin-specific room": a connected socket
\* is in the room of the one whose token it came with.
ConnectedJoinsRoom ==
    \A s \in Sockets : connectedAs[s] # NoRecipient => s \in room[connectedAs[s]]

=============================================================================
