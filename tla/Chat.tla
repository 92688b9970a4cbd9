--------------------------------- MODULE Chat ---------------------------------
(***************************************************************************)
(* One thread between a courier and a dispatcher: CourierMessageViewSet,   *)
(* CourierOwnMessagesView and a web socket of one of the two, accepted by  *)
(* OrganizationRealtimeConsumer or CourierRealtimeConsumer.  Every         *)
(* statement commits on its own: a message is inserted and then broadcast, *)
(* a list is read, then marked as read, then answered.                     *)
(*                                                                         *)
(* Left out: a PATCH that gives a message to another courier, whose thread *)
(* it moves to.  The consumers look a socket's user up with no             *)
(* organization set, so that a socket is accepted only where the policies  *)
(* of migration 0002 do not bind the database role.                        *)
(***************************************************************************)
EXTENDS Naturals, FiniteSets

CONSTANTS
  Messages,     \* primary keys of messages, in the order of created_at
  PageSize,     \* how many messages the courier's list returns, the latest ones
  MaxEdits,     \* bound: generic edits begun and deletions
  MaxCrashes    \* bound: processes that die, or broadcasts that fail

VARIABLES
  listener,     \* the side whose app holds the socket
  message,      \* the courier_messages table
  posting,      \* inserted and not yet broadcast
  unsent,       \* history: inserted and never broadcast
  reading,      \* the list request of each side
  edit,         \* the generic edit in flight
  socket,       \* the listener's socket, and what arrived on it
  view,         \* what the listener's app got from the list made on this socket
  shown,        \* history: the other side's messages that lists returned to each side
  unseen,       \* history: marked as read by a list that did not return them
  edits, crashes

history == <<shown, unseen>>

vars == <<listener, message, posting, unsent, reading, edit, socket, view, history, edits, crashes>>

Sides == {"dispatch", "courier"}

Row == [sender : Sides, read : BOOLEAN]

Absent == [sender |-> "nobody", read |-> FALSE]

Deleted == [sender |-> "deleted", read |-> FALSE]

NotReading == [at |-> "none"]

NoEdit == [m |-> 0]

Closed == [joined |-> FALSE, accepted |-> FALSE, got |-> {}]

NoView == [at |-> "none"]

Init ==
  /\ listener \in Sides
  /\ message = [m \in Messages |-> Absent]
  /\ posting = {} /\ unsent = {}
  /\ reading = [s \in Sides |-> NotReading]
  /\ edit = NoEdit
  /\ socket = Closed
  /\ view = NoView
  /\ shown = [s \in Sides |-> {}]
  /\ unseen = {}
  /\ edits = 0 /\ crashes = 0

Present == {m \in Messages : message[m] \in Row}

\* The latest messages, PageSize of them.
Page == {m \in Present : Cardinality({k \in Present : k > m}) < PageSize}

Unread(side) == {m \in Present : message[m].sender = side /\ ~message[m].read}

-------------------------------------------------------------------------------
(* Sending: create of the view set, post of the courier's own view.        *)

Insert(side) ==
  /\ \E m \in Messages :
       /\ \A k \in Messages : message[k] = Absent <=> k >= m
       /\ message' = [message EXCEPT ![m] = [sender |-> side, read |-> FALSE]]
       /\ posting' = posting \cup {m}
  /\ UNCHANGED <<listener, unsent, reading, edit, socket, view, history, edits, crashes>>

DispatchSend == Insert("dispatch")

CourierSend == Insert("courier")

\* group_send reaches the channels that are in the group by now.
Broadcast(m) ==
  /\ m \in posting
  /\ posting' = posting \ {m}
  /\ socket' = IF socket.joined THEN [socket EXCEPT !.got = @ \cup {m}] ELSE socket
  /\ UNCHANGED <<listener, message, unsent, reading, edit, view, history, edits, crashes>>

SenderDies(m) ==
  /\ m \in posting
  /\ crashes < MaxCrashes
  /\ posting' = posting \ {m}
  /\ unsent' = unsent \cup {m}
  /\ crashes' = crashes + 1
  /\ UNCHANGED <<listener, message, reading, edit, socket, view, history, edits>>

-------------------------------------------------------------------------------
(* Listing marks the other side's messages as read.                        *)

\* The side lists while its socket is open.
Live(side) == side = listener /\ socket.accepted

\* Of the messages P, what matters of a list that returns them: to a view that
\* is not live, the other side's.
Returned(side, P) == IF Live(side) THEN P ELSE {m \in P : message[m].sender # side}

\* The list has found ids unread; with none there is nothing to mark.
Found(ids, page, live) ==
  [at |-> IF ids = {} THEN "marked" ELSE "listed", ids |-> ids, page |-> page, live |-> live]

\* Mutant of CourierList: marks what is unread, not what is returned.
CourierListMarkingAll ==
  /\ reading["courier"] = NotReading
  /\ reading' = [reading EXCEPT !["courier"] =
                   Found(Unread("dispatch"), Returned("courier", Page), Live("courier"))]
  /\ UNCHANGED <<listener, message, posting, unsent, edit, socket, view, history, edits, crashes>>

\* CourierOwnMessagesView.get: the unread ones among those it returns.
CourierList ==
  /\ reading["courier"] = NotReading
  /\ reading' = [reading EXCEPT !["courier"] =
                   Found(Page \cap Unread("dispatch"), Returned("courier", Page),
                         Live("courier"))]
  /\ UNCHANGED <<listener, message, posting, unsent, edit, socket, view, history, edits, crashes>>

\* CourierMessageViewSet.list has its response, the whole thread, and then looks
\* for what is unread.
DispatchList ==
  /\ reading["dispatch"] = NotReading
  /\ reading' = [reading EXCEPT !["dispatch"] =
                   [at |-> "responded", page |-> Returned("dispatch", Present),
                    live |-> Live("dispatch")]]
  /\ UNCHANGED <<listener, message, posting, unsent, edit, socket, view, history, edits, crashes>>

DispatchUnread ==
  /\ reading["dispatch"].at = "responded"
  /\ reading' = [reading EXCEPT !["dispatch"] =
                   Found(Unread("courier"), @.page, @.live)]
  /\ unseen' = unseen \cup (Unread("courier") \ reading["dispatch"].page)
  /\ UNCHANGED <<listener, message, posting, unsent, edit, socket, view, shown, edits, crashes>>

\* filter(id__in=unread_ids).update(read_at=...), which commits.
MarkRead(side) ==
  LET r == reading[side] IN
    /\ r.at = "listed"
    /\ message' = [m \in Messages |->
                     IF m \in r.ids \cap Present THEN [message[m] EXCEPT !.read = TRUE]
                                                 ELSE message[m]]
    /\ reading' = [reading EXCEPT ![side].at = "marked"]
    /\ UNCHANGED <<listener, posting, unsent, edit, socket, view, history, edits, crashes>>

\* The read marks are broadcast and the list is answered.
Answer(side) ==
  LET r == reading[side] IN
    /\ r.at = "marked"
    /\ reading' = [reading EXCEPT ![side] = NotReading]
    /\ shown' = [shown EXCEPT ![side] = @ \cup {m \in r.page : message[m].sender # side}]
    /\ view' = IF r.live THEN [at |-> "listed", page |-> r.page] ELSE view
    /\ UNCHANGED <<listener, message, posting, unsent, edit, socket, unseen, edits, crashes>>

\* What the list marks and returns, once it has marked it.
Returning(side) ==
  IF reading[side].at = "marked" THEN reading[side].ids \cap reading[side].page ELSE {}

\* The broadcast of the read marks raises, or the process dies somewhere in the list.
AnswerLost(side) ==
  /\ reading[side] # NotReading
  /\ crashes < MaxCrashes
  /\ unseen' = unseen \cup Returning(side)
  /\ reading' = [reading EXCEPT ![side] = NotReading]
  /\ crashes' = crashes + 1
  /\ UNCHANGED <<listener, message, posting, unsent, edit, socket, view, shown, edits>>

-------------------------------------------------------------------------------
(* PATCH and DELETE: CourierMessageViewSet is a generic view set, and a    *)
(* PATCH saves the read mark of the copy it edits.                         *)

BeginEdit(m) ==
  /\ edit = NoEdit
  /\ edits < MaxEdits
  /\ m \in Present
  /\ edit' = [m |-> m, row |-> message[m]]
  /\ edits' = edits + 1
  /\ UNCHANGED <<listener, message, posting, unsent, reading, socket, view, history, crashes>>

\* An UPDATE of every column, or an INSERT if the row is gone by now, which is
\* broadcast to nobody.
SaveEdit ==
  /\ edit # NoEdit
  /\ message' = [message EXCEPT ![edit.m] = edit.row]
  /\ unsent' = IF edit.m \in Present THEN unsent ELSE unsent \cup {edit.m}
  /\ edit' = NoEdit
  /\ UNCHANGED <<listener, posting, reading, socket, view, history, edits, crashes>>

Delete(m) ==
  /\ edits < MaxEdits
  /\ m \in Present
  /\ message' = [message EXCEPT ![m] = Deleted]
  /\ edits' = edits + 1
  /\ UNCHANGED <<listener, posting, unsent, reading, edit, socket, view, history, crashes>>

-------------------------------------------------------------------------------
(* connect of both consumers: authenticate, group_add, accept.             *)
(* Events that arrive in between wait for the end of connect.              *)

\* Mutant of Connected: accept first.
ConnectedLate ==
  IF socket.accepted THEN [socket EXCEPT !.joined = TRUE]
                     ELSE [socket EXCEPT !.accepted = TRUE]

\* How far the socket is after the next statement of connect.
Connected ==
  IF socket.joined THEN [socket EXCEPT !.accepted = TRUE]
                   ELSE [socket EXCEPT !.joined = TRUE]

Connect ==
  /\ ~(socket.joined /\ socket.accepted)
  /\ socket' = Connected
  /\ UNCHANGED <<listener, message, posting, unsent, reading, edit, view, history, edits, crashes>>

Disconnect ==
  /\ socket # Closed
  /\ socket' = Closed
  /\ view' = NoView
  /\ reading' = [reading EXCEPT ![listener] =
                   IF @ = NotReading THEN @ ELSE [@ EXCEPT !.live = FALSE]]
  /\ UNCHANGED <<listener, message, posting, unsent, edit, history, edits, crashes>>

Next ==
  \/ DispatchSend \/ CourierSend
  \/ \E s \in Sides : MarkRead(s) \/ Answer(s) \/ AnswerLost(s)
  \/ \E m \in Messages : Broadcast(m) \/ SenderDies(m) \/ BeginEdit(m) \/ Delete(m)
  \/ CourierList \/ DispatchList \/ DispatchUnread
  \/ SaveEdit
  \/ Connect \/ Disconnect

Spec == Init /\ [][Next]_vars

-------------------------------------------------------------------------------
(* Properties.                                                             *)

\* A message that is marked as read was in a list the other side was given,
\* however sends, lists of both sides and edits overlap and whatever the page
\* left out; or it is in an answer on its way; or it was in one that was lost
\* after the mark had been committed, or was sent to the dispatcher after his
\* list had its response and before it looked for what is unread.
ReadWasShown ==
  \A m \in Present, side \in Sides :
    message[m].read /\ message[m].sender # side =>
      m \in shown[side] \cup Returning(side) \cup unseen

\* An app that connects and then lists misses no message: what is not in the
\* list arrives on the socket, is about to, is older than the page, or was
\* inserted without a broadcast, by a server that died or by an edit of a
\* deleted message.
NothingMissed ==
  view.at = "listed" =>
    \A m \in Present :
      \/ m \in view.page \cup socket.got \cup posting \cup unsent
      \/ \E k \in view.page : m < k
===============================================================================
