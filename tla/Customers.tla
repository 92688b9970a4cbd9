-------------------------------- MODULE Customers --------------------------------
(***************************************************************************)
(* Customer profiles and the orders that refer to them: the function       *)
(* get_or_create_customer of core/services.py, the views that call it,     *)
(* CustomerViewSet and the GraphQL mutation create_customer.               *)
(*                                                                         *)
(* Each request looks for a profile, and inserts one or saves what it      *)
(* found, in statements that are committed one by one and take no lock.    *)
(* What the database checks is left: the unique email of an organization,  *)
(* compared as it is spelled, and the foreign key of a delivery.  No view  *)
(* passes an email on to get_or_create_customer (neither serializer of an  *)
(* order has that field), so orders are matched by phone number.           *)
(***************************************************************************)
EXTENDS Naturals, FiniteSetsExt

CONSTANTS
  Customers,    \* primary keys of customer rows; the order of rows is theirs
  Orders,       \* primary keys of delivery rows
  Phones,       \* phone numbers
  Addresses,    \* email addresses, but for upper and lower case
  None,         \* SQL NULL
  NotPlaced,    \* in place of an order that was not inserted yet
  Workers,      \* server threads; each handles one request at a time
  Kinds,        \* kinds of request they receive
  MaxEdits,     \* bound: generic edits begun
  MaxDeletes    \* bound: rows deleted

ASSUME CustomersAssumption ==
  /\ Customers \subseteq Nat
  /\ {None, NotPlaced} \cap Customers = {}
  /\ None # NotPlaced
  /\ {"", "absent"} \cap Phones = {}
  /\ {"", "null"} \cap Addresses = {}
  /\ Kinds \subseteq {"order", "create", "graphql", "edit"}
  /\ MaxEdits \in Nat
  /\ MaxDeletes \in Nat

VARIABLES
  customer,     \* the customers table
  order,        \* the deliveries: what customer_id each has, when it is placed
  request,      \* what each worker has read and is about to write
  origin,       \* history: who inserted each profile, and what they had seen
  edits, deletes

vars == <<customer, order, request, origin, edits, deletes>>
bounds == <<edits, deletes>>

NoPhone == ""

Email(a, spelling) == [address |-> a, spelling |-> spelling]

\* Empty strings are stored by the GraphQL mutation and by edits.
Blank == Email("", "lower")

NoEmail == Email("null", "lower")

Given == {Email(a, sp) : a \in Addresses, sp \in {"lower", "mixed"}}

Emails == Given \cup {Blank, NoEmail}

Lower(e) == [e EXCEPT !.spelling = "lower"]

SameAddress(e, f) == e.address = f.address

Absent == [phone |-> "absent", email |-> NoEmail]

NoRequest == [kind |-> "none", at |-> "none"]

\* Who inserted a profile and which profiles its request saw; forgotten once the
\* profile is edited or deleted.
NoOrigin == [by |-> "nobody", saw |-> {}]

Changed == [by |-> "changed", saw |-> {}]

Init ==
  /\ customer = [c \in Customers |-> Absent]
  /\ order = [o \in Orders |-> NotPlaced]
  /\ request = [w \in Workers |-> NoRequest]
  /\ origin = [c \in Customers |-> NoOrigin]
  /\ edits = 0
  /\ deletes = 0

Present == {c \in Customers : customer[c] # Absent}

At(w, kind, at) == request[w].kind = kind /\ request[w].at = at

Accept(w, r) ==
  /\ r.kind \in Kinds
  /\ request[w] = NoRequest
  /\ request' = [request EXCEPT ![w] = r]

Goto(w, r) == request' = [request EXCEPT ![w] = r]

Reply(w) == Goto(w, NoRequest)

\* The unique constraint on the email: NULLs are distinct, spelling counts.
Unique(c, e) ==
  e # NoEmail => \A x \in Present \ {c} : customer[x].email # e

\* A fresh primary key (a random UUID: any place in the order of keys).
Fresh(c) == origin[c].by = "nobody"

Insert(c, row, by, saw) ==
  /\ Fresh(c)
  /\ customer' = [customer EXCEPT ![c] = row]
  /\ origin' = [origin EXCEPT ![c] = [by |-> by, saw |-> saw]]

-------------------------------------------------------------------------------
(* An order: PublicDeliveryRequestView.post and DeliveryViewSet.create.    *)

WithPhone(p) == {c \in Present : customer[c].phone = p}

\* Mutant of Found: the phone number is not looked up.
FoundNone(p) == None

\* filter(phone=...).first(): the first in the order of primary keys.
Found(p) == IF p = NoPhone \/ WithPhone(p) = {} THEN None ELSE Min(WithPhone(p))

BeginOrder(w, p) ==
  /\ Accept(w, [kind |-> "order", at |-> "resolve", phone |-> p, found |-> Found(p),
                saw |-> IF Found(p) = None THEN Present ELSE {}])
  /\ UNCHANGED <<customer, order, origin, bounds>>

\* The dispatcher names the customer; DeliveryCreateSerializer looks it up.
BeginOrderFor(w, c) ==
  /\ c \in Present
  /\ Accept(w, [kind |-> "order", at |-> "place", customer |-> c])
  /\ UNCHANGED <<customer, order, origin, bounds>>

\* A new name, zone or branch is saved with update_fields, which raises when the
\* row is gone; when there is none, the copy is used without another look.
Reuse(w) ==
  LET r == request[w] IN
  /\ At(w, "order", "resolve")
  /\ r.found # None
  /\ \/ Goto(w, [kind |-> "order", at |-> "place", customer |-> r.found])
     \/ r.found \notin Present /\ Reply(w)
  /\ UNCHANGED <<customer, order, origin, bounds>>

InsertForOrder(w, c) ==
  LET r == request[w] IN
  /\ At(w, "order", "resolve")
  /\ r.found = None
  /\ Insert(c, [phone |-> r.phone, email |-> NoEmail], "order", r.saw)
  /\ Goto(w, [kind |-> "order", at |-> "place", customer |-> c])
  /\ UNCHANGED <<order, bounds>>

\* create_delivery; the foreign key fails if the customer is gone by now.
PlaceOrder(w, o) ==
  LET c == request[w].customer IN
  /\ At(w, "order", "place")
  /\ order[o] = NotPlaced
  /\ order' = IF c \in Present THEN [order EXCEPT ![o] = c] ELSE order
  /\ Reply(w)
  /\ UNCHANGED <<customer, origin, bounds>>

\* The GraphQL mutation create_delivery names no customer.
PlaceOrderWithout(o) ==
  /\ "graphql" \in Kinds
  /\ order[o] = NotPlaced
  /\ order' = [order EXCEPT ![o] = None]
  /\ UNCHANGED <<customer, request, origin, bounds>>

-------------------------------------------------------------------------------
(* CustomerViewSet.create: two lookups, then the insert.                   *)

\* Mutant of CheckEmail: the address is stored and looked up as it was typed.
CheckEmailAsTyped(w, p, e) ==
  /\ p # NoPhone \/ e # NoEmail
  /\ \A c \in Present : e # NoEmail => ~SameAddress(customer[c].email, e)
  /\ Accept(w, [kind |-> "create", at |-> "phone", phone |-> p, email |-> e,
                saw |-> Present])
  /\ UNCHANGED <<customer, order, origin, bounds>>

\* email__iexact ignores case.
CheckEmail(w, p, e) ==
  /\ p # NoPhone \/ e # NoEmail
  /\ \A c \in Present : e # NoEmail => ~SameAddress(customer[c].email, e)
  /\ Accept(w, [kind |-> "create", at |-> "phone", phone |-> p, email |-> Lower(e),
                saw |-> Present])
  /\ UNCHANGED <<customer, order, origin, bounds>>

CheckPhone(w) ==
  LET r == request[w] IN
  /\ At(w, "create", "phone")
  /\ IF r.phone # NoPhone /\ WithPhone(r.phone) # {}
     THEN Reply(w)
     ELSE Goto(w, [r EXCEPT !.at = "insert"])
  /\ UNCHANGED <<customer, order, origin, bounds>>

InsertCreated(w, c) ==
  LET r == request[w] IN
  /\ At(w, "create", "insert")
  /\ Unique(c, r.email)
  /\ Insert(c, [phone |-> r.phone, email |-> r.email], "create", r.saw)
  /\ Reply(w)
  /\ UNCHANGED <<order, bounds>>

InsertRefused(w) ==
  /\ At(w, "create", "insert")
  /\ ~Unique(None, request[w].email)
  /\ Reply(w)
  /\ UNCHANGED <<customer, order, origin, bounds>>

\* The GraphQL mutation looks nothing up and stores the email as it was typed.
GraphqlCreate(c, p, e) ==
  /\ "graphql" \in Kinds
  /\ Unique(c, e)
  /\ Insert(c, [phone |-> p, email |-> e], "graphql", {})
  /\ UNCHANGED <<order, request, bounds>>

-------------------------------------------------------------------------------
(* PATCH, PUT and DELETE on a customer: DRF's mixins.                      *)

BeginEdit(w, c) ==
  /\ edits < MaxEdits
  /\ c \in Present
  /\ \E p \in Phones \cup {NoPhone}, e \in Emails :
       Accept(w, [kind |-> "edit", at |-> "save", c |-> c,
                  row |-> [phone |-> p, email |-> e]])
  /\ edits' = edits + 1
  /\ UNCHANGED <<customer, order, origin, deletes>>

\* save(): an UPDATE of every column, or an INSERT if the row is gone by now.
SaveEdit(w) ==
  LET r == request[w] IN
  /\ At(w, "edit", "save")
  /\ IF Unique(r.c, r.row.email)
     THEN /\ customer' = [customer EXCEPT ![r.c] = r.row]
          /\ origin' = [origin EXCEPT ![r.c] = Changed]
     ELSE UNCHANGED <<customer, origin>>
  /\ Reply(w)
  /\ UNCHANGED <<order, bounds>>

\* on_delete=PROTECT; an order placed between its query and the DELETE fails
\* the foreign key.
Delete(c) ==
  /\ deletes < MaxDeletes
  /\ c \in Present
  /\ \A o \in Orders : order[o] # c
  /\ customer' = [customer EXCEPT ![c] = Absent]
  /\ origin' = [origin EXCEPT ![c] = Changed]
  /\ deletes' = deletes + 1
  /\ UNCHANGED <<order, request, edits>>

-------------------------------------------------------------------------------

OrderStep(w) ==
  \/ \E p \in Phones \cup {NoPhone} : BeginOrder(w, p)
  \/ \E c \in Customers : BeginOrderFor(w, c) \/ InsertForOrder(w, c)
  \/ Reuse(w)
  \/ \E o \in Orders : PlaceOrder(w, o)

CreateStep(w) ==
  \/ \E p \in Phones \cup {NoPhone}, e \in Given \cup {NoEmail} : CheckEmail(w, p, e)
  \/ CheckPhone(w)
  \/ \E c \in Customers : InsertCreated(w, c)
  \/ InsertRefused(w)

EditStep(w) == SaveEdit(w) \/ \E c \in Customers : BeginEdit(w, c)

Next ==
  \/ \E w \in Workers : OrderStep(w) \/ CreateStep(w) \/ EditStep(w)
  \/ \E c \in Customers, p \in Phones \cup {NoPhone}, e \in Given \cup {Blank} :
       GraphqlCreate(c, p, e)
  \/ \E o \in Orders : PlaceOrderWithout(o)
  \/ \E c \in Customers : Delete(c)

Spec == Init /\ [][Next]_vars

-------------------------------------------------------------------------------
(* Properties.                                                             *)

Untouched(c) == c \in Present /\ origin[c] # Changed

Alike(a, b) ==
  \/ customer[a].phone = customer[b].phone /\ customer[a].phone # NoPhone
  \/ SameAddress(customer[a].email, customer[b].email)
       /\ customer[a].email \in Given

\* An order or a new customer never gets a second profile for a phone number or
\* an email address of which its request saw one, whatever other requests and
\* the GraphQL mutation stored: only requests that overlap make duplicates.
SeenIsReused ==
  \A a, b \in Customers :
    Untouched(a) /\ Untouched(b) /\ a # b /\ a \in origin[b].saw => ~Alike(a, b)

\* Two REST requests never make two profiles of one address, upper and lower
\* case aside, not even when they overlap: the address is lowered before the
\* unique constraint compares it.
AddressOnce ==
  \A a, b \in Customers :
    /\ Untouched(a) /\ Untouched(b) /\ a # b
    /\ {origin[a].by, origin[b].by} \subseteq {"order", "create"}
    /\ customer[a].email \in Given
    => ~SameAddress(customer[a].email, customer[b].email)

\* "Every order attaches to a single, deduplicated customer profile."
\* (views.py:1232): no two profiles made for orders have one phone number.
SingleProfile ==
  \A a, b \in Customers :
    /\ Untouched(a) /\ Untouched(b) /\ a # b
    /\ origin[a].by = "order" /\ origin[b].by = "order"
    /\ customer[a].phone # NoPhone
    => customer[a].phone # customer[b].phone
===============================================================================
