----------------------------- MODULE RequestsProofs -----------------------------
(***************************************************************************)
(* What holds of LeaveRequests for any number of request threads, people   *)
(* and rows: a handler checks first and makes its calls later, and what it *)
(* checked is held against what the tables are when a call lands.          *)
(***************************************************************************)
EXTENDS LeaveRequests, LeaveCalendarProofs, FiniteSetTheorems, SequenceTheorems

-----------------------------------------------------------------------------
(* The calls a handler can have left to make *)

BookingChanges ==
  [status : {"approved"}]
    \cup [status : {"approved", "rejected", "withdrawn", "released"},
          decided_by : Users \cup {Nobody}]

AbsenceChanges ==
  [status : {"withdrawn"}, decided_by : Users]
    \cup [status : {"approved"}, category : CATEGORIES, duration : VALID_DURATIONS,
          decided_by : Users, backfilled : {TRUE}]

CreditChanges ==
  [status : {"approved"}, booking : {NoBooking}]
    \cup [status : {"used"}, booking : BookingId]
    \cup [status : {"approved"}, expires : Int]
    \cup [status : {"rejected", "lapsed"}]

RowsIn(rows) == {b \in BookingId : rows[b] # NoRow}
RowsOf(cs) == {k \in CreditId : cs[k] # NoRow}

BookingUpdate(rows) ==
  [call : {"update_booking"}, id : RowsIn(rows), set : BookingChanges]
AbsenceUpdate(rows) ==
  [call : {"update_booking_if_unrecognised"}, id : RowsIn(rows), set : AbsenceChanges]
BookingInsert == [call : {"insert_booking"}, row : Booking]
CreditsOf(rows) ==
  [call : {"release_for_booking", "consume"}, id : RowsIn(rows)]
CreditUpdate(cs) ==
  [call : {"update_compoff_credit"}, id : RowsOf(cs), set : CreditChanges]
CreditInsert == [call : {"insert_compoff_credit"}, row : Credit]
HolidayWrite == [call : {"write_holiday"}, old : SUBSET Holiday, new : Holiday]
HolidayRelease ==
  [call : {"release_for_holiday"}, day : Day, location : Locations \cup {Everywhere}]

(* A booking is only ever moved on or ended if it was charged to something, *)
(* and withdrawn by a request of day `on` only if that day was not after    *)
(* its own, or if it is one that an admin recorded.                         *)
MayMove(row, to, on) ==
  /\ row.category # NO_CATEGORY
  /\ to = "withdrawn" => row.backfilled \/ row.day >= on

Charged(row) == row.status \in CONSUMING_STATES => row.category # NO_CATEGORY

CallsFor(rows, cs, on) ==
  {c \in BookingUpdate(rows) : MayMove(rows[c.id], c.set.status, on)}
    \cup AbsenceUpdate(rows)
    \cup {c \in BookingInsert : Charged(c.row)}
    \cup CreditsOf(rows) \cup CreditUpdate(cs) \cup CreditInsert
    \cup HolidayWrite \cup HolidayRelease

(* The calls still to make for each row.                                    *)
CallLists(rows, cs, on) == Seq(Seq(CallsFor(rows, cs, on)) \ {<<>>})

-----------------------------------------------------------------------------
(* The inductive invariant *)

HANDLERS ==
  {"create_or_replace", "withdraw", "decide", "flag", "backfill", "undo",
   "convert", "holiday", "claim", "decide_claim", "sweep", "lapse"}
STEPS == {"asked", "find", "holiday", "afford", "calls"}

RequestOf(rows, cs, on) ==
  [op : HANDLERS, actor : Users \cup {Nobody}, user : Users \cup {Nobody},
   day : Day, category : CATEGORIES \cup {NO_CATEGORY},
   duration : VALID_DURATIONS, reason : BOOLEAN, on : {on},
   old : SUBSET BookingId, step : STEPS, calls : CallLists(rows, cs, on)]

(* What a handler that has its checks still to make goes by.                *)
Checking(r, rows) ==
  /\ r.actor \in Users /\ r.user \in Users /\ r.category \in CATEGORIES
  /\ r.old \subseteq RowsIn(rows)
  /\ r.op = "create_or_replace" => \A b \in r.old : MayMove(rows[b], "withdrawn", r.on)

InHand(r, rows, cs, now) ==
  /\ r.on \in Day /\ now \in {r.on, r.on + 1}
  /\ r \in RequestOf(rows, cs, r.on)
  /\ IF r.step = "calls" THEN r.calls # <<>> ELSE Checking(r, rows)

AllInHand(rs, rows, cs, now) ==
  /\ rs = [p \in Servers |-> rs[p]]
  /\ \A p \in Servers : rs[p] = NoRequest \/ InHand(rs[p], rows, cs, now)

OnePerDay(rows) ==
  \A a, b \in RowsIn(rows) :
    /\ rows[a].user = rows[b].user
    /\ rows[a].day = rows[b].day
    /\ rows[a].status \in OCCUPYING_STATES
    /\ rows[b].status \in OCCUPYING_STATES
    => a = b

AllCharged(rows) == \A b \in RowsIn(rows) : Charged(rows[b])

TablesOK == TypeOK /\ AllCharged(bookings) /\ OnePerDay(bookings)

RequestsInv == TablesOK /\ AllInHand(request, bookings, credits, today)

-----------------------------------------------------------------------------
(* What was true of the rows when a call was decided on stays true of them  *)

Onward(rows, rows1, cs, cs1) ==
  /\ RowsIn(rows) \subseteq RowsIn(rows1)
  /\ RowsOf(cs) \subseteq RowsOf(cs1)
  /\ \A b \in RowsIn(rows) :
       /\ rows1[b].day = rows[b].day
       /\ rows[b].category # NO_CATEGORY => rows1[b].category # NO_CATEGORY
       /\ rows[b].backfilled => rows1[b].backfilled

LEMMA MayStillMove ==
  ASSUME NEW rows, NEW rows1, NEW cs, NEW cs1, Onward(rows, rows1, cs, cs1),
         NEW b \in RowsIn(rows), NEW to, NEW on, MayMove(rows[b], to, on)
  PROVE  MayMove(rows1[b], to, on)
BY DEF Onward, MayMove

LEMMA CallsStay ==
  ASSUME NEW rows, NEW rows1, NEW cs, NEW cs1, Onward(rows, rows1, cs, cs1), NEW on
  PROVE  CallsFor(rows, cs, on) \subseteq CallsFor(rows1, cs1, on)
<1>1. /\ RowsIn(rows) \subseteq RowsIn(rows1)
      /\ RowsOf(cs) \subseteq RowsOf(cs1)
  BY DEF Onward
<1>2. ASSUME NEW c \in BookingUpdate(rows), MayMove(rows[c.id], c.set.status, on)
      PROVE  c \in BookingUpdate(rows1) /\ MayMove(rows1[c.id], c.set.status, on)
  <2>1. c.id \in RowsIn(rows)
    BY DEF BookingUpdate
  <2>2. MayMove(rows1[c.id], c.set.status, on)
    BY <1>2, <2>1, MayStillMove
  <2>3. c \in BookingUpdate(rows1)
    BY <1>1 DEF BookingUpdate
  <2> QED BY <2>2, <2>3
<1>3. /\ AbsenceUpdate(rows) \subseteq AbsenceUpdate(rows1)
      /\ CreditsOf(rows) \subseteq CreditsOf(rows1)
      /\ CreditUpdate(cs) \subseteq CreditUpdate(cs1)
  BY <1>1 DEF AbsenceUpdate, CreditsOf, CreditUpdate
<1> QED BY <1>2, <1>3 DEF CallsFor

LEMMA ListsStay ==
  ASSUME NEW rows, NEW rows1, NEW cs, NEW cs1, Onward(rows, rows1, cs, cs1), NEW on
  PROVE  CallLists(rows, cs, on) \subseteq CallLists(rows1, cs1, on)
<1> DEFINE A == CallsFor(rows, cs, on)
           B == CallsFor(rows1, cs1, on)
<1>1. A \subseteq B
  BY CallsStay
<1> HIDE DEF A, B
<1>2. ASSUME NEW s \in Seq(A) PROVE s \in Seq(B)
  BY <1>1, SeqMonotonic
<1>3. Seq(A) \ {<<>>} \subseteq Seq(B) \ {<<>>}
  BY <1>2
<1>4. ASSUME NEW s \in Seq(Seq(A) \ {<<>>}) PROVE s \in Seq(Seq(B) \ {<<>>})
  BY <1>3, SeqMonotonic
<1> QED BY <1>4 DEF CallLists, A, B

LEMMA StaysInHand ==
  ASSUME NEW rows, NEW rows1, NEW cs, NEW cs1, Onward(rows, rows1, cs, cs1),
         NEW r, NEW now, InHand(r, rows, cs, now)
  PROVE  InHand(r, rows1, cs1, now)
<1>1. CallLists(rows, cs, r.on) \subseteq CallLists(rows1, cs1, r.on)
  BY ListsStay
<1>2. r \in RequestOf(rows1, cs1, r.on)
  BY <1>1 DEF InHand, RequestOf
<1>3. ASSUME Checking(r, rows) PROVE Checking(r, rows1)
  <2>1. r.old \subseteq RowsIn(rows) /\ RowsIn(rows) \subseteq RowsIn(rows1)
    BY <1>3 DEF Checking, Onward
  <2>2. ASSUME r.op = "create_or_replace", NEW b \in r.old
        PROVE  MayMove(rows1[b], "withdrawn", r.on)
    BY <1>3, <2>1, <2>2, MayStillMove DEF Checking
  <2> QED BY <1>3, <2>1, <2>2 DEF Checking
<1> QED BY <1>2, <1>3 DEF InHand

-----------------------------------------------------------------------------
(* Lists of calls *)

(* The rows of a small set in some order.                                   *)
LEMMA SomeOrder ==
  ASSUME NEW N \in Nat, NEW S \in SUBSET (1 .. N), NEW order \in SetToSeqs(S)
  PROVE  /\ order \in Seq(S)
         /\ S # {} => order # <<>>
<1>1. IsFiniteSet(1 .. N)
  BY FS_Interval
<1>2. IsFiniteSet(S)
  BY <1>1, FS_Subset
<1>3. Cardinality(S) \in Nat
  BY <1>2, FS_CardinalityType
<1>4. order \in [1 .. Cardinality(S) -> S]
  BY DEF SetToSeqs
<1>5. order \in Seq(S) /\ Len(order) = Cardinality(S)
  BY <1>3, <1>4
<1>6. S # {} => Cardinality(S) # 0
  BY <1>2, FS_EmptySet
<1> QED BY <1>5, <1>6

(* A list of calls for each of them.                                        *)
LEMMA OneListEach ==
  ASSUME NEW S, NEW order \in Seq(S), NEW D, NEW lists,
         DOMAIN lists = DOMAIN order, lists = [i \in DOMAIN lists |-> lists[i]],
         \A i \in DOMAIN order : lists[i] \in D
  PROVE  /\ lists \in Seq(D)
         /\ order # <<>> => lists # <<>>
<1>1. DOMAIN order = 1 .. Len(order) /\ Len(order) \in Nat
  OBVIOUS
<1>2. lists \in [1 .. Len(order) -> D]
  BY <1>1
<1>3. lists \in Seq(D) /\ Len(lists) = Len(order)
  BY <1>1, <1>2
<1>4. order # <<>> => Len(order) # 0
  BY <1>1, EmptySeq
<1> QED BY <1>3, <1>4, EmptySeq

LEMMA FirstCall ==
  ASSUME NEW A, NEW s \in Seq(Seq(A) \ {<<>>}), s # <<>>
  PROVE  Head(Head(s)) \in A
OBVIOUS

LEMMA CallsLeft ==
  ASSUME NEW A, NEW s \in Seq(Seq(A) \ {<<>>}), s # <<>>
  PROVE  (IF Len(Head(s)) = 1 THEN Tail(s) ELSE [s EXCEPT ![1] = Tail(@)])
           \in Seq(Seq(A) \ {<<>>})
<1>1. Head(s) \in Seq(A) \ {<<>>} /\ Head(s) = s[1]
  OBVIOUS
<1>2. CASE Len(Head(s)) = 1
  BY <1>2, HeadTailProperties
<1>3. CASE Len(Head(s)) # 1
  <2> DEFINE D == Seq(A) \ {<<>>}
  <2>1. Tail(Head(s)) \in Seq(A) /\ Len(Tail(Head(s))) = Len(Head(s)) - 1
    BY <1>1, HeadTailProperties
  <2>2. Len(Head(s)) \in Nat \ {0}
    BY <1>1, EmptySeq
  <2>3. Tail(Head(s)) \in D
    <3>1. Len(Tail(Head(s))) # 0
      BY <1>3, <2>1, <2>2
    <3>2. Tail(Head(s)) # <<>>
      BY <3>1, EmptySeq
    <3> QED BY <2>1, <3>2
  <2>4. s \in Seq(D)
    OBVIOUS
  <2> HIDE DEF D
  <2>5. [s EXCEPT ![1] = Tail(Head(s))] \in Seq(D)
    BY <2>3, <2>4
  <2> QED BY <1>1, <1>3, <2>5 DEF D
<1> QED BY <1>2, <1>3

-----------------------------------------------------------------------------
(* Taking a request up and going on with it *)

LEMMA AskedType ==
  ASSUME today \in Day, NEW op \in HANDLERS, NEW actor \in Users \cup {Nobody},
         NEW u \in Users \cup {Nobody}, NEW d \in Day,
         NEW c \in CATEGORIES \cup {NO_CATEGORY}, NEW n \in VALID_DURATIONS,
         NEW reason \in BOOLEAN, NEW old \in SUBSET BookingId, NEW rows, NEW cs
  PROVE  Asked(op, actor, u, d, c, n, reason, old) \in RequestOf(rows, cs, today)
<1>1. <<>> \in CallLists(rows, cs, today)
  BY DEF CallLists
<1>2. "asked" \in STEPS
  BY DEF STEPS
<1> QED BY <1>1, <1>2 DEF Asked, RequestOf

LEMMA StepType ==
  ASSUME NEW rows, NEW cs, NEW on, NEW r \in RequestOf(rows, cs, on), NEW step \in STEPS
  PROVE  /\ [r EXCEPT !.step = step] \in RequestOf(rows, cs, on)
         /\ [r EXCEPT !.step = step].step = step
         /\ [r EXCEPT !.step = step].on = on
         /\ [r EXCEPT !.step = step].op = r.op
         /\ [r EXCEPT !.step = step].actor = r.actor
         /\ [r EXCEPT !.step = step].user = r.user
         /\ [r EXCEPT !.step = step].category = r.category
         /\ [r EXCEPT !.step = step].old = r.old
         /\ [r EXCEPT !.step = step].calls = r.calls
BY DEF RequestOf

LEMMA CallsType ==
  ASSUME NEW rows, NEW cs, NEW on, NEW r \in RequestOf(rows, cs, on),
         NEW rows1, NEW cs1, NEW calls \in CallLists(rows1, cs1, on)
  PROVE  /\ [r EXCEPT !.calls = calls] \in RequestOf(rows1, cs1, on)
         /\ [r EXCEPT !.calls = calls].calls = calls
BY DEF RequestOf

LEMMA OldType ==
  ASSUME NEW rows, NEW cs, NEW on, NEW r \in RequestOf(rows, cs, on),
         NEW old \in SUBSET BookingId
  PROVE  /\ [r EXCEPT !.old = old] \in RequestOf(rows, cs, on)
         /\ [r EXCEPT !.old = old].old = old
         /\ [r EXCEPT !.old = old].on = on
         /\ [r EXCEPT !.old = old].op = r.op
         /\ [r EXCEPT !.old = old].step = r.step
         /\ [r EXCEPT !.old = old].actor = r.actor
         /\ [r EXCEPT !.old = old].user = r.user
         /\ [r EXCEPT !.old = old].day = r.day
         /\ [r EXCEPT !.old = old].duration = r.duration
         /\ [r EXCEPT !.old = old].category = r.category
BY DEF RequestOf

(* One request is served, the others wait, and the rows go on.              *)
LEMMA Served ==
  ASSUME AllInHand(request, bookings, credits, today), NEW p \in Servers, NEW r,
         request' = [request EXCEPT ![p] = r],
         r = NoRequest \/ InHand(r, bookings', credits', today'),
         Onward(bookings, bookings', credits, credits'), today' = today
  PROVE  AllInHand(request', bookings', credits', today')
<1>1. request = [q \in Servers |-> request[q]]
  BY DEF AllInHand
<1>2. request'[p] = r /\ \A q \in Servers \ {p} : request'[q] = request[q]
  BY <1>1
<1>3. request' = [q \in Servers |-> request'[q]]
  BY <1>1
<1>4. ASSUME NEW q \in Servers \ {p}
      PROVE  request[q] = NoRequest \/ InHand(request[q], bookings', credits', today')
  <2>1. request[q] = NoRequest \/ InHand(request[q], bookings, credits, today)
    BY DEF AllInHand
  <2>2. InHand(request[q], bookings, credits, today) =>
          InHand(request[q], bookings', credits', today)
    BY StaysInHand
  <2> QED BY <2>1, <2>2
<1>5. \A q \in Servers : request'[q] = NoRequest \/ InHand(request'[q], bookings', credits', today')
  BY <1>2, <1>4
<1> QED BY <1>3, <1>5 DEF AllInHand

(* The calls that are left, or some others for the rows as they now are.    *)
LEMMA GoesOn ==
  ASSUME AllInHand(request, bookings, credits, today), NEW p \in Servers,
         NEW on, InHand(request[p], bookings, credits, today), on = request[p].on,
         NEW calls \in CallLists(bookings', credits', on), Then(p, calls),
         Onward(bookings, bookings', credits, credits'), today' = today
  PROVE  AllInHand(request', bookings', credits', today')
<1> DEFINE r == [request[p] EXCEPT !.step = "calls", !.calls = calls]
<1>1. CASE calls = <<>>
  <2>1. request' = [request EXCEPT ![p] = NoRequest]
    BY <1>1 DEF Then, Refuse, GoOn
  <2> QED BY <2>1, Served
<1>2. CASE calls # <<>>
  <2>1. request' = [request EXCEPT ![p] = r]
    BY <1>2 DEF Then, GoOn
  <2>2. on \in Day /\ today \in {on, on + 1} /\ request[p] \in RequestOf(bookings, credits, on)
    BY DEF InHand
  <2>3. PICK h : h = [request[p] EXCEPT !.step = "calls"]
    OBVIOUS
  <2>4. h \in RequestOf(bookings, credits, on) /\ h.step = "calls" /\ h.on = on
    <3>1. "calls" \in STEPS
      BY DEF STEPS
    <3> QED BY <2>2, <2>3, <3>1, StepType
  <2>5. r = [h EXCEPT !.calls = calls]
    BY <2>3
  <2>6. r \in RequestOf(bookings', credits', on) /\ r.calls = calls
    BY <2>4, <2>5, CallsType
  <2>7. r.step = "calls" /\ r.on = on
    BY <2>4, <2>5 DEF RequestOf
  <2> HIDE DEF r
  <2>8. InHand(r, bookings', credits', today')
    BY <1>2, <2>2, <2>6, <2>7 DEF InHand
  <2> QED BY <2>1, <2>8, Served
<1> QED BY <1>1, <1>2

LEMMA Refused ==
  ASSUME AllInHand(request, bookings, credits, today), NEW p \in Servers, Refuse(p),
         Onward(bookings, bookings', credits, credits'), today' = today
  PROVE  AllInHand(request', bookings', credits', today')
BY Served DEF Refuse, GoOn

LEMMA Unmoved ==
  ASSUME UNCHANGED <<bookings, credits>>
  PROVE  Onward(bookings, bookings', credits, credits')
BY DEF Onward

(* A request is taken up with checks to make, or with its calls decided on. *)
LEMMA TakenUp ==
  ASSUME AllInHand(request, bookings, credits, today), today \in Day, NEW p \in Servers,
         NEW r \in RequestOf(bookings, credits, today), NEW step \in STEPS,
         step # "calls", Checking(r, bookings), Accept(p, r, step)
  PROVE  AllInHand(request', bookings', credits', today')
<1> DEFINE h == [r EXCEPT !.step = step]
<1>1. /\ request' = [request EXCEPT ![p] = h]
      /\ bookings' = bookings /\ credits' = credits /\ today' = today
  BY DEF Accept, tables
<1>2. /\ h \in RequestOf(bookings, credits, today) /\ h.step = step /\ h.on = today
      /\ h.op = r.op /\ h.actor = r.actor /\ h.user = r.user
      /\ h.category = r.category /\ h.old = r.old
  BY StepType
<1>3. r.on = today
  BY DEF RequestOf
<1> HIDE DEF h
<1>4. Checking(h, bookings)
  BY <1>2, <1>3 DEF Checking
<1>5. InHand(h, bookings, credits, today)
  BY <1>2, <1>4 DEF InHand
<1>6. InHand(h, bookings', credits', today')
  BY <1>1, <1>5
<1> QED BY <1>1, <1>6, Served, Unmoved

LEMMA TakenUpWithLists ==
  ASSUME AllInHand(request, bookings, credits, today), today \in Day, NEW p \in Servers,
         NEW r \in RequestOf(bookings, credits, today),
         NEW calls \in CallLists(bookings, credits, today), calls # <<>>,
         AcceptEach(p, r, calls)
  PROVE  AllInHand(request', bookings', credits', today')
<1>1. PICK h : h = [r EXCEPT !.calls = calls]
  OBVIOUS
<1>2. h \in RequestOf(bookings, credits, today) /\ h.calls = calls
  BY <1>1, CallsType
<1>3. PICK g : g = [h EXCEPT !.step = "calls"]
  OBVIOUS
<1>4. /\ g \in RequestOf(bookings, credits, today) /\ g.step = "calls" /\ g.on = today
      /\ g.calls = calls
  <2>1. "calls" \in STEPS
    BY DEF STEPS
  <2> QED BY <1>2, <1>3, <2>1, StepType
<1>5. /\ request' = [request EXCEPT ![p] = g]
      /\ bookings' = bookings /\ credits' = credits /\ today' = today
  BY <1>1, <1>3 DEF AcceptEach, Accept, tables
<1>6. InHand(g, bookings, credits, today)
  BY <1>4 DEF InHand
<1>7. InHand(g, bookings', credits', today')
  BY <1>5, <1>6
<1> QED BY <1>5, <1>7, Served, Unmoved

LEMMA TakenUpWithCalls ==
  ASSUME AllInHand(request, bookings, credits, today), today \in Day, NEW p \in Servers,
         NEW r \in RequestOf(bookings, credits, today),
         NEW calls \in Seq(CallsFor(bookings, credits, today)), calls # <<>>,
         AcceptCalls(p, r, calls)
  PROVE  AllInHand(request', bookings', credits', today')
<1> DEFINE D == Seq(CallsFor(bookings, credits, today)) \ {<<>>}
<1>1. calls \in D
  OBVIOUS
<1>2. <<calls>> \in Seq(D) /\ <<calls>> # <<>>
  BY <1>1
<1>3. <<calls>> \in CallLists(bookings, credits, today)
  BY <1>2 DEF CallLists
<1> QED BY <1>2, <1>3, TakenUpWithLists DEF AcceptCalls

-----------------------------------------------------------------------------
(* What a handler decides to call *)

LEMMA RowFacts ==
  ASSUME TablesOK, NEW b \in RowsIn(bookings)
  PROVE  /\ b \in BookingId /\ b \in Booked /\ bookings[b] \in Booking
         /\ bookings[b].status \in CONSUMING_STATES => bookings[b].category # NO_CATEGORY
BY DEF TablesOK, TypeOK, RowsIn, Booked, AllCharged, Charged

LEMMA MovesFrom ==
  ASSUME NEW status \in STATES, NEW target, check_transition(status, target)
  PROVE  status \in CONSUMING_STATES
BY DEF check_transition, ALLOWED_TRANSITIONS, STATES, CONSUMING_STATES

LEMMA UpdateCall ==
  ASSUME NEW b \in RowsIn(bookings), NEW set \in BookingChanges, NEW on,
         MayMove(bookings[b], set.status, on)
  PROVE  Update(b, set) \in CallsFor(bookings, credits, on)
<1>1. Update(b, set) \in BookingUpdate(bookings)
  BY DEF Update, BookingUpdate
<1>2. Update(b, set).id = b /\ Update(b, set).set = set
  BY DEF Update
<1> QED BY <1>1, <1>2 DEF CallsFor

LEMMA ToType ==
  ASSUME NEW status \in {"approved", "rejected", "withdrawn", "released"},
         NEW actor \in Users \cup {Nobody}
  PROVE  To(status, actor) \in BookingChanges /\ To(status, actor).status = status
BY DEF To, BookingChanges

LEMMA EndCallsType ==
  ASSUME NEW b \in RowsIn(bookings), NEW status \in {"withdrawn", "rejected", "released"},
         NEW actor \in Users \cup {Nobody}, NEW on, MayMove(bookings[b], status, on)
  PROVE  EndCalls(b, status, actor) \in Seq(CallsFor(bookings, credits, on)) \ {<<>>}
<1> DEFINE A == CallsFor(bookings, credits, on)
<1>1. Update(b, To(status, actor)) \in A
  BY ToType, UpdateCall
<1>2. ReleaseFor(b) \in A
  <2>1. ReleaseFor(b) \in CreditsOf(bookings)
    BY DEF ReleaseFor, CreditsOf
  <2> QED BY <2>1 DEF CallsFor
<1> HIDE DEF A
<1>3. <<Update(b, To(status, actor))>> \in Seq(A) /\ Len(<<Update(b, To(status, actor))>>) = 1
  BY <1>1
<1>4. <<ReleaseFor(b)>> \in Seq(A) /\ Len(<<ReleaseFor(b)>>) = 1
  BY <1>2
<1>5. PICK rest \in {<<ReleaseFor(b)>>, <<>>} :
        EndCalls(b, status, actor) = <<Update(b, To(status, actor))>> \o rest
  BY DEF EndCalls
<1>6. rest \in Seq(A) /\ Len(rest) \in Nat
  BY <1>4, EmptySeq
<1>7. /\ EndCalls(b, status, actor) \in Seq(A)
      /\ Len(EndCalls(b, status, actor)) = 1 + Len(rest)
  BY <1>3, <1>5, <1>6, ConcatProperties
<1>8. EndCalls(b, status, actor) # <<>>
  BY <1>6, <1>7, EmptySeq
<1> QED BY <1>7, <1>8 DEF A

LEMMA InsertCall ==
  ASSUME NEW row \in Booking, Charged(row), NEW rows, NEW cs, NEW on
  PROVE  Insert(row) \in CallsFor(rows, cs, on)
<1>1. Insert(row) \in BookingInsert /\ Insert(row).row = row
  BY DEF Insert, BookingInsert
<1> QED BY <1>1 DEF CallsFor

LEMMA OneCall ==
  ASSUME NEW A, NEW c \in A
  PROVE  <<c>> \in Seq(A) /\ <<c>> # <<>>
OBVIOUS

(* The nightly tasks and the settling of credits: one call for every row.   *)
LEMMA CallEach ==
  ASSUME NEW N \in Nat, NEW S \in SUBSET (1 .. N), NEW order \in SetToSeqs(S), NEW A,
         NEW lists, DOMAIN lists = DOMAIN order,
         lists = [i \in DOMAIN lists |-> lists[i]],
         \A i \in DOMAIN order : order[i] \in S => lists[i] \in Seq(A) \ {<<>>}
  PROVE  /\ lists \in Seq(Seq(A) \ {<<>>})
         /\ S # {} => lists # <<>>
<1>1. order \in Seq(S)
  BY SomeOrder
<1>2. \A i \in DOMAIN order : order[i] \in S
  BY <1>1
<1>3. \A i \in DOMAIN order : lists[i] \in Seq(A) \ {<<>>}
  BY <1>2
<1> DEFINE D == Seq(A) \ {<<>>}
<1>4. \A i \in DOMAIN order : lists[i] \in D
  BY <1>3
<1> HIDE DEF D
<1>5. lists \in Seq(D) /\ (order # <<>> => lists # <<>>)
  BY <1>1, <1>4, OneListEach
<1> QED BY <1>5, SomeOrder DEF D

-----------------------------------------------------------------------------
(* Every request that is taken up *)

LEMMA AboutType ==
  ASSUME TablesOK, NEW op \in HANDLERS, NEW actor \in Users, NEW b \in RowsIn(bookings)
  PROVE  About(op, actor, b) \in RequestOf(bookings, credits, today)
<1>1. today \in Day /\ bookings[b] \in Booking /\ {b} \in SUBSET BookingId
  BY RowFacts DEF TablesOK, TypeOK
<1>2. /\ bookings[b].user \in Users /\ bookings[b].day \in Day
      /\ bookings[b].category \in CATEGORIES \cup {NO_CATEGORY}
      /\ bookings[b].duration \in VALID_DURATIONS
  BY <1>1 DEF Booking
<1> QED BY <1>1, <1>2, AskedType DEF About

LEMMA BookedRows == Booked = RowsIn(bookings) /\ Claimed = RowsOf(credits)
BY DEF Booked, RowsIn, Claimed, RowsOf

LEMMA CreateTakenUp ==
  ASSUME RequestsInv, NEW p \in Servers, create_find(p)
  PROVE  AllInHand(request', bookings', credits', today')
<1> USE InputsAssumption
<1>1. PICK u \in Bookers, d \in Day, c \in Offered, n \in VALID_DURATIONS, reason \in BOOLEAN :
        /\ Replaceable(OccupyingOn(u, d), d, today)
        /\ Accept(p, Asked("create_or_replace", u, u, d, c, n, reason, OccupyingOn(u, d)),
                  "holiday")
  BY DEF create_find
<1> DEFINE old == OccupyingOn(u, d)
           r == Asked("create_or_replace", u, u, d, c, n, reason, old)
<1>2. today \in Day /\ AllInHand(request, bookings, credits, today) /\ TablesOK
  BY DEF RequestsInv, TablesOK, TypeOK
<1>3. old \subseteq RowsIn(bookings) /\ old \in SUBSET BookingId
  BY DEF OccupyingOn, Booked, RowsIn
<1>4. "create_or_replace" \in HANDLERS /\ "holiday" \in STEPS
  BY DEF HANDLERS, STEPS
<1>5. r \in RequestOf(bookings, credits, today)
  BY <1>2, <1>3, <1>4, AskedType
<1>6. ASSUME NEW b \in old PROVE MayMove(bookings[b], "withdrawn", today)
  <2>1. /\ bookings[b].status \in OCCUPYING_STATES /\ bookings[b].day = d
        /\ bookings[b].status # "unrecognised" /\ ~(d < today)
    BY <1>1 DEF OccupyingOn, Replaceable, is_locked
  <2>2. bookings[b].category # NO_CATEGORY
    BY <1>2, <1>3, <2>1, RowFacts DEF OCCUPYING_STATES, CONSUMING_STATES
  <2>3. bookings[b].day >= today
    BY <1>2, <2>1, BoundsAssumption DEF Day
  <2> QED BY <2>2, <2>3 DEF MayMove
<1>7. Checking(r, bookings)
  <2>1. /\ r.actor = u /\ r.user = u /\ r.category = c /\ r.old = old /\ r.on = today
    BY DEF Asked
  <2> HIDE DEF r
  <2> QED BY <1>3, <1>6, <2>1 DEF Checking
<1> HIDE DEF r
<1> QED BY <1>1, <1>2, <1>4, <1>5, <1>7, TakenUp DEF r

LEMMA WithdrawTakenUp ==
  ASSUME RequestsInv, NEW p \in Servers, withdraw_get(p)
  PROVE  AllInHand(request', bookings', credits', today')
<1>1. PICK b \in Booked :
        /\ ~is_locked(bookings[b].day, today)
        /\ check_transition(bookings[b].status, "withdrawn")
        /\ AcceptCalls(p, About("withdraw", bookings[b].user, b),
                       EndCalls(b, "withdrawn", bookings[b].user))
  BY DEF withdraw_get
<1>2. today \in Day /\ AllInHand(request, bookings, credits, today) /\ TablesOK
  BY DEF RequestsInv, TablesOK, TypeOK
<1>3. b \in RowsIn(bookings)
  BY BookedRows
<1>4. /\ bookings[b].user \in Users /\ bookings[b].day \in Day
      /\ bookings[b].status \in STATES
  BY <1>2, <1>3, RowFacts DEF Booking
<1>5. MayMove(bookings[b], "withdrawn", today)
  <2>1. bookings[b].category # NO_CATEGORY
    BY <1>1, <1>2, <1>3, <1>4, RowFacts, MovesFrom
  <2>2. bookings[b].day >= today
    BY <1>1, <1>2, <1>4, BoundsAssumption DEF is_locked, Day
  <2> QED BY <2>1, <2>2 DEF MayMove
<1>6. "withdraw" \in HANDLERS
  BY DEF HANDLERS
<1>7. About("withdraw", bookings[b].user, b) \in RequestOf(bookings, credits, today)
  BY <1>2, <1>3, <1>4, <1>6, AboutType
<1>8. EndCalls(b, "withdrawn", bookings[b].user)
        \in Seq(CallsFor(bookings, credits, today)) \ {<<>>}
  BY <1>3, <1>4, <1>5, EndCallsType
<1> QED BY <1>1, <1>2, <1>7, <1>8, TakenUpWithCalls

LEMMA DecideTakenUp ==
  ASSUME RequestsInv, NEW p \in Servers, decide_get(p)
  PROVE  AllInHand(request', bookings', credits', today')
<1>1. PICK actor \in Users, b \in Booked, target \in {"approved", "rejected"} :
        /\ check_transition(bookings[b].status, target)
        /\ AcceptCalls(p, About("decide", actor, b),
                       IF target = "rejected" THEN EndCalls(b, target, actor)
                       ELSE <<Update(b, To(target, actor))>>)
  BY DEF decide_get
<1>2. today \in Day /\ AllInHand(request, bookings, credits, today) /\ TablesOK
  BY DEF RequestsInv, TablesOK, TypeOK
<1>3. b \in RowsIn(bookings)
  BY BookedRows
<1>4. bookings[b].status \in STATES
  BY <1>2, <1>3, RowFacts DEF Booking
<1>5. MayMove(bookings[b], target, today)
  BY <1>1, <1>2, <1>3, <1>4, RowFacts, MovesFrom DEF MayMove
<1>6. "decide" \in HANDLERS
  BY DEF HANDLERS
<1>7. About("decide", actor, b) \in RequestOf(bookings, credits, today)
  BY <1>2, <1>3, <1>6, AboutType
<1>8. CASE target = "rejected"
  <2>1. EndCalls(b, target, actor) \in Seq(CallsFor(bookings, credits, today)) \ {<<>>}
    BY <1>3, <1>5, <1>8, EndCallsType
  <2> QED BY <1>1, <1>2, <1>7, <1>8, <2>1, TakenUpWithCalls
<1>9. CASE target # "rejected"
  <2>1. To(target, actor) \in BookingChanges /\ To(target, actor).status = target
    BY <1>9, ToType
  <2>2. Update(b, To(target, actor)) \in CallsFor(bookings, credits, today)
    BY <1>3, <1>5, <2>1, UpdateCall
  <2>3. /\ <<Update(b, To(target, actor))>> \in Seq(CallsFor(bookings, credits, today))
        /\ <<Update(b, To(target, actor))>> # <<>>
    BY <2>2, OneCall
  <2> QED BY <1>1, <1>2, <1>7, <1>9, <2>3, TakenUpWithCalls
<1> QED BY <1>8, <1>9

LEMMA FlagTakenUp ==
  ASSUME RequestsInv, NEW p \in Servers, flag_find(p)
  PROVE  AllInHand(request', bookings', credits', today')
<1> USE InputsAssumption
<1>1. PICK actor \in Users, u \in Bookers, d \in Day :
        AcceptCalls(
         p, Asked("flag", actor, u, d, NO_CATEGORY, FULL_DAY, TRUE, {}),
         <<Insert(NewBooking(u, d, NO_CATEGORY, FULL_DAY, "unrecognised",
                             actor, FALSE))>>)
  BY DEF flag_find
<1> DEFINE row == NewBooking(u, d, NO_CATEGORY, FULL_DAY, "unrecognised", actor, FALSE)
           r == Asked("flag", actor, u, d, NO_CATEGORY, FULL_DAY, TRUE, {})
<1>2. today \in Day /\ AllInHand(request, bookings, credits, today)
  BY DEF RequestsInv, TablesOK, TypeOK
<1>3. FULL_DAY \in VALID_DURATIONS /\ "unrecognised" \in STATES /\ "flag" \in HANDLERS
  BY DEF VALID_DURATIONS, STATES, HANDLERS
<1>4. row \in Booking
  BY <1>3, NewBookingType
<1>5. Charged(row)
  BY DEF Charged, NewBooking, CONSUMING_STATES
<1>6. r \in RequestOf(bookings, credits, today)
  BY <1>2, <1>3, AskedType
<1> HIDE DEF row, r
<1>7. /\ <<Insert(row)>> \in Seq(CallsFor(bookings, credits, today))
      /\ <<Insert(row)>> # <<>>
  BY <1>4, <1>5, InsertCall, OneCall
<1> QED BY <1>1, <1>2, <1>6, <1>7, TakenUpWithCalls DEF row, r

LEMMA BackfillTakenUp ==
  ASSUME RequestsInv, NEW p \in Servers, backfill_holiday(p)
  PROVE  AllInHand(request', bookings', credits', today')
<1> USE InputsAssumption
<1>1. PICK admin \in Users, u \in Bookers, d \in Day, c \in Offered, n \in VALID_DURATIONS,
           reason \in BOOLEAN :
        Accept(p, Asked("backfill", admin, u, d, c, n, reason, {}), "find")
  BY DEF backfill_holiday
<1> DEFINE r == Asked("backfill", admin, u, d, c, n, reason, {})
<1>2. today \in Day /\ AllInHand(request, bookings, credits, today)
  BY DEF RequestsInv, TablesOK, TypeOK
<1>3. "backfill" \in HANDLERS /\ "find" \in STEPS
  BY DEF HANDLERS, STEPS
<1>4. r \in RequestOf(bookings, credits, today)
  BY <1>2, <1>3, AskedType
<1>5. r.op = "backfill" /\ r.actor = admin /\ r.user = u /\ r.category = c /\ r.old = {}
  BY DEF Asked
<1> HIDE DEF r
<1>6. Checking(r, bookings)
  BY <1>5 DEF Checking
<1> QED BY <1>1, <1>2, <1>3, <1>4, <1>6, TakenUp DEF r

LEMMA UndoTakenUp ==
  ASSUME RequestsInv, NEW p \in Servers, undo_get(p)
  PROVE  AllInHand(request', bookings', credits', today')
<1>1. PICK admin \in Users, b \in Booked :
       \/ AcceptCalls(p, About("undo", admin, b), <<UpdateIf(b, To("withdrawn", admin))>>)
       \/ /\ bookings[b].backfilled /\ Consuming(b)
          /\ AcceptCalls(p, About("undo", admin, b), EndCalls(b, "withdrawn", admin))
  BY DEF undo_get
<1>2. today \in Day /\ AllInHand(request, bookings, credits, today) /\ TablesOK
  BY DEF RequestsInv, TablesOK, TypeOK
<1>3. b \in RowsIn(bookings)
  BY BookedRows
<1>4. "undo" \in HANDLERS
  BY DEF HANDLERS
<1>5. About("undo", admin, b) \in RequestOf(bookings, credits, today)
  BY <1>2, <1>3, <1>4, AboutType
<1>6. CASE AcceptCalls(p, About("undo", admin, b), <<UpdateIf(b, To("withdrawn", admin))>>)
  <2>1. To("withdrawn", admin) \in AbsenceChanges
    BY DEF To, AbsenceChanges
  <2>2. UpdateIf(b, To("withdrawn", admin)) \in AbsenceUpdate(bookings)
    BY <1>3, <2>1 DEF UpdateIf, AbsenceUpdate
  <2>3. UpdateIf(b, To("withdrawn", admin)) \in CallsFor(bookings, credits, today)
    BY <2>2 DEF CallsFor
  <2>4. /\ <<UpdateIf(b, To("withdrawn", admin))>> \in Seq(CallsFor(bookings, credits, today))
        /\ <<UpdateIf(b, To("withdrawn", admin))>> # <<>>
    BY <2>3, OneCall
  <2> QED BY <1>2, <1>5, <1>6, <2>4, TakenUpWithCalls
<1>7. CASE /\ bookings[b].backfilled /\ Consuming(b)
           /\ AcceptCalls(p, About("undo", admin, b), EndCalls(b, "withdrawn", admin))
  <2>1. MayMove(bookings[b], "withdrawn", today)
    BY <1>2, <1>3, <1>7, RowFacts DEF MayMove, Consuming
  <2>2. EndCalls(b, "withdrawn", admin) \in Seq(CallsFor(bookings, credits, today)) \ {<<>>}
    BY <1>3, <2>1, EndCallsType
  <2> QED BY <1>2, <1>5, <1>7, <2>2, TakenUpWithCalls
<1> QED BY <1>1, <1>6, <1>7

LEMMA ConvertTakenUp ==
  ASSUME RequestsInv, NEW p \in Servers, convert_get(p)
  PROVE  AllInHand(request', bookings', credits', today')
<1> USE InputsAssumption
<1>1. PICK admin \in Users, b \in Booked, c \in Offered, n \in VALID_DURATIONS,
           reason \in BOOLEAN :
        Accept(p, Asked("convert", admin, bookings[b].user, bookings[b].day,
                        c, n, reason, {b}), "holiday")
  BY DEF convert_get
<1> DEFINE r == Asked("convert", admin, bookings[b].user, bookings[b].day, c, n, reason, {b})
<1>2. today \in Day /\ AllInHand(request, bookings, credits, today) /\ TablesOK
  BY DEF RequestsInv, TablesOK, TypeOK
<1>3. "convert" \in HANDLERS /\ "holiday" \in STEPS
  BY DEF HANDLERS, STEPS
<1>4. b \in RowsIn(bookings) /\ {b} \in SUBSET BookingId
  BY BookedRows DEF RowsIn
<1>5. bookings[b].user \in Users /\ bookings[b].day \in Day
  BY <1>2, <1>4, RowFacts DEF Booking
<1>6. r \in RequestOf(bookings, credits, today)
  BY <1>2, <1>3, <1>4, <1>5, AskedType
<1>7. /\ r.op = "convert" /\ r.actor = admin /\ r.user = bookings[b].user
      /\ r.category = c /\ r.old = {b}
  BY DEF Asked
<1> HIDE DEF r
<1>8. Checking(r, bookings)
  BY <1>4, <1>5, <1>7 DEF Checking
<1> QED BY <1>1, <1>2, <1>3, <1>6, <1>8, TakenUp DEF r

LEMMA HolidayCalls ==
  ASSUME NEW old \in SUBSET Holiday, NEW new \in Holiday, NEW d \in Day,
         NEW l \in Locations \cup {Everywhere}, NEW rows, NEW cs, NEW on
  PROVE  /\ <<WriteHoliday(old, new), ReleaseOn(d, l)>> \in Seq(CallsFor(rows, cs, on))
         /\ <<WriteHoliday(old, new), ReleaseOn(d, l)>> # <<>>
<1> DEFINE A == CallsFor(rows, cs, on)
<1>1. WriteHoliday(old, new) \in HolidayWrite /\ ReleaseOn(d, l) \in HolidayRelease
  BY DEF WriteHoliday, HolidayWrite, ReleaseOn, HolidayRelease
<1>2. WriteHoliday(old, new) \in A /\ ReleaseOn(d, l) \in A
  BY <1>1 DEF CallsFor
<1> HIDE DEF A
<1>3. <<WriteHoliday(old, new), ReleaseOn(d, l)>> \in Seq(A)
  BY <1>2
<1> QED BY <1>3 DEF A

LEMMA HolidayTakenUp ==
  ASSUME RequestsInv, NEW p \in Servers, declare_clash(p) \/ edit_clash(p)
  PROVE  AllInHand(request', bookings', credits', today')
<1> USE InputsAssumption
<1>1. PICK admin \in Users, old \in SUBSET Holiday, new \in Holiday, d \in Day,
           l \in Locations \cup {Everywhere} :
        AcceptCalls(p, AskedOfHolidays(admin), <<WriteHoliday(old, new), ReleaseOn(d, l)>>)
  <2>1. CASE declare_clash(p)
    <3>1. PICK admin \in Users, d \in HolidayDays, l \in Locations \cup {Everywhere} :
            AcceptCalls(p, AskedOfHolidays(admin),
                   <<WriteHoliday({}, [day |-> d, location |-> l]), ReleaseOn(d, l)>>)
      BY <2>1 DEF declare_clash
    <3>2. [day |-> d, location |-> l] \in Holiday /\ {} \in SUBSET Holiday /\ d \in Day
      BY DEF Holiday
    <3> QED BY <3>1, <3>2
  <2>2. CASE edit_clash(p)
    <3>1. PICK admin \in Users, h \in holidays, d \in HolidayDays :
            AcceptCalls(p, AskedOfHolidays(admin),
                   <<WriteHoliday({h}, [h EXCEPT !.day = d]), ReleaseOn(d, Everywhere)>>)
      BY <2>2 DEF edit_clash
    <3>2. h \in Holiday /\ d \in Day
      BY DEF RequestsInv, TablesOK, TypeOK
    <3>3. [h EXCEPT !.day = d] \in Holiday /\ {h} \in SUBSET Holiday
      BY <3>2 DEF Holiday
    <3> QED BY <3>1, <3>2, <3>3
  <2> QED BY <2>1, <2>2
<1>2. today \in Day /\ AllInHand(request, bookings, credits, today)
  BY DEF RequestsInv, TablesOK, TypeOK
<1>3. FULL_DAY \in VALID_DURATIONS /\ "holiday" \in HANDLERS
  BY DEF VALID_DURATIONS, HANDLERS
<1>4. AskedOfHolidays(admin) \in RequestOf(bookings, credits, today)
  BY <1>2, <1>3, AskedType DEF AskedOfHolidays
<1>5. /\ <<WriteHoliday(old, new), ReleaseOn(d, l)>> \in Seq(CallsFor(bookings, credits, today))
      /\ <<WriteHoliday(old, new), ReleaseOn(d, l)>> # <<>>
  BY HolidayCalls
<1> QED BY <1>1, <1>2, <1>4, <1>5, TakenUpWithCalls

LEMMA ClaimTakenUp ==
  ASSUME RequestsInv, NEW p \in Servers, claim_holiday(p)
  PROVE  AllInHand(request', bookings', credits', today')
<1> USE InputsAssumption
<1>1. PICK u \in Bookers, d \in Day, n \in VALID_DURATIONS :
        AcceptCalls(p, Asked("claim", u, u, d, "compoff", n, TRUE, {}),
                    <<InsertCredit(NewClaim(u, d, n))>>)
  BY DEF claim_holiday
<1>2. today \in Day /\ AllInHand(request, bookings, credits, today)
  BY DEF RequestsInv, TablesOK, TypeOK
<1>3. "compoff" \in CATEGORIES /\ "claim" \in HANDLERS
  BY DEF CATEGORIES, HANDLERS
<1>4. Asked("claim", u, u, d, "compoff", n, TRUE, {}) \in RequestOf(bookings, credits, today)
  BY <1>2, <1>3, AskedType
<1>5. NewClaim(u, d, n) \in Credit
  BY DEF NewClaim, Credit, CREDIT_STATES, NoExpiry
<1>6. InsertCredit(NewClaim(u, d, n)) \in CreditInsert
  BY <1>5 DEF InsertCredit, CreditInsert
<1>7. InsertCredit(NewClaim(u, d, n)) \in CallsFor(bookings, credits, today)
  BY <1>6 DEF CallsFor
<1>8. /\ <<InsertCredit(NewClaim(u, d, n))>> \in Seq(CallsFor(bookings, credits, today))
      /\ <<InsertCredit(NewClaim(u, d, n))>> # <<>>
  BY <1>7, OneCall
<1> QED BY <1>1, <1>2, <1>4, <1>8, TakenUpWithCalls

LEMMA CreditCall ==
  ASSUME NEW rows, NEW cs, NEW on, NEW k \in RowsOf(cs), NEW set \in CreditChanges
  PROVE  /\ <<UpdateCredit(k, set)>> \in Seq(CallsFor(rows, cs, on))
         /\ <<UpdateCredit(k, set)>> # <<>>
<1>1. UpdateCredit(k, set) \in CreditUpdate(cs)
  BY DEF UpdateCredit, CreditUpdate
<1>2. UpdateCredit(k, set) \in CallsFor(rows, cs, on)
  BY <1>1 DEF CallsFor
<1> QED BY <1>2, OneCall

LEMMA DecideClaimTakenUp ==
  ASSUME RequestsInv, NEW p \in Servers, decide_claim_get(p)
  PROVE  AllInHand(request', bookings', credits', today')
<1>1. PICK actor \in Users, k \in Claimed, approve \in BOOLEAN :
        AcceptCalls(p, Asked("decide_claim", actor, credits[k].user,
                            credits[k].worked_on, "compoff", FULL_DAY, TRUE, {}),
                   <<UpdateCredit(k,
                       IF approve
                       THEN [status |-> "approved",
                             expires |-> expiry(today, CompoffValidDays)]
                       ELSE [status |-> "rejected"])>>)
  BY DEF decide_claim_get
<1>2. today \in Day /\ AllInHand(request, bookings, credits, today) /\ TypeOK
  BY DEF RequestsInv, TablesOK, TypeOK
<1>3. k \in RowsOf(credits)
  BY BookedRows
<1>4. credits[k].user \in Users /\ credits[k].worked_on \in Day
  BY <1>2, <1>3 DEF RowsOf, TypeOK, Credit
<1>5. "compoff" \in CATEGORIES /\ "decide_claim" \in HANDLERS /\ FULL_DAY \in VALID_DURATIONS
  BY DEF CATEGORIES, HANDLERS, VALID_DURATIONS
<1>6. Asked("decide_claim", actor, credits[k].user, credits[k].worked_on, "compoff",
            FULL_DAY, TRUE, {}) \in RequestOf(bookings, credits, today)
  BY <1>2, <1>4, <1>5, AskedType
<1>7. expiry(today, CompoffValidDays) \in Int
  BY <1>2, BoundsAssumption DEF expiry, Day
<1>8. [status |-> "approved", expires |-> expiry(today, CompoffValidDays)] \in CreditChanges
  BY <1>7 DEF CreditChanges
<1>9. [status |-> "rejected"] \in CreditChanges
  BY DEF CreditChanges
<1> DEFINE set == IF approve
                  THEN [status |-> "approved",
                        expires |-> expiry(today, CompoffValidDays)]
                  ELSE [status |-> "rejected"]
<1>10. set \in CreditChanges
  BY <1>8, <1>9
<1> HIDE DEF set
<1>11. /\ <<UpdateCredit(k, set)>> \in Seq(CallsFor(bookings, credits, today))
       /\ <<UpdateCredit(k, set)>> # <<>>
  BY <1>3, <1>10, CreditCall
<1> QED BY <1>1, <1>2, <1>6, <1>11, TakenUpWithCalls DEF set

LEMMA TaskType ==
  ASSUME today \in Day, NEW op \in HANDLERS
  PROVE  Task(op) \in RequestOf(bookings, credits, today)
<1>1. FULL_DAY \in VALID_DURATIONS
  BY DEF VALID_DURATIONS
<1> QED BY <1>1, AskedType DEF Task

LEMMA SweepTakenUp ==
  ASSUME RequestsInv, sweep_list
  PROVE  AllInHand(request', bookings', credits', today')
<1> DEFINE S == PendingBefore(today)
           A == CallsFor(bookings, credits, today)
<1>1. PICK order \in SetToSeqs(S) :
        AcceptEach(Worker, Task("sweep"),
                   [i \in DOMAIN order |-> <<Update(order[i], [status |-> "approved"])>>])
  BY DEF sweep_list
<1> DEFINE lists == [i \in DOMAIN order |-> <<Update(order[i], [status |-> "approved"])>>]
<1>2. /\ today \in Day /\ AllInHand(request, bookings, credits, today) /\ TablesOK
      /\ S # {} /\ Worker \in Servers
  BY DEF RequestsInv, TablesOK, TypeOK, sweep_list, Servers
<1>3. S \in SUBSET (1 .. MaxBookings) /\ MaxBookings \in Nat
  BY BoundsAssumption DEF PendingBefore, Booked, BookingId
<1>4. ASSUME NEW b \in S
      PROVE  <<Update(b, [status |-> "approved"])>> \in Seq(A) \ {<<>>}
  <2>1. b \in RowsIn(bookings) /\ bookings[b].status = "pending"
    BY DEF PendingBefore, Booked, RowsIn
  <2>2. MayMove(bookings[b], "approved", today)
    BY <1>2, <2>1, RowFacts DEF MayMove, CONSUMING_STATES
  <2>3. [status |-> "approved"] \in BookingChanges /\ [status |-> "approved"].status = "approved"
    BY DEF BookingChanges
  <2>4. Update(b, [status |-> "approved"]) \in A
    BY <2>1, <2>2, <2>3, UpdateCall
  <2> HIDE DEF A
  <2> QED BY <2>4, OneCall
<1>5. /\ DOMAIN lists = DOMAIN order /\ lists = [i \in DOMAIN lists |-> lists[i]]
      /\ \A i \in DOMAIN order : order[i] \in S => lists[i] \in Seq(A) \ {<<>>}
  BY <1>4
<1> HIDE DEF lists, A, S
<1>6. lists \in Seq(Seq(A) \ {<<>>}) /\ lists # <<>>
  <2>1. lists \in Seq(Seq(A) \ {<<>>}) /\ (S # {} => lists # <<>>)
    BY <1>3, <1>5, CallEach
  <2> QED BY <1>2, <2>1
<1>7. lists \in CallLists(bookings, credits, today)
  BY <1>6 DEF CallLists, A
<1>8. "sweep" \in HANDLERS
  BY DEF HANDLERS
<1> QED BY <1>1, <1>2, <1>6, <1>7, <1>8, TaskType, TakenUpWithLists DEF lists

LEMMA LapseTakenUp ==
  ASSUME RequestsInv, lapse_list
  PROVE  AllInHand(request', bookings', credits', today')
<1> DEFINE S == Expired
           A == CallsFor(bookings, credits, today)
<1>1. PICK order \in SetToSeqs(S) :
        AcceptEach(Worker, Task("lapse"),
                   [i \in DOMAIN order |-> <<UpdateCredit(order[i], [status |-> "lapsed"])>>])
  BY DEF lapse_list
<1> DEFINE lists == [i \in DOMAIN order |-> <<UpdateCredit(order[i], [status |-> "lapsed"])>>]
<1>2. /\ today \in Day /\ AllInHand(request, bookings, credits, today)
      /\ S # {} /\ Worker \in Servers
  BY DEF RequestsInv, TablesOK, TypeOK, lapse_list, Servers
<1>3. S \in SUBSET (1 .. MaxCredits) /\ MaxCredits \in Nat
  BY BoundsAssumption DEF Expired, Claimed, CreditId
<1>4. ASSUME NEW k \in S
      PROVE  <<UpdateCredit(k, [status |-> "lapsed"])>> \in Seq(A) \ {<<>>}
  <2>1. k \in RowsOf(credits) /\ [status |-> "lapsed"] \in CreditChanges
    BY DEF Expired, Claimed, RowsOf, CreditChanges
  <2> QED BY <2>1, CreditCall
<1>5. /\ DOMAIN lists = DOMAIN order /\ lists = [i \in DOMAIN lists |-> lists[i]]
      /\ \A i \in DOMAIN order : order[i] \in S => lists[i] \in Seq(A) \ {<<>>}
  BY <1>4
<1> HIDE DEF lists, A, S
<1>6. lists \in Seq(Seq(A) \ {<<>>}) /\ lists # <<>>
  <2>1. lists \in Seq(Seq(A) \ {<<>>}) /\ (S # {} => lists # <<>>)
    BY <1>3, <1>5, CallEach
  <2> QED BY <1>2, <2>1
<1>7. lists \in CallLists(bookings, credits, today)
  BY <1>6 DEF CallLists, A
<1>8. "lapse" \in HANDLERS
  BY DEF HANDLERS
<1> QED BY <1>1, <1>2, <1>6, <1>7, <1>8, TaskType, TakenUpWithLists DEF lists

(* Taking up a request writes nothing, and leaves it with calls it may make.*)
LEMMA TakingUp ==
  ASSUME RequestsInv,
         (\E p \in Threads : AcceptRequest(p)) \/ sweep_list \/ lapse_list
  PROVE  AllInHand(request', bookings', credits', today')
<1>1. ASSUME NEW p \in Threads, AcceptRequest(p)
      PROVE  AllInHand(request', bookings', credits', today')
  <2>1. p \in Servers
    BY DEF Servers
  <2> QED
    BY <1>1, <2>1, CreateTakenUp, WithdrawTakenUp, DecideTakenUp, FlagTakenUp,
       BackfillTakenUp, UndoTakenUp, ConvertTakenUp, HolidayTakenUp, ClaimTakenUp,
       DecideClaimTakenUp
    DEF AcceptRequest
<1> QED BY <1>1, SweepTakenUp, LapseTakenUp

-----------------------------------------------------------------------------
(* The checks that are made later *)

LEMMA InHandNow ==
  ASSUME RequestsInv, NEW p \in Servers, request[p] # NoRequest
  PROVE  /\ InHand(request[p], bookings, credits, today)
         /\ request[p].on \in Day
         /\ request[p] \in RequestOf(bookings, credits, request[p].on)
         /\ request[p].actor \in Users \cup {Nobody}
         /\ request[p].user \in Users \cup {Nobody}
         /\ request[p].day \in Day /\ request[p].duration \in VALID_DURATIONS
<1>1. InHand(request[p], bookings, credits, today)
  BY DEF RequestsInv, AllInHand
<1>2. /\ request[p].on \in Day
      /\ request[p] \in RequestOf(bookings, credits, request[p].on)
  BY <1>1 DEF InHand
<1> QED BY <1>1, <1>2 DEF RequestOf

LEMMA ServingChecks ==
  ASSUME RequestsInv, NEW p \in Servers, NEW op, NEW step, Serving(p, op, step),
         step # "calls"
  PROVE  /\ request[p] # NoRequest /\ request[p].op = op /\ request[p].step = step
         /\ Checking(request[p], bookings)
<1>1. request[p] # NoRequest /\ request[p].op = op /\ request[p].step = step
  BY DEF Serving, InFlight
<1> QED BY <1>1, InHandNow DEF InHand

LEMMA NextCheck ==
  ASSUME RequestsInv, NEW p \in Servers, request[p] # NoRequest,
         Checking(request[p], bookings), NEW step \in STEPS, step # "calls",
         Check(p, step), UNCHANGED <<today, bookings, credits>>
  PROVE  AllInHand(request', bookings', credits', today')
<1>1. PICK r : r = request[p]
  OBVIOUS
<1>2. PICK h : h = [r EXCEPT !.step = step]
  OBVIOUS
<1>3. request' = [request EXCEPT ![p] = h] /\ bookings' = bookings /\ credits' = credits
      /\ today' = today
  BY <1>1, <1>2 DEF Check, GoOn
<1>4. InHand(r, bookings, credits, today) /\ r \in RequestOf(bookings, credits, r.on)
  BY <1>1, InHandNow
<1>5. /\ h \in RequestOf(bookings, credits, r.on) /\ h.step = step /\ h.on = r.on
      /\ h.op = r.op /\ h.actor = r.actor /\ h.user = r.user
      /\ h.category = r.category /\ h.old = r.old
  BY <1>2, <1>4, StepType
<1>6. Checking(h, bookings)
  BY <1>1, <1>5 DEF Checking
<1>7. InHand(h, bookings, credits, today)
  BY <1>4, <1>5, <1>6 DEF InHand
<1>8. InHand(h, bookings', credits', today')
  BY <1>3, <1>7
<1> QED BY <1>3, <1>8, Served, Unmoved DEF RequestsInv

LEMMA GivenUp ==
  ASSUME RequestsInv, NEW p \in Servers, Refuse(p), UNCHANGED <<today, bookings, credits>>
  PROVE  AllInHand(request', bookings', credits', today')
BY Refused, Unmoved DEF RequestsInv

LEMMA CallsToCome ==
  ASSUME RequestsInv, NEW p \in Servers, request[p] # NoRequest,
         NEW calls \in CallLists(bookings, credits, request[p].on), Then(p, calls),
         UNCHANGED <<today, bookings, credits>>
  PROVE  AllInHand(request', bookings', credits', today')
<1>1. PICK on : on = request[p].on
  OBVIOUS
<1>2. calls \in CallLists(bookings', credits', on)
  BY <1>1
<1> QED BY <1>1, <1>2, InHandNow, GoesOn, Unmoved DEF RequestsInv

(* What a backfill or a conversion writes: a new row, or the absence found. *)
LEMMA RecordCallsType ==
  ASSUME NEW r, NEW rows, NEW cs, NEW on, r.old \subseteq RowsIn(rows),
         r.actor \in Users, r.user \in Users, r.day \in Day, r.category \in CATEGORIES,
         r.duration \in VALID_DURATIONS
  PROVE  RecordCalls(r) \in CallLists(rows, cs, on) /\ RecordCalls(r) # <<>>
<1> DEFINE A == CallsFor(rows, cs, on)
           D == Seq(A) \ {<<>>}
<1>1. CASE r.old = {}
  <2> DEFINE row == NewBooking(r.user, r.day, r.category, r.duration, "approved",
                               r.actor, TRUE)
  <2>1. "approved" \in STATES /\ NO_CATEGORY \notin CATEGORIES
    BY DEF STATES, NO_CATEGORY, CATEGORIES
  <2>2. row \in Booking
    BY <2>1, NewBookingType
  <2>3. Charged(row)
    BY <2>1 DEF Charged, NewBooking
  <2>4. RecordCalls(r) = <<<<Insert(row)>>>>
    BY <1>1 DEF RecordCalls
  <2> HIDE DEF row
  <2>5. Insert(row) \in A
    BY <2>2, <2>3, InsertCall
  <2> HIDE DEF A
  <2>6. <<Insert(row)>> \in D
    BY <2>5
  <2> HIDE DEF D
  <2>7. <<<<Insert(row)>>>> \in Seq(D) /\ <<<<Insert(row)>>>> # <<>>
    BY <2>6
  <2> QED BY <2>4, <2>7 DEF CallLists, D, A
<1>2. CASE r.old # {}
  <2> DEFINE b == CHOOSE x \in r.old : TRUE
             set == [status |-> "approved", category |-> r.category,
                     duration |-> r.duration, decided_by |-> r.actor,
                     backfilled |-> TRUE]
  <2>1. b \in RowsIn(rows)
    BY <1>2
  <2>2. set \in AbsenceChanges
    BY DEF AbsenceChanges
  <2>3. RecordCalls(r) = <<<<UpdateIf(b, set)>>>> \o ThenConsume(b, r.category)
    BY <1>2 DEF RecordCalls
  <2> HIDE DEF b, set
  <2>4. UpdateIf(b, set) \in AbsenceUpdate(rows) /\ Consume(b) \in CreditsOf(rows)
    BY <2>1, <2>2 DEF UpdateIf, AbsenceUpdate, Consume, CreditsOf
  <2>5. UpdateIf(b, set) \in A /\ Consume(b) \in A
    BY <2>4 DEF CallsFor
  <2> HIDE DEF A
  <2>6. <<UpdateIf(b, set)>> \in D /\ <<Consume(b)>> \in D
    BY <2>5
  <2> HIDE DEF D
  <2>7. /\ <<<<UpdateIf(b, set)>>>> \in Seq(D) /\ Len(<<<<UpdateIf(b, set)>>>>) = 1
        /\ ThenConsume(b, r.category) \in Seq(D) /\ Len(ThenConsume(b, r.category)) \in Nat
    BY <2>6 DEF ThenConsume
  <2>8. RecordCalls(r) \in Seq(D) /\ Len(RecordCalls(r)) = 1 + Len(ThenConsume(b, r.category))
    BY <2>3, <2>7, ConcatProperties
  <2>9. RecordCalls(r) # <<>>
    BY <2>7, <2>8, EmptySeq
  <2> QED BY <2>8, <2>9 DEF CallLists, D, A
<1> QED BY <1>1, <1>2

LEMMA CreateAffords ==
  ASSUME RequestsInv, NEW p \in Servers, create_afford(p)
  PROVE  AllInHand(request', bookings', credits', today')
<1>1. PICK r : r = request[p]
  OBVIOUS
<1>2. /\ request[p] # NoRequest /\ r.op = "create_or_replace" /\ Checking(r, bookings)
  BY <1>1, ServingChecks DEF create_afford
<1>3. UNCHANGED <<today, bookings, credits>>
  BY DEF create_afford, tables
<1> DEFINE row == NewBooking(r.user, r.day, r.category, r.duration, "pending", Nobody, FALSE)
<1>4. CASE Refuse(p)
  BY <1>3, <1>4, GivenUp
<1>5. ASSUME NEW order \in SetToSeqs(r.old),
             Then(p, Append([i \in DOMAIN order |-> EndCalls(order[i], "withdrawn", r.actor)],
                            <<Insert(row)>>))
      PROVE  AllInHand(request', bookings', credits', today')
  <2> DEFINE A == CallsFor(bookings, credits, r.on)
             lists == [i \in DOMAIN order |-> EndCalls(order[i], "withdrawn", r.actor)]
  <2>1. /\ r.old \subseteq RowsIn(bookings) /\ r.actor \in Users /\ r.user \in Users
        /\ r.category \in CATEGORIES
        /\ \A b \in r.old : MayMove(bookings[b], "withdrawn", r.on)
    BY <1>2 DEF Checking
  <2>2. r.old \in SUBSET (1 .. MaxBookings) /\ MaxBookings \in Nat
    BY <2>1, BoundsAssumption DEF RowsIn, BookingId
  <2>3. ASSUME NEW b \in r.old PROVE EndCalls(b, "withdrawn", r.actor) \in Seq(A) \ {<<>>}
    BY <2>1, EndCallsType
  <2>4. /\ DOMAIN lists = DOMAIN order /\ lists = [i \in DOMAIN lists |-> lists[i]]
        /\ \A i \in DOMAIN order : order[i] \in r.old => lists[i] \in Seq(A) \ {<<>>}
    BY <2>3
  <2>5. Insert(row) \in A
    <3>1. /\ "pending" \in STATES /\ NO_CATEGORY \notin CATEGORIES
          /\ r.day \in Day /\ r.duration \in VALID_DURATIONS
      BY <1>1, <1>2, InHandNow DEF STATES, NO_CATEGORY, CATEGORIES
    <3>2. row \in Booking
      BY <2>1, <3>1, NewBookingType
    <3>3. Charged(row)
      BY <2>1, <3>1 DEF Charged, NewBooking
    <3> HIDE DEF row
    <3> QED BY <3>2, <3>3, InsertCall
  <2> HIDE DEF A, row, lists
  <2>6. lists \in Seq(Seq(A) \ {<<>>})
    BY <2>2, <2>4, CallEach
  <2>7. <<Insert(row)>> \in Seq(A) \ {<<>>}
    BY <2>5, OneCall
  <2>8. Append(lists, <<Insert(row)>>) \in Seq(Seq(A) \ {<<>>})
    BY <2>6, <2>7, AppendProperties
  <2>9. Append(lists, <<Insert(row)>>) \in CallLists(bookings, credits, request[p].on)
    BY <1>1, <2>8 DEF CallLists, A
  <2>10. Then(p, Append(lists, <<Insert(row)>>))
    BY <1>5 DEF lists
  <2> QED BY <1>2, <1>3, <2>9, <2>10, CallsToCome
<1> QED BY <1>1, <1>4, <1>5 DEF create_afford

LEMMA CreateChecks ==
  ASSUME RequestsInv, NEW p \in Servers, create_holiday(p)
  PROVE  AllInHand(request', bookings', credits', today')
<1>1. request[p] # NoRequest /\ Checking(request[p], bookings)
  BY ServingChecks DEF create_holiday
<1>2. UNCHANGED <<today, bookings, credits>> /\ "afford" \in STEPS
  BY DEF create_holiday, tables, STEPS
<1> QED BY <1>1, <1>2, NextCheck, GivenUp DEF create_holiday

LEMMA ConvertChecks ==
  ASSUME RequestsInv, NEW p \in Servers, convert_holiday(p) \/ convert_afford(p)
  PROVE  AllInHand(request', bookings', credits', today')
<1>1. request[p] # NoRequest /\ Checking(request[p], bookings)
  BY ServingChecks DEF convert_holiday, convert_afford
<1>2. UNCHANGED <<today, bookings, credits>> /\ "afford" \in STEPS
  BY DEF convert_holiday, convert_afford, tables, STEPS
<1>3. CASE convert_holiday(p)
  BY <1>1, <1>2, <1>3, NextCheck, GivenUp DEF convert_holiday
<1>4. CASE convert_afford(p)
  <2>1. RecordCalls(request[p]) \in CallLists(bookings, credits, request[p].on)
    BY <1>1, InHandNow, RecordCallsType DEF Checking
  <2>2. Then(p, RecordCalls(request[p])) \/ Refuse(p)
    BY <1>4 DEF convert_afford
  <2> QED BY <1>1, <1>2, <2>1, <2>2, CallsToCome, GivenUp
<1> QED BY <1>3, <1>4

LEMMA BackfillAffords ==
  ASSUME RequestsInv, NEW p \in Servers, backfill_afford(p)
  PROVE  AllInHand(request', bookings', credits', today')
<1>1. request[p] # NoRequest /\ Checking(request[p], bookings)
  BY ServingChecks DEF backfill_afford
<1>2. UNCHANGED <<today, bookings, credits>>
  BY DEF backfill_afford, tables
<1>3. RecordCalls(request[p]) \in CallLists(bookings, credits, request[p].on)
  BY <1>1, InHandNow, RecordCallsType DEF Checking
<1>4. Then(p, RecordCalls(request[p])) \/ Refuse(p)
  BY DEF backfill_afford
<1> QED BY <1>1, <1>2, <1>3, <1>4, CallsToCome, GivenUp

LEMMA BackfillFinds ==
  ASSUME RequestsInv, NEW p \in Servers, backfill_find(p)
  PROVE  AllInHand(request', bookings', credits', today')
<1>1. PICK q : q = request[p]
  OBVIOUS
<1>2. PICK old : old = OccupyingOn(q.user, q.day)
  OBVIOUS
<1>3. PICK r : r = [q EXCEPT !.old = old]
  OBVIOUS
<1>4. /\ request[p] # NoRequest /\ q.op = "backfill" /\ q.step = "find"
      /\ Checking(q, bookings)
  BY <1>1, ServingChecks DEF backfill_find
<1>5. /\ UNCHANGED <<today, bookings, credits>>
      /\ bookings' = bookings /\ credits' = credits /\ today' = today
  BY DEF backfill_find, tables
<1>6. /\ q.on \in Day /\ today \in {q.on, q.on + 1}
      /\ q \in RequestOf(bookings, credits, q.on)
  BY <1>1, <1>4, InHandNow DEF InHand
<1>7. old \in SUBSET BookingId /\ old \subseteq RowsIn(bookings)
  BY <1>2 DEF OccupyingOn, Booked, RowsIn
<1>8. /\ r \in RequestOf(bookings, credits, q.on) /\ r.old = old /\ r.on = q.on
      /\ r.op = q.op /\ r.step = q.step /\ r.actor = q.actor /\ r.user = q.user
      /\ r.day = q.day /\ r.duration = q.duration /\ r.category = q.category
  BY <1>3, <1>6, <1>7, OldType
<1>9. CASE Refuse(p)
  BY <1>5, <1>9, GivenUp
<1>10. CASE GoOn(p, [r EXCEPT !.step = "afford"])
  <2>1. PICK h : h = [r EXCEPT !.step = "afford"]
    OBVIOUS
  <2>2. "afford" \in STEPS
    BY DEF STEPS
  <2>3. /\ h \in RequestOf(bookings, credits, q.on) /\ h.step = "afford" /\ h.on = q.on
        /\ h.op = q.op /\ h.actor = q.actor /\ h.user = q.user
        /\ h.category = q.category /\ h.old = old
    BY <1>8, <2>1, <2>2, StepType
  <2>4. Checking(h, bookings)
    BY <1>4, <1>7, <2>3 DEF Checking
  <2>5. InHand(h, bookings', credits', today')
    BY <1>5, <1>6, <2>3, <2>4 DEF InHand
  <2>6. request' = [request EXCEPT ![p] = h]
    BY <1>10, <2>1 DEF GoOn
  <2> QED BY <1>5, <2>5, <2>6, Served, Unmoved DEF RequestsInv
<1>11. CASE GoOn(p, [r EXCEPT !.step = "calls", !.calls = RecordCalls(r)])
  <2>1. PICK calls : calls = RecordCalls(r)
    OBVIOUS
  <2>2. r.duration \in VALID_DURATIONS /\ r.day \in Day
    BY <1>8 DEF RequestOf
  <2>3. calls \in CallLists(bookings, credits, q.on) /\ calls # <<>>
    BY <1>4, <1>7, <1>8, <2>1, <2>2, RecordCallsType DEF Checking
  <2>4. PICK h : h = [r EXCEPT !.step = "calls"]
    OBVIOUS
  <2>5. "calls" \in STEPS
    BY DEF STEPS
  <2>6. h \in RequestOf(bookings, credits, q.on) /\ h.step = "calls" /\ h.on = q.on
    BY <1>8, <2>4, <2>5, StepType
  <2>7. PICK g : g = [h EXCEPT !.calls = calls]
    OBVIOUS
  <2>8. g \in RequestOf(bookings, credits, q.on) /\ g.calls = calls
    BY <2>3, <2>6, <2>7, CallsType
  <2>9. g.step = "calls" /\ g.on = q.on
    BY <2>6, <2>7 DEF RequestOf
  <2>10. InHand(g, bookings', credits', today')
    BY <1>5, <1>6, <2>3, <2>8, <2>9 DEF InHand
  <2>11. request' = [request EXCEPT ![p] = g]
    BY <1>11, <2>1, <2>4, <2>7 DEF GoOn
  <2> QED BY <1>5, <2>10, <2>11, Served, Unmoved DEF RequestsInv
<1> QED BY <1>1, <1>2, <1>3, <1>9, <1>10, <1>11 DEF backfill_find

LEMMA Checked ==
  ASSUME RequestsInv, NEW p \in Servers,
         \/ create_holiday(p) \/ create_afford(p)
         \/ backfill_find(p) \/ backfill_afford(p)
         \/ convert_holiday(p) \/ convert_afford(p)
  PROVE  AllInHand(request', bookings', credits', today')
BY CreateChecks, CreateAffords, BackfillFinds, BackfillAffords, ConvertChecks

-----------------------------------------------------------------------------
(* The calls *)

(* What one step may do to a row that is there.                             *)
Writes(b) ==
  \/ bookings'[b] = bookings[b]
  \/ /\ bookings[b].category # NO_CATEGORY
     /\ bookings'[b].category = bookings[b].category
     /\ bookings'[b].duration = bookings[b].duration
     /\ bookings'[b].status = "withdrawn" =>
          bookings[b].backfilled \/ bookings[b].day >= today - 1
  \/ bookings[b].status = "unrecognised"

Kept ==
  /\ TypeOK' /\ AllCharged(bookings') /\ OnePerDay(bookings')
  /\ AllInHand(request', bookings', credits', today')
  /\ \A b \in RowsIn(bookings) : Writes(b)

LEMMA NothingWritten ==
  ASSUME RequestsInv, UNCHANGED <<today, bookings, credits, holidays>>,
         AllInHand(request', bookings', credits', today')
  PROVE  Kept
BY DEF RequestsInv, TablesOK, TypeOK, Kept, Writes

LEMMA CallNow ==
  ASSUME RequestsInv, NEW p \in Servers, NEW name, Calling(p, name)
  PROVE  /\ request[p] # NoRequest
         /\ request[p].on \in Day /\ today \in {request[p].on, request[p].on + 1}
         /\ Call(p) \in CallsFor(bookings, credits, request[p].on)
         /\ Call(p).call = name
         /\ Rest(p) \in CallLists(bookings, credits, request[p].on)
<1>1. /\ request[p] # NoRequest /\ request[p].step = "calls" /\ Call(p).call = name
  BY DEF Calling, InFlight
<1>2. InHand(request[p], bookings, credits, today)
  BY <1>1, InHandNow
<1> DEFINE A == CallsFor(bookings, credits, request[p].on)
           s == request[p].calls
<1>3. s \in Seq(Seq(A) \ {<<>>}) /\ s # <<>>
  BY <1>1, <1>2 DEF InHand, RequestOf, CallLists
<1> HIDE DEF A
<1>4. Head(Head(s)) \in A
  BY <1>3, FirstCall
<1>5. (IF Len(Head(s)) = 1 THEN Tail(s) ELSE [s EXCEPT ![1] = Tail(@)])
        \in Seq(Seq(A) \ {<<>>})
  BY <1>3, CallsLeft
<1>6. Rest(p) \in CallLists(bookings, credits, request[p].on)
  BY <1>5 DEF Rest, CallLists, A
<1>7. request[p].on \in Day /\ today \in {request[p].on, request[p].on + 1}
  BY <1>2 DEF InHand
<1> QED BY <1>1, <1>4, <1>6, <1>7 DEF Call, A

LEMMA KindOfCall ==
  ASSUME NEW rows, NEW cs, NEW on, NEW c \in CallsFor(rows, cs, on)
  PROVE  /\ c.call = "update_booking" =>
              c \in BookingUpdate(rows) /\ MayMove(rows[c.id], c.set.status, on)
         /\ c.call = "update_booking_if_unrecognised" => c \in AbsenceUpdate(rows)
         /\ c.call = "insert_booking" => c \in BookingInsert /\ Charged(c.row)
         /\ c.call \in {"release_for_booking", "consume"} => c \in CreditsOf(rows)
         /\ c.call = "update_compoff_credit" => c \in CreditUpdate(cs)
         /\ c.call = "insert_compoff_credit" => c \in CreditInsert
         /\ c.call = "write_holiday" => c \in HolidayWrite
         /\ c.call = "release_for_holiday" => c \in HolidayRelease
BY DEF CallsFor, BookingUpdate, AbsenceUpdate, BookingInsert, CreditsOf, CreditUpdate,
       CreditInsert, HolidayWrite, HolidayRelease

LEMMA UpdatedRow ==
  ASSUME NEW row \in Booking, NEW set \in BookingChanges
  PROVE  LET new == Updated(row, set)
         IN /\ new \in Booking /\ new.status = set.status
            /\ new.user = row.user /\ new.day = row.day
            /\ new.category = row.category /\ new.duration = row.duration
            /\ new.backfilled = row.backfilled
<1>1. CASE set \in [status : {"approved"}]
  BY <1>1 DEF Updated, Booking, STATES
<1>2. CASE set \in [status : {"approved", "rejected", "withdrawn", "released"},
                    decided_by : Users \cup {Nobody}]
  BY <1>2 DEF Updated, Booking, STATES
<1> QED BY <1>1, <1>2 DEF BookingChanges

LEMMA UpdatedAbsence ==
  ASSUME NEW row \in Booking, NEW set \in AbsenceChanges
  PROVE  LET new == Updated(row, set)
         IN /\ new \in Booking /\ new.status = set.status
            /\ new.user = row.user /\ new.day = row.day
            /\ row.category # NO_CATEGORY => new.category # NO_CATEGORY
            /\ row.backfilled => new.backfilled
            /\ Charged(new)
<1>1. CASE set \in [status : {"withdrawn"}, decided_by : Users]
  BY <1>1 DEF Updated, Booking, STATES, Charged, CONSUMING_STATES
<1>2. CASE set \in [status : {"approved"}, category : CATEGORIES,
                    duration : VALID_DURATIONS, decided_by : Users, backfilled : {TRUE}]
  <2>1. NO_CATEGORY \notin CATEGORIES
    BY DEF NO_CATEGORY, CATEGORIES
  <2>2. Updated(row, set) \in Booking
    BY <1>2 DEF Updated, Booking, STATES
  <2>3. /\ Updated(row, set).status = set.status
        /\ Updated(row, set).user = row.user /\ Updated(row, set).day = row.day
        /\ Updated(row, set).category = set.category
        /\ Updated(row, set).backfilled = TRUE
        /\ set.category \in CATEGORIES
    BY <1>2 DEF Updated, Booking
  <2> QED BY <2>1, <2>2, <2>3 DEF Charged
<1> QED BY <1>1, <1>2 DEF AbsenceChanges

LEMMA UpdatedCredit ==
  ASSUME NEW row \in Credit, NEW set \in CreditChanges
  PROVE  Updated(row, set) \in Credit
<1>1. CASE set \in [status : {"approved"}, booking : {NoBooking}]
  BY <1>1 DEF Updated, Credit, CREDIT_STATES
<1>2. CASE set \in [status : {"used"}, booking : BookingId]
  BY <1>2 DEF Updated, Credit, CREDIT_STATES
<1>3. CASE set \in [status : {"approved"}, expires : Int]
  BY <1>3 DEF Updated, Credit, CREDIT_STATES
<1>4. CASE set \in [status : {"rejected", "lapsed"}]
  BY <1>4 DEF Updated, Credit, CREDIT_STATES
<1> QED BY <1>1, <1>2, <1>3, <1>4 DEF CreditChanges

(* A row that may take its day is written.                                  *)
LEMMA RowWritten ==
  ASSUME TablesOK, NEW n \in BookingId, NEW row \in Booking, Charged(row),
         bookings' = [bookings EXCEPT ![n] = row],
         UNCHANGED <<today, credits, holidays>>,
         row.status \in OCCUPYING_STATES => OccupyingOn(row.user, row.day) \ {n} = {}
  PROVE  TypeOK' /\ AllCharged(bookings') /\ OnePerDay(bookings')
<1>1. TypeOK'
  BY DEF TablesOK, TypeOK
<1>2. bookings'[n] = row /\ \A b \in BookingId \ {n} : bookings'[b] = bookings[b]
  BY DEF TablesOK, TypeOK
<1>3. AllCharged(bookings')
  BY <1>2 DEF TablesOK, AllCharged, RowsIn
<1>4. ASSUME NEW b \in RowsIn(bookings'), b # n,
             bookings'[b].status \in OCCUPYING_STATES,
             bookings'[b].user = row.user, bookings'[b].day = row.day,
             row.status \in OCCUPYING_STATES
      PROVE  FALSE
  <2>1. b \in OccupyingOn(row.user, row.day)
    BY <1>2, <1>4 DEF OccupyingOn, Booked, RowsIn
  <2> QED BY <1>4, <2>1
<1>5. OnePerDay(bookings')
  <2> SUFFICES ASSUME NEW a \in RowsIn(bookings'), NEW b \in RowsIn(bookings'),
                      bookings'[a].user = bookings'[b].user,
                      bookings'[a].day = bookings'[b].day,
                      bookings'[a].status \in OCCUPYING_STATES,
                      bookings'[b].status \in OCCUPYING_STATES, a # b
               PROVE  FALSE
    BY DEF OnePerDay
  <2>1. CASE a = n
    BY <1>2, <1>4, <2>1 DEF RowsIn
  <2>2. CASE b = n
    BY <1>2, <1>4, <2>2 DEF RowsIn
  <2>3. CASE a # n /\ b # n
    BY <1>2, <2>3 DEF TablesOK, OnePerDay, RowsIn
  <2> QED BY <2>1, <2>2, <2>3
<1> QED BY <1>1, <1>3, <1>5

LEMMA RowGoesOn ==
  ASSUME TablesOK, NEW n \in BookingId, NEW row \in Booking,
         bookings' = [bookings EXCEPT ![n] = row], credits' = credits,
         \/ bookings[n] = NoRow
         \/ /\ row.day = bookings[n].day
            /\ bookings[n].category # NO_CATEGORY => row.category # NO_CATEGORY
            /\ bookings[n].backfilled => row.backfilled
  PROVE  Onward(bookings, bookings', credits, credits')
<1>1. bookings'[n] = row /\ \A b \in BookingId \ {n} : bookings'[b] = bookings[b]
  BY DEF TablesOK, TypeOK
<1>2. row # NoRow
  BY NoRowAssumption
<1> QED BY <1>1, <1>2 DEF Onward, RowsIn

LEMMA UpdateMade ==
  ASSUME RequestsInv, NEW p \in Servers, update_booking(p)
  PROVE  Kept
<1>1. PICK c : c = Call(p)
  OBVIOUS
<1>2. PICK b : b = c.id
  OBVIOUS
<1>3. PICK row : row = Updated(bookings[b], c.set)
  OBVIOUS
<1>4. PICK on : on = request[p].on
  OBVIOUS
<1>5. /\ request[p] # NoRequest /\ on \in Day /\ today \in {on, on + 1}
      /\ c \in BookingUpdate(bookings) /\ MayMove(bookings[b], c.set.status, on)
      /\ Rest(p) \in CallLists(bookings, credits, on)
  BY <1>1, <1>2, <1>4, CallNow, KindOfCall DEF update_booking
<1>6. b \in RowsIn(bookings) /\ c.set \in BookingChanges
  BY <1>2, <1>5 DEF BookingUpdate
<1>7. TablesOK /\ b \in BookingId /\ bookings[b] \in Booking
  BY <1>6, RowFacts DEF RequestsInv
<1>8. /\ row \in Booking /\ row.status = c.set.status
      /\ row.user = bookings[b].user /\ row.day = bookings[b].day
      /\ row.category = bookings[b].category /\ row.duration = bookings[b].duration
      /\ row.backfilled = bookings[b].backfilled
  BY <1>3, <1>6, <1>7, UpdatedRow
<1>9. UNCHANGED <<today, credits, holidays>> /\ today' = today /\ credits' = credits
  BY DEF update_booking
<1>10. CASE DayTaken(b, row)
  <2>1. Raised(p) /\ bookings' = bookings
    BY <1>1, <1>2, <1>3, <1>10 DEF update_booking
  <2>2. PICK calls \in CallLists(bookings, credits, on) : Then(p, calls)
    <3>1. <<>> \in CallLists(bookings, credits, on)
      BY DEF CallLists
    <3> QED BY <1>5, <2>1, <3>1 DEF Raised
  <2>3. AllInHand(request', bookings', credits', today')
    BY <1>4, <1>5, <1>9, <2>1, <2>2, CallsToCome
  <2> QED BY <1>9, <2>1, <2>3, NothingWritten
<1>11. CASE ~DayTaken(b, row)
  <2>1. Then(p, Rest(p)) /\ bookings' = [bookings EXCEPT ![b] = row]
    BY <1>1, <1>2, <1>3, <1>11 DEF update_booking
  <2>2. Charged(row)
    BY <1>5, <1>8 DEF Charged, MayMove
  <2>3. TypeOK' /\ AllCharged(bookings') /\ OnePerDay(bookings')
    BY <1>7, <1>8, <1>9, <1>11, <2>1, <2>2, RowWritten DEF DayTaken
  <2>4. Onward(bookings, bookings', credits, credits')
    BY <1>7, <1>8, <1>9, <2>1, RowGoesOn
  <2>5. Rest(p) \in CallLists(bookings', credits', on)
    BY <1>5, <2>4, ListsStay
  <2>6. AllInHand(request', bookings', credits', today')
    BY <1>4, <1>5, <1>9, <2>1, <2>4, <2>5, InHandNow, GoesOn DEF RequestsInv
  <2>7. ASSUME NEW x \in RowsIn(bookings) PROVE Writes(x)
    <3>1. CASE x # b
      BY <2>1, <3>1 DEF Writes, RowsIn, RequestsInv, TablesOK, TypeOK
    <3>2. CASE x = b
      <4>1. bookings'[b] = row
        BY <1>7, <2>1 DEF TablesOK, TypeOK
      <4>2. bookings[b].day >= on => bookings[b].day >= today - 1
        BY <1>5, <1>7, BoundsAssumption DEF Booking, Day
      <4> QED BY <1>5, <1>8, <3>2, <4>1, <4>2 DEF Writes, MayMove
    <3> QED BY <3>1, <3>2
  <2> QED BY <2>3, <2>6, <2>7 DEF Kept
<1> QED BY <1>10, <1>11

(* A new row lands, or an absence is settled, and the handler goes on.      *)
LEMMA RowLanded ==
  ASSUME RequestsInv, NEW p \in Servers, request[p] # NoRequest,
         NEW on, on = request[p].on,
         NEW n \in BookingId, NEW row \in Booking, Charged(row),
         bookings' = [bookings EXCEPT ![n] = row],
         UNCHANGED <<today, credits, holidays>>,
         row.status \in OCCUPYING_STATES => OccupyingOn(row.user, row.day) \ {n} = {},
         \/ bookings[n] = NoRow
         \/ /\ row.day = bookings[n].day
            /\ bookings[n].category # NO_CATEGORY => row.category # NO_CATEGORY
            /\ bookings[n].backfilled => row.backfilled
            /\ bookings[n].status = "unrecognised",
         NEW calls \in CallLists(bookings', credits', on), Then(p, calls)
  PROVE  Kept
<1>1. TablesOK /\ credits' = credits /\ today' = today
  BY DEF RequestsInv
<1>2. TypeOK' /\ AllCharged(bookings') /\ OnePerDay(bookings')
  BY <1>1, RowWritten
<1>3. Onward(bookings, bookings', credits, credits')
  BY <1>1, RowGoesOn
<1>4. AllInHand(request', bookings', credits', today')
  BY <1>1, <1>3, InHandNow, GoesOn DEF RequestsInv
<1>5. ASSUME NEW x \in RowsIn(bookings) PROVE Writes(x)
  <2>1. CASE x # n
    BY <1>1, <2>1 DEF Writes, RowsIn, TablesOK, TypeOK
  <2>2. CASE x = n
    BY <2>2 DEF Writes, RowsIn
  <2> QED BY <2>1, <2>2
<1> QED BY <1>2, <1>4, <1>5 DEF Kept

LEMMA AbsenceSettled ==
  ASSUME RequestsInv, NEW p \in Servers, update_booking_if_status(p)
  PROVE  Kept
<1>1. PICK c : c = Call(p)
  OBVIOUS
<1>2. PICK b : b = c.id
  OBVIOUS
<1>3. PICK row : row = Updated(bookings[b], c.set)
  OBVIOUS
<1>4. PICK on : on = request[p].on
  OBVIOUS
<1>5. /\ request[p] # NoRequest /\ c \in AbsenceUpdate(bookings)
      /\ Rest(p) \in CallLists(bookings, credits, on)
  BY <1>1, <1>4, CallNow, KindOfCall DEF update_booking_if_status
<1>6. b \in RowsIn(bookings) /\ c.set \in AbsenceChanges
  BY <1>2, <1>5 DEF AbsenceUpdate
<1>7. TablesOK /\ b \in BookingId /\ bookings[b] \in Booking
  BY <1>6, RowFacts DEF RequestsInv
<1>8. /\ row \in Booking /\ Charged(row)
      /\ row.user = bookings[b].user /\ row.day = bookings[b].day
      /\ bookings[b].category # NO_CATEGORY => row.category # NO_CATEGORY
      /\ bookings[b].backfilled => row.backfilled
  BY <1>3, <1>6, <1>7, UpdatedAbsence
<1>9. UNCHANGED <<today, credits, holidays>>
  BY DEF update_booking_if_status
<1>10. CASE bookings[b].status # "unrecognised"
  <2>1. Refuse(p) /\ UNCHANGED bookings
    BY <1>1, <1>2, <1>10 DEF update_booking_if_status
  <2>2. UNCHANGED <<today, bookings, credits, holidays>>
    BY <1>9, <2>1
  <2> QED BY <2>1, <2>2, GivenUp, NothingWritten
<1>11. CASE bookings[b].status = "unrecognised"
  <2>1. Then(p, Rest(p)) /\ bookings' = [bookings EXCEPT ![b] = row]
    BY <1>1, <1>2, <1>3, <1>11 DEF update_booking_if_status
  <2>2. OccupyingOn(row.user, row.day) \ {b} = {}
    <3> SUFFICES ASSUME NEW a \in OccupyingOn(row.user, row.day), a # b PROVE FALSE
      OBVIOUS
    <3>1. /\ a \in RowsIn(bookings) /\ bookings[a].user = bookings[b].user
          /\ bookings[a].day = bookings[b].day /\ bookings[a].status \in OCCUPYING_STATES
      BY <1>8 DEF OccupyingOn, Booked, RowsIn
    <3>2. bookings[b].status \in OCCUPYING_STATES
      BY <1>11 DEF OCCUPYING_STATES
    <3> QED BY <1>6, <1>7, <3>1, <3>2 DEF TablesOK, OnePerDay
  <2>3. Onward(bookings, bookings', credits, credits')
    BY <1>7, <1>8, <1>9, <2>1, RowGoesOn
  <2>4. PICK calls \in CallLists(bookings', credits', on) : calls = Rest(p)
    BY <1>5, <2>3, ListsStay
  <2>5. Then(p, calls)
    BY <2>1, <2>4
  <2> QED BY <1>4, <1>5, <1>7, <1>8, <1>9, <1>11, <2>1, <2>2, <2>5, RowLanded
<1> QED BY <1>10, <1>11

LEMMA BookingInserted ==
  ASSUME RequestsInv, NEW p \in Servers, insert_booking(p)
  PROVE  Kept
<1>1. PICK c : c = Call(p)
  OBVIOUS
<1>2. PICK row : row = c.row
  OBVIOUS
<1>3. PICK on : on = request[p].on
  OBVIOUS
<1>4. /\ request[p] # NoRequest /\ c \in BookingInsert /\ Charged(row)
  BY <1>1, <1>2, CallNow, KindOfCall DEF insert_booking
<1>5. row \in Booking
  BY <1>2, <1>4 DEF BookingInsert
<1>6. PICK n \in BookingId :
        /\ bookings[n] = NoRow
        /\ IF DayTaken(n, row)
           THEN Refuse(p) /\ UNCHANGED bookings
           ELSE /\ bookings' = [bookings EXCEPT ![n] = row]
                /\ Then(p, ThenConsume(n, row.category))
  BY <1>1, <1>2 DEF insert_booking, IsNextRow
<1>7. UNCHANGED <<today, credits, holidays>>
  BY DEF insert_booking
<1>8. CASE DayTaken(n, row)
  <2>1. Refuse(p) /\ UNCHANGED <<today, bookings, credits, holidays>>
    BY <1>6, <1>7, <1>8
  <2> QED BY <2>1, GivenUp, NothingWritten
<1>9. CASE ~DayTaken(n, row)
  <2>1. /\ bookings' = [bookings EXCEPT ![n] = row]
        /\ Then(p, ThenConsume(n, row.category))
    BY <1>6, <1>9
  <2>2. n \in RowsIn(bookings')
    <3>1. bookings'[n] = row
      BY <2>1 DEF RequestsInv, TablesOK, TypeOK
    <3> QED BY <1>5, <3>1, NoRowAssumption DEF RowsIn
  <2>3. ThenConsume(n, row.category) \in CallLists(bookings', credits', on)
    <3> DEFINE A == CallsFor(bookings', credits', on)
               D == Seq(A) \ {<<>>}
    <3>1. Consume(n) \in CreditsOf(bookings')
      BY <2>2 DEF Consume, CreditsOf
    <3>2. Consume(n) \in A
      BY <3>1 DEF CallsFor
    <3> HIDE DEF A
    <3>3. <<Consume(n)>> \in D
      BY <3>2, OneCall
    <3> HIDE DEF D
    <3>4. <<<<Consume(n)>>>> \in Seq(D) /\ <<>> \in Seq(D)
      BY <3>3
    <3> QED BY <3>4 DEF ThenConsume, CallLists, D, A
  <2>4. PICK calls \in CallLists(bookings', credits', on) : calls = ThenConsume(n, row.category)
    BY <2>3
  <2>5. Then(p, calls)
    BY <2>1, <2>4
  <2>6. row.status \in OCCUPYING_STATES => OccupyingOn(row.user, row.day) \ {n} = {}
    BY <1>9 DEF DayTaken
  <2> QED BY <1>3, <1>4, <1>5, <1>6, <1>7, <2>1, <2>5, <2>6, RowLanded
<1> QED BY <1>8, <1>9

(* Calls for the credits of a booking come before what is left.             *)
LEMMA CreditsReleased ==
  ASSUME RequestsInv, NEW p \in Servers, release_for_booking(p)
  PROVE  Kept
<1> DEFINE S == UsedBy(Call(p).id)
           free == [status |-> "approved", booking |-> NoBooking]
           A == CallsFor(bookings, credits, request[p].on)
           D == Seq(A) \ {<<>>}
<1>1. PICK order \in SetToSeqs(S) :
        Then(p, [i \in DOMAIN order |-> <<UpdateCredit(order[i], free)>>] \o Rest(p))
  BY DEF release_for_booking
<1> DEFINE lists == [i \in DOMAIN order |-> <<UpdateCredit(order[i], free)>>]
<1>2. UNCHANGED <<today, bookings, credits, holidays>>
  BY DEF release_for_booking, tables
<1>3. S \in SUBSET (1 .. MaxCredits) /\ MaxCredits \in Nat /\ S \subseteq RowsOf(credits)
  BY BoundsAssumption DEF UsedBy, Claimed, CreditId, RowsOf
<1>4. ASSUME NEW k \in S PROVE <<UpdateCredit(k, free)>> \in D
  <2>1. k \in RowsOf(credits) /\ free \in CreditChanges
    BY <1>3 DEF CreditChanges
  <2> QED BY <2>1, CreditCall
<1>5. /\ DOMAIN lists = DOMAIN order /\ lists = [i \in DOMAIN lists |-> lists[i]]
      /\ \A i \in DOMAIN order : order[i] \in S => lists[i] \in D
  BY <1>4
<1>6. request[p] # NoRequest /\ Rest(p) \in Seq(D)
  BY CallNow DEF release_for_booking, CallLists
<1> HIDE DEF lists, A, S
<1>7. lists \in Seq(D)
  BY <1>3, <1>5, CallEach
<1> HIDE DEF D
<1>8. lists \o Rest(p) \in Seq(D)
  BY <1>6, <1>7, ConcatProperties
<1>9. PICK calls \in CallLists(bookings, credits, request[p].on) : calls = lists \o Rest(p)
  BY <1>8 DEF CallLists, D, A
<1>10. Then(p, calls)
  BY <1>1, <1>9 DEF lists
<1> QED BY <1>2, <1>6, <1>10, CallsToCome, NothingWritten

LEMMA CreditsPicked ==
  ASSUME RequestsInv, NEW p \in Servers, consume(p)
  PROVE  Kept
<1> DEFINE r == request[p]
           mine == ApprovedCredits(credits, r.user)
           picks == pick_credits(credits, mine, r.duration, r.on)
           A == CallsFor(bookings, credits, r.on)
           D == Seq(A) \ {<<>>}
<1>1. PICK b : b = Call(p).id
  OBVIOUS
<1>2. UNCHANGED <<today, bookings, credits, holidays>>
  BY DEF consume, tables
<1>3. request[p] # NoRequest /\ Call(p) \in CreditsOf(bookings)
  BY CallNow, KindOfCall DEF consume
<1>4. b \in BookingId
  BY <1>1, <1>3 DEF CreditsOf, RowsIn
<1>5. CASE picks = {}
  <2>1. Refuse(p)
    BY <1>5 DEF consume
  <2> QED BY <1>2, <2>1, GivenUp, NothingWritten
<1>6. CASE picks # {}
  <2> DEFINE set == [status |-> "used", booking |-> b]
  <2>0. PICK C \in picks :
          \E order \in SetToSeqs(C) :
            Then(p, [i \in DOMAIN order |-> <<UpdateCredit(order[i], set)>>])
    BY <1>1, <1>6 DEF consume
  <2>1. PICK order \in SetToSeqs(C) :
          Then(p, [i \in DOMAIN order |-> <<UpdateCredit(order[i], set)>>])
    BY <2>0
  <2> DEFINE lists == [i \in DOMAIN order |-> <<UpdateCredit(order[i], set)>>]
  <2>2. C \subseteq mine
    BY DEF pick_credits
  <2>3. C \in SUBSET (1 .. MaxCredits) /\ MaxCredits \in Nat /\ C \subseteq RowsOf(credits)
    BY <2>2, BoundsAssumption DEF ApprovedCredits, CreditId, RowsOf
  <2>4. ASSUME NEW k \in C PROVE <<UpdateCredit(k, set)>> \in D
    <3>1. k \in RowsOf(credits) /\ set \in CreditChanges
      BY <1>4, <2>3 DEF CreditChanges
    <3> QED BY <3>1, CreditCall
  <2>5. /\ DOMAIN lists = DOMAIN order /\ lists = [i \in DOMAIN lists |-> lists[i]]
        /\ \A i \in DOMAIN order : order[i] \in C => lists[i] \in D
    BY <2>4
  <2> HIDE DEF lists, A, picks
  <2>6. lists \in Seq(D)
    BY <2>3, <2>5, CallEach
  <2> HIDE DEF D
  <2>7. PICK calls \in CallLists(bookings, credits, request[p].on) : calls = lists
    BY <2>6 DEF CallLists, D, A
  <2>8. Then(p, calls)
    BY <2>1, <2>7 DEF lists
  <2> QED BY <1>2, <1>3, <2>8, CallsToCome, NothingWritten
<1> QED BY <1>5, <1>6

(* A row of compoff_credits is written.                                     *)
LEMMA CreditLanded ==
  ASSUME RequestsInv, NEW p \in Servers, request[p] # NoRequest,
         NEW k \in CreditId, NEW row \in Credit, credits' = [credits EXCEPT ![k] = row],
         UNCHANGED <<today, bookings, holidays>>,
         NEW on, on = request[p].on,
         NEW calls \in CallLists(bookings, credits, on), Then(p, calls)
  PROVE  Kept
<1>1. TypeOK' /\ bookings' = bookings /\ today' = today
  BY DEF RequestsInv, TablesOK, TypeOK
<1>2. Onward(bookings, bookings', credits, credits')
  BY NoRowAssumption DEF Onward, RowsIn, RowsOf, RequestsInv, TablesOK, TypeOK
<1>3. PICK left \in CallLists(bookings', credits', on) : left = calls
  BY <1>2, ListsStay
<1>4. AllInHand(request', bookings', credits', today')
  BY <1>1, <1>2, <1>3, InHandNow, GoesOn DEF RequestsInv
<1>5. AllCharged(bookings') /\ OnePerDay(bookings')
  BY <1>1 DEF RequestsInv, TablesOK
<1> QED BY <1>1, <1>4, <1>5 DEF Kept, Writes

LEMMA CreditUpdated ==
  ASSUME RequestsInv, NEW p \in Servers, update_compoff_credit(p)
  PROVE  Kept
<1>1. PICK c : c = Call(p)
  OBVIOUS
<1>2. PICK k : k = c.id
  OBVIOUS
<1>3. PICK row : row = Updated(credits[k], c.set)
  OBVIOUS
<1>4. PICK on : on = request[p].on
  OBVIOUS
<1>5. /\ request[p] # NoRequest /\ c \in CreditUpdate(credits)
      /\ Rest(p) \in CallLists(bookings, credits, on)
  BY <1>1, <1>4, CallNow, KindOfCall DEF update_compoff_credit
<1>6. k \in RowsOf(credits) /\ c.set \in CreditChanges
  BY <1>2, <1>5 DEF CreditUpdate
<1>7. k \in CreditId /\ credits[k] \in Credit
  BY <1>6 DEF RowsOf, RequestsInv, TablesOK, TypeOK
<1>8. row \in Credit
  BY <1>3, <1>6, <1>7, UpdatedCredit
<1>9. UNCHANGED <<today, bookings, holidays>>
  BY DEF update_compoff_credit
<1>10. CASE WorkedDayClaimed(k, row)
  <2>1. Refuse(p) /\ UNCHANGED <<today, bookings, credits, holidays>>
    BY <1>1, <1>2, <1>3, <1>9, <1>10 DEF update_compoff_credit
  <2> QED BY <2>1, GivenUp, NothingWritten
<1>11. CASE ~WorkedDayClaimed(k, row)
  <2>1. Then(p, Rest(p)) /\ credits' = [credits EXCEPT ![k] = row]
    BY <1>1, <1>2, <1>3, <1>11 DEF update_compoff_credit
  <2> QED BY <1>4, <1>5, <1>7, <1>8, <1>9, <2>1, CreditLanded
<1> QED BY <1>10, <1>11

LEMMA CreditInserted ==
  ASSUME RequestsInv, NEW p \in Servers, insert_compoff_credit(p)
  PROVE  Kept
<1>1. PICK c : c = Call(p)
  OBVIOUS
<1>2. PICK row : row = c.row
  OBVIOUS
<1>3. PICK on : on = request[p].on
  OBVIOUS
<1>4. request[p] # NoRequest /\ c \in CreditInsert
  BY <1>1, CallNow, KindOfCall DEF insert_compoff_credit
<1>5. row \in Credit
  BY <1>2, <1>4 DEF CreditInsert
<1>6. PICK n \in CreditId :
        credits' = IF WorkedDayClaimed(n, row) THEN credits ELSE [credits EXCEPT ![n] = row]
  BY <1>1, <1>2 DEF insert_compoff_credit
<1>7. UNCHANGED <<today, bookings, holidays>> /\ Refuse(p)
  BY DEF insert_compoff_credit
<1>8. CASE WorkedDayClaimed(n, row)
  BY <1>6, <1>7, <1>8, GivenUp, NothingWritten
<1>9. CASE ~WorkedDayClaimed(n, row)
  <2>1. PICK calls \in CallLists(bookings, credits, on) : calls = <<>>
    <3>1. <<>> \in CallLists(bookings, credits, on)
      BY DEF CallLists
    <3> QED BY <3>1
  <2>2. Then(p, calls)
    BY <1>7, <2>1 DEF Then
  <2> QED BY <1>3, <1>4, <1>5, <1>6, <1>7, <1>9, <2>2, CreditLanded
<1> QED BY <1>8, <1>9

(* The holidays are written.                                                *)
LEMMA HolidaysWritten ==
  ASSUME RequestsInv, UNCHANGED <<today, bookings, credits>>, holidays' \in SUBSET Holiday,
         AllInHand(request', bookings', credits', today')
  PROVE  Kept
BY DEF RequestsInv, TablesOK, TypeOK, Kept, Writes

LEMMA HolidayWritten ==
  ASSUME RequestsInv, NEW p \in Servers, write_holiday(p)
  PROVE  Kept
<1>1. PICK c : c = Call(p)
  OBVIOUS
<1>2. /\ request[p] # NoRequest /\ c \in HolidayWrite
      /\ Rest(p) \in CallLists(bookings, credits, request[p].on)
  BY <1>1, CallNow, KindOfCall DEF write_holiday
<1>3. /\ holidays' = (holidays \ c.old) \cup {c.new}
      /\ Then(p, Rest(p)) /\ UNCHANGED <<today, bookings, credits>>
  BY <1>1 DEF write_holiday
<1>4. holidays' \in SUBSET Holiday
  BY <1>2, <1>3 DEF HolidayWrite, RequestsInv, TablesOK, TypeOK
<1>5. AllInHand(request', bookings', credits', today')
  BY <1>2, <1>3, CallsToCome
<1> QED BY <1>3, <1>4, <1>5, HolidaysWritten

LEMMA LeaveReleased ==
  ASSUME RequestsInv, NEW p \in Servers, release_on(p)
  PROVE  Kept
<1> DEFINE S == {b \in ConsumingOn(Call(p).day) :
                   Call(p).location \in {Everywhere, LocationOf[bookings[b].user]}}
           A == CallsFor(bookings, credits, request[p].on)
           D == Seq(A) \ {<<>>}
<1>1. PICK order \in SetToSeqs(S) :
        Then(p, [i \in DOMAIN order |-> EndCalls(order[i], "released", request[p].actor)])
  BY DEF release_on
<1> DEFINE lists == [i \in DOMAIN order |-> EndCalls(order[i], "released", request[p].actor)]
<1>2. UNCHANGED <<today, bookings, credits, holidays>>
  BY DEF release_on, tables
<1>3. /\ request[p] # NoRequest /\ request[p].actor \in Users \cup {Nobody} /\ TablesOK
  BY CallNow, InHandNow DEF release_on, RequestsInv
<1>4. S \in SUBSET (1 .. MaxBookings) /\ MaxBookings \in Nat
  BY BoundsAssumption DEF ConsumingOn, Booked, BookingId
<1>5. ASSUME NEW b \in S PROVE EndCalls(b, "released", request[p].actor) \in D
  <2>1. b \in RowsIn(bookings) /\ bookings[b].status \in CONSUMING_STATES
    BY DEF ConsumingOn, Booked, RowsIn, Consuming
  <2>2. MayMove(bookings[b], "released", request[p].on)
    BY <1>3, <2>1, RowFacts DEF MayMove
  <2> QED BY <1>3, <2>1, <2>2, EndCallsType
<1>6. /\ DOMAIN lists = DOMAIN order /\ lists = [i \in DOMAIN lists |-> lists[i]]
      /\ \A i \in DOMAIN order : order[i] \in S => lists[i] \in D
  BY <1>5
<1> HIDE DEF lists, A, S
<1>7. lists \in Seq(D)
  BY <1>4, <1>6, CallEach
<1> HIDE DEF D
<1>8. PICK calls \in CallLists(bookings, credits, request[p].on) : calls = lists
  BY <1>7 DEF CallLists, D, A
<1>9. Then(p, calls)
  BY <1>1, <1>8 DEF lists
<1> QED BY <1>2, <1>3, <1>9, CallsToCome, NothingWritten

-----------------------------------------------------------------------------
(* Every step *)

(* Midnight: a request in flight was taken up on the day that ends.         *)
LEMMA MidnightKept ==
  ASSUME RequestsInv, clock
  PROVE  Kept
<1>1. /\ today' = today + 1 /\ today < MaxDay
      /\ UNCHANGED <<bookings, credits, holidays, request>>
      /\ \A p \in InFlight : request[p].on = today
  BY DEF clock, NextDay
<1>2. today \in Day /\ today' \in Day
  BY <1>1, BoundsAssumption DEF RequestsInv, TablesOK, TypeOK, Day
<1>3. ASSUME NEW p \in Servers, request[p] # NoRequest
      PROVE  InHand(request[p], bookings, credits, today + 1)
  <2>1. request[p].on = today
    BY <1>1, <1>3 DEF InFlight
  <2>2. InHand(request[p], bookings, credits, today)
    BY <1>3, InHandNow
  <2> QED BY <2>1, <2>2 DEF InHand
<1>4. AllInHand(request, bookings, credits, today + 1)
  BY <1>3 DEF RequestsInv, AllInHand
<1>5. AllInHand(request', bookings', credits', today')
  BY <1>1, <1>4
<1>6. TypeOK' /\ AllCharged(bookings') /\ OnePerDay(bookings')
  BY <1>1, <1>2 DEF RequestsInv, TablesOK, TypeOK
<1> QED BY <1>1, <1>5, <1>6 DEF Kept, Writes

LEMMA EachStep ==
  ASSUME RequestsInv, [ServerNext]_serverVars
  PROVE  Kept
<1>1. ASSUME NEW p \in Servers, stop(p) PROVE Kept
  <2>1. Refuse(p) /\ UNCHANGED <<today, bookings, credits, holidays>>
    BY <1>1 DEF stop, tables
  <2> QED BY <2>1, GivenUp, NothingWritten
<1>2. ASSUME NEW p \in Servers, Serve(p) PROVE Kept
  <2>1. ASSUME \/ create_holiday(p) \/ create_afford(p)
               \/ backfill_find(p) \/ backfill_afford(p)
               \/ convert_holiday(p) \/ convert_afford(p)
        PROVE  Kept
    <3>1. UNCHANGED <<today, bookings, credits, holidays>>
      BY <2>1 DEF create_holiday, create_afford, backfill_find, backfill_afford,
                  convert_holiday, convert_afford, tables
    <3>2. AllInHand(request', bookings', credits', today')
      BY <2>1, Checked
    <3> QED BY <3>1, <3>2, NothingWritten
  <2> QED
    BY <1>2, <2>1, UpdateMade, AbsenceSettled, BookingInserted, CreditsReleased,
       CreditsPicked, CreditUpdated, CreditInserted, HolidayWritten, LeaveReleased
    DEF Serve
<1>3. ASSUME (\E p \in Threads : AcceptRequest(p)) \/ sweep_list \/ lapse_list
      PROVE  Kept
  <2>1. \E p, r, step : Accept(p, r, step)
    <3>1. ASSUME NEW p \in Threads, AcceptRequest(p)
          PROVE  \E r, step : Accept(p, r, step)
      BY <3>1 DEF AcceptRequest, create_find, withdraw_get, decide_get, flag_find,
                  backfill_holiday, undo_get, convert_get, declare_clash, edit_clash,
                  claim_holiday, decide_claim_get, AcceptCalls, AcceptEach
    <3>2. ASSUME sweep_list \/ lapse_list
          PROVE  \E r, step : Accept(Worker, r, step)
      BY <3>2 DEF sweep_list, lapse_list, AcceptEach
    <3> QED BY <1>3, <3>1, <3>2
  <2>2. UNCHANGED <<today, bookings, credits, holidays>>
    BY <2>1 DEF Accept, tables
  <2>3. AllInHand(request', bookings', credits', today')
    BY <1>3, TakingUp
  <2> QED BY <2>2, <2>3, NothingWritten
<1>4. ASSUME delete_holiday PROVE Kept
  <2>1. PICK h \in holidays :
          /\ holidays' = holidays \ {h}
          /\ UNCHANGED <<today, bookings, credits, request>>
    BY <1>4 DEF delete_holiday, remove_holiday
  <2>2. holidays' \in SUBSET Holiday
    BY <2>1 DEF RequestsInv, TablesOK, TypeOK
  <2>3. AllInHand(request', bookings', credits', today')
    BY <2>1 DEF RequestsInv
  <2> QED BY <2>1, <2>2, <2>3, HolidaysWritten
<1>5. ASSUME UNCHANGED serverVars PROVE Kept
  <2>1. UNCHANGED <<today, bookings, credits, holidays>> /\ request' = request
    BY <1>5 DEF serverVars
  <2>2. AllInHand(request', bookings', credits', today')
    BY <2>1 DEF RequestsInv
  <2> QED BY <2>1, <2>2, NothingWritten
<1> QED BY <1>1, <1>2, <1>3, <1>4, <1>5, MidnightKept DEF ServerNext

LEMMA FirstState == ServerInit => RequestsInv
<1> SUFFICES ASSUME ServerInit PROVE RequestsInv
  OBVIOUS
<1>1. TypeOK
  BY TypeInit DEF ServerInit
<1>2. RowsIn(bookings) = {}
  BY DEF ServerInit, Init, RowsIn
<1>3. AllCharged(bookings) /\ OnePerDay(bookings)
  BY <1>2 DEF AllCharged, OnePerDay
<1>4. AllInHand(request, bookings, credits, today)
  BY DEF ServerInit, AllInHand
<1> QED BY <1>1, <1>3, <1>4 DEF RequestsInv, TablesOK

-----------------------------------------------------------------------------
(* The theorems *)

(* However many requests are in flight, in whatever order their calls land, *)
(* over midnight or cut short: the tables stay well formed, whatever is     *)
(* charged is charged to something, a day holds one booking, and every      *)
(* request has in hand only what its checks still allow of the rows as they *)
(* are by then.                                                             *)
THEOREM RequestsInvariant == ServerSpec => []RequestsInv
<1>1. RequestsInv /\ [ServerNext]_serverVars => RequestsInv'
  <2> SUFFICES ASSUME RequestsInv, [ServerNext]_serverVars PROVE RequestsInv'
    OBVIOUS
  <2>1. Kept
    BY EachStep
  <2>2. RequestsInv' <=> /\ TypeOK' /\ AllCharged(bookings') /\ OnePerDay(bookings')
                         /\ AllInHand(request', bookings', credits', today')
    BY DEF RequestsInv, TablesOK
  <2> QED BY <2>1, <2>2 DEF Kept
<1> QED BY <1>1, FirstState, PTL DEF ServerSpec

(* services/bookings.py create_or_replace, flag_unrecognised and backfill:  *)
(* two requests that both found the day free cannot both book it, because   *)
(* the unique index refuses the second write.                               *)
THEOREM OneBookingServed == ServerSpec => []OneBookingPerDay
<1>1. RequestsInv => OneBookingPerDay
  BY BookedRows DEF RequestsInv, TablesOK, OnePerDay, OneBookingPerDay
<1> QED BY <1>1, RequestsInvariant, PTL

(* services/bookings.py:610-612: what an absence was settled as stays,      *)
(* whoever read it earlier and writes later.                                *)
THEOREM AbsencesSettledOnce == ServerSpec => AbsenceSettledOnce
<1>1. RequestsInv /\ [ServerNext]_serverVars =>
        [\A b \in Booked :
           bookings[b].status # "unrecognised" =>
             /\ bookings'[b].category = bookings[b].category
             /\ bookings'[b].duration = bookings[b].duration
             /\ bookings[b].category = NO_CATEGORY =>
                  bookings'[b].status = bookings[b].status]_serverVars
  <2> SUFFICES ASSUME RequestsInv, [ServerNext]_serverVars, NEW b \in Booked,
                      bookings[b].status # "unrecognised"
               PROVE  /\ bookings'[b].category = bookings[b].category
                      /\ bookings'[b].duration = bookings[b].duration
                      /\ bookings[b].category = NO_CATEGORY =>
                           bookings'[b].status = bookings[b].status
    OBVIOUS
  <2>1. Writes(b)
    BY EachStep, BookedRows DEF Kept
  <2> QED BY <2>1 DEF Writes
<1> QED BY <1>1, RequestsInvariant, PTL DEF ServerSpec, AbsenceSettledOnce

(* Section 6.3, the lock, with requests in flight over midnight: a request  *)
(* has at most one midnight inside it, so from the second day on nothing a  *)
(* person asked for withdraws their leave.                                  *)
THEOREM LockHeldNextDay == ServerSpec => LockHoldsNextDay
<1>1. RequestsInv /\ [ServerNext]_serverVars =>
        [\A b \in Booked :
           /\ bookings[b].day < today - 1
           /\ Consuming(b)
           /\ ~bookings[b].backfilled
           => bookings'[b].status # "withdrawn"]_serverVars
  <2> SUFFICES ASSUME RequestsInv, [ServerNext]_serverVars, NEW b \in Booked,
                      bookings[b].day < today - 1, Consuming(b), ~bookings[b].backfilled
               PROVE  bookings'[b].status # "withdrawn"
    OBVIOUS
  <2>1. Writes(b)
    BY EachStep, BookedRows DEF Kept
  <2>2. bookings[b].status \in CONSUMING_STATES
    BY DEF Consuming
  <2>3. bookings[b].status # "withdrawn" /\ bookings[b].status # "unrecognised"
    BY <2>2 DEF CONSUMING_STATES
  <2>4. ~(bookings[b].day >= today - 1)
    <3>1. today \in Day /\ bookings[b] \in Booking
      BY BookedRows, RowFacts DEF RequestsInv, TablesOK, TypeOK
    <3> QED BY <3>1, BoundsAssumption DEF Booking, Day
  <2> QED BY <2>1, <2>3, <2>4 DEF Writes
<1> QED BY <1>1, RequestsInvariant, PTL DEF ServerSpec, LockHoldsNextDay

-----------------------------------------------------------------------------
(* In which order a handler ends bookings and hands credits back            *)

(* A call that hands no credit back.                                        *)
ReturnsNone(c) ==
  \/ c.call \in {"update_booking", "update_booking_if_unrecognised",
                 "insert_booking", "consume"}
  \/ c.call = "update_compoff_credit" /\ c.set.status = "used"

OverBy(b, rows) == rows[b].status \notin CONSUMING_STATES

(* A call that may be the next to land in a handler that ends bookings: it  *)
(* takes credits only from a booking that is over.                          *)
ComesFirst(c, rows, cs) ==
  \/ c.call = "update_booking" /\ c.set.status \notin CONSUMING_STATES
  \/ c.call = "release_for_booking" /\ OverBy(c.id, rows)
  \/ /\ c.call = "update_compoff_credit" /\ c.set.status # "used"
     /\ cs[c.id].status = "used" => OverBy(cs[c.id].booking, rows)
  \/ c.call = "insert_compoff_credit" /\ c.row.status # "used"
  \/ c.call \in {"insert_booking", "write_holiday", "release_for_holiday"}

(* The only calls that follow another in one list: the credits of the       *)
(* booking that the call before has ended, and the leave of a holiday.      *)
ComesAfter(c, before) ==
  \/ /\ c.call = "release_for_booking"
     /\ before.call = "update_booking" /\ before.id = c.id
  \/ c.call = "release_for_holiday" /\ before.call = "write_holiday"

EndingList(l, rows, cs) ==
  /\ ComesFirst(l[1], rows, cs)
  /\ \A j \in DOMAIN l : j # 1 => ComesAfter(l[j], l[j - 1])

NoneReturned(calls) == \A i \in DOMAIN calls : \A j \in DOMAIN calls[i] : ReturnsNone(calls[i][j])
AllEnding(calls, rows, cs) == \A i \in DOMAIN calls : EndingList(calls[i], rows, cs)
InTurn(calls, rows, cs) == NoneReturned(calls) \/ AllEnding(calls, rows, cs)

OneAtATime == \A p, q \in InFlight : p = q
UsedForBookings ==
  \A k \in Claimed : credits[k].status = "used" => credits[k].booking \in BookingId
EachInTurn ==
  \A p \in InFlight :
    request[p].step = "calls" => InTurn(request[p].calls, bookings, credits)

TurnInv == RequestsInv /\ OneAtATime /\ UsedForBookings /\ EachInTurn

(* What CreditReturnedOnceOver says of one step.                            *)
ReturnedOver ==
  \A k \in Claimed :
    credits[k].status = "used" /\ credits'[k].status # "used"
      => ~Consuming(credits[k].booking)

TurnKept == OneAtATime' /\ UsedForBookings' /\ EachInTurn' /\ ReturnedOver

-----------------------------------------------------------------------------
(* Lists *)

LEMMA NoCalls ==
  ASSUME NEW rows, NEW cs
  PROVE  InTurn(<<>>, rows, cs)
BY DEF InTurn, NoneReturned

(* What is left of a list of lists when its first call is made.             *)
ListsLeft(s) == IF Len(Head(s)) = 1 THEN Tail(s) ELSE [s EXCEPT ![1] = Tail(@)]

LEMMA AfterFirst ==
  ASSUME NEW A, NEW s \in Seq(Seq(A) \ {<<>>}), s # <<>>, NEW rest, rest = ListsLeft(s)
  PROVE  /\ 1 \in DOMAIN s /\ 1 \in DOMAIN s[1] /\ Head(s) = s[1]
         /\ Head(Head(s)) = s[1][1]
         /\ \A i \in DOMAIN rest :
              \/ i + 1 \in DOMAIN s /\ rest[i] = s[i + 1]
              \/ i \in DOMAIN s /\ rest[i] = s[i] /\ i # 1
              \/ i = 1 /\ rest[i] = Tail(s[1]) /\ s[1] \in Seq(A) /\ Len(s[1]) > 1
<1> DEFINE D == Seq(A) \ {<<>>}
<1>1. s \in Seq(D) /\ Len(s) \in Nat \ {0} /\ DOMAIN s = 1 .. Len(s)
  BY EmptySeq
<1> HIDE DEF D
<1>2. s[1] \in D /\ Head(s) = s[1] /\ 1 \in DOMAIN s
  BY <1>1
<1>3. s[1] \in Seq(A) /\ Len(s[1]) \in Nat \ {0} /\ DOMAIN s[1] = 1 .. Len(s[1])
  BY <1>2, EmptySeq DEF D
<1>4. 1 \in DOMAIN s[1] /\ Head(s[1]) = s[1][1]
  BY <1>3
<1>5. CASE Len(s[1]) = 1
  <2>1. rest = Tail(s)
    BY <1>2, <1>5 DEF ListsLeft
  <2>2. /\ Len(Tail(s)) = Len(s) - 1 /\ DOMAIN Tail(s) = 1 .. Len(Tail(s))
        /\ \A i \in 1 .. Len(Tail(s)) : Tail(s)[i] = s[i + 1]
    BY <1>1, HeadTailProperties
  <2>3. PICK n \in Nat \ {0} : n = Len(s)
    BY <1>1
  <2>4. DOMAIN rest = 1 .. (n - 1) /\ DOMAIN s = 1 .. n
    BY <1>1, <2>1, <2>2, <2>3
  <2>5. \A i \in 1 .. (n - 1) : i + 1 \in 1 .. n /\ rest[i] = s[i + 1]
    BY <2>1, <2>2, <2>3
  <2>6. \A i \in DOMAIN rest : i + 1 \in DOMAIN s /\ rest[i] = s[i + 1]
    BY <2>4, <2>5
  <2> QED BY <1>2, <1>4, <2>6
<1>6. CASE Len(s[1]) # 1
  <2>1. rest = [s EXCEPT ![1] = Tail(s[1])]
    BY <1>2, <1>6 DEF ListsLeft
  <2>2. /\ DOMAIN rest = DOMAIN s /\ rest[1] = Tail(s[1])
        /\ \A i \in DOMAIN s : i # 1 => rest[i] = s[i]
    BY <1>2, <2>1
  <2>3. PICK n \in Nat \ {0} : n = Len(s[1])
    BY <1>3
  <2>4. n # 1
    BY <1>6, <2>3
  <2>5. n > 1
    BY <2>4
  <2> QED BY <1>2, <1>3, <1>4, <2>2, <2>3, <2>5
<1> QED BY <1>5, <1>6

LEMMA TailOf ==
  ASSUME NEW A, NEW l \in Seq(A), Len(l) > 1
  PROVE  /\ 1 \in DOMAIN l /\ 2 \in DOMAIN l
         /\ \A j \in DOMAIN Tail(l) :
              j \in Nat \ {0} /\ j + 1 \in DOMAIN l /\ Tail(l)[j] = l[j + 1]
<1>1. l # <<>> /\ Len(l) \in Nat /\ DOMAIN l = 1 .. Len(l)
  BY EmptySeq
<1>2. /\ Len(Tail(l)) = Len(l) - 1 /\ DOMAIN Tail(l) = 1 .. Len(Tail(l))
      /\ \A i \in 1 .. Len(Tail(l)) : Tail(l)[i] = l[i + 1]
  BY <1>1, HeadTailProperties
<1> QED BY <1>1, <1>2

LEMMA StillNoneReturned ==
  ASSUME NEW A, NEW s \in Seq(Seq(A) \ {<<>>}), s # <<>>, NEW rest, rest = ListsLeft(s),
         NoneReturned(s)
  PROVE  NoneReturned(rest) /\ ReturnsNone(Head(Head(s)))
<1>1. ASSUME NEW i \in DOMAIN rest, NEW j \in DOMAIN rest[i]
      PROVE  ReturnsNone(rest[i][j])
  <2>1. CASE i + 1 \in DOMAIN s /\ rest[i] = s[i + 1]
    BY <1>1, <2>1 DEF NoneReturned
  <2>2. CASE i \in DOMAIN s /\ rest[i] = s[i]
    BY <1>1, <2>2 DEF NoneReturned
  <2>3. CASE i = 1 /\ rest[i] = Tail(s[1]) /\ s[1] \in Seq(A) /\ Len(s[1]) > 1
    <3>1. j + 1 \in DOMAIN s[1] /\ Tail(s[1])[j] = s[1][j + 1]
      BY <1>1, <2>3, TailOf
    <3>2. 1 \in DOMAIN s
      BY AfterFirst
    <3> QED BY <2>3, <3>1, <3>2 DEF NoneReturned
  <2> QED BY <2>1, <2>2, <2>3, AfterFirst
<1>2. ReturnsNone(Head(Head(s)))
  BY AfterFirst DEF NoneReturned
<1> QED BY <1>1, <1>2 DEF NoneReturned

(* Bookings that are over stay over, and no credit becomes used.            *)
OnlyEnds(rows, rows1, cs, cs1) ==
  /\ \A b \in BookingId : OverBy(b, rows) => OverBy(b, rows1)
  /\ \A k \in RowsOf(cs) :
       cs1[k].status = "used" => /\ cs[k].status = "used"
                                 /\ cs1[k].booking = cs[k].booking
                                 /\ cs[k].booking \in BookingId

LEMMA FirstStill ==
  ASSUME NEW rows, NEW rows1, NEW cs, NEW cs1, OnlyEnds(rows, rows1, cs, cs1), NEW c,
         ComesFirst(c, rows, cs),
         c.call = "release_for_booking" => c.id \in BookingId,
         c.call = "update_compoff_credit" => c.id \in RowsOf(cs)
  PROVE  ComesFirst(c, rows1, cs1)
BY DEF ComesFirst, OnlyEnds

LEMMA ListStill ==
  ASSUME NEW rows, NEW rows1, NEW cs, NEW cs1, OnlyEnds(rows, rows1, cs, cs1), NEW A,
         \A c \in A : /\ c.call = "release_for_booking" => c.id \in BookingId
                      /\ c.call = "update_compoff_credit" => c.id \in RowsOf(cs),
         NEW l \in Seq(A) \ {<<>>}, EndingList(l, rows, cs)
  PROVE  EndingList(l, rows1, cs1)
<1>1. l[1] \in A
  BY EmptySeq
<1>2. ComesFirst(l[1], rows1, cs1)
  BY <1>1, FirstStill DEF EndingList
<1> QED BY <1>2 DEF EndingList

LEMMA EndingLeft ==
  ASSUME NEW rows, NEW rows1, NEW cs, NEW cs1, OnlyEnds(rows, rows1, cs, cs1), NEW A,
         \A c \in A : /\ c.call = "release_for_booking" => c.id \in BookingId
                      /\ c.call = "update_compoff_credit" => c.id \in RowsOf(cs),
         NEW s \in Seq(Seq(A) \ {<<>>}), s # <<>>, NEW rest, rest = ListsLeft(s),
         AllEnding(s, rows, cs),
         Head(Head(s)).call = "update_booking" => OverBy(Head(Head(s)).id, rows1)
  PROVE  AllEnding(rest, rows1, cs1)
<1> SUFFICES ASSUME NEW i \in DOMAIN rest
             PROVE  EndingList(rest[i], rows1, cs1)
  BY DEF AllEnding
<1>1. ASSUME NEW k \in DOMAIN s PROVE EndingList(s[k], rows1, cs1)
  <2>1. s[k] \in Seq(A) \ {<<>>}
    OBVIOUS
  <2>2. EndingList(s[k], rows, cs)
    BY DEF AllEnding
  <2> QED BY <2>1, <2>2, ListStill
<1>2. CASE i + 1 \in DOMAIN s /\ rest[i] = s[i + 1]
  BY <1>1, <1>2
<1>3. CASE i \in DOMAIN s /\ rest[i] = s[i]
  BY <1>1, <1>3
<1>4. CASE i = 1 /\ rest[i] = Tail(s[1]) /\ s[1] \in Seq(A) /\ Len(s[1]) > 1
  <2>1. PICK l : l = s[1]
    OBVIOUS
  <2>2. PICK t : t = Tail(l)
    OBVIOUS
  <2>3. l \in Seq(A) /\ Len(l) > 1 /\ rest[i] = t
    BY <1>4, <2>1, <2>2
  <2>4. Head(Head(s)) = l[1] /\ EndingList(l, rows, cs)
    BY <2>1, AfterFirst DEF AllEnding
  <2>5. /\ 1 \in DOMAIN l /\ 2 \in DOMAIN l
        /\ \A j \in DOMAIN t : j \in Nat \ {0} /\ j + 1 \in DOMAIN l /\ t[j] = l[j + 1]
    BY <2>2, <2>3, TailOf
  <2>6. t[1] = l[2] /\ \A j \in DOMAIN t : j # 1 => j - 1 \in DOMAIN t
    <3>1. l # <<>> /\ Len(l) \in Nat /\ DOMAIN l = 1 .. Len(l)
      BY <2>3, EmptySeq
    <3>2. /\ Len(t) = Len(l) - 1 /\ DOMAIN t = 1 .. Len(t)
      BY <2>2, <2>3, <3>1, HeadTailProperties
    <3>3. PICK m \in Nat : m = Len(l)
      BY <3>1
    <3>4. m > 1
      BY <2>3, <3>3
    <3>5. DOMAIN t = 1 .. (m - 1)
      BY <3>2, <3>3
    <3>6. 1 \in DOMAIN t /\ \A j \in DOMAIN t : j # 1 => j - 1 \in DOMAIN t
      BY <3>4, <3>5
    <3>7. t[1] = l[1 + 1]
      BY <2>5, <3>6
    <3> QED BY <3>6, <3>7
  <2>7. ComesAfter(l[2], l[1])
    <3>1. \A j \in DOMAIN l : j # 1 => ComesAfter(l[j], l[j - 1])
      BY <2>4 DEF EndingList
    <3>2. PICK j \in DOMAIN l : j = 2
      BY <2>5
    <3>3. j # 1 /\ j - 1 = 1
      BY <3>2
    <3>4. ComesAfter(l[j], l[j - 1])
      BY <3>1, <3>3
    <3> QED BY <3>2, <3>3, <3>4
  <2>8. ComesFirst(t[1], rows1, cs1)
    BY <2>4, <2>6, <2>7 DEF ComesAfter, ComesFirst
  <2>9. ASSUME NEW j \in DOMAIN t, j # 1 PROVE ComesAfter(t[j], t[j - 1])
    <3>1. j \in Nat \ {0} /\ j + 1 \in DOMAIN l /\ t[j] = l[j + 1]
      BY <2>5
    <3>2. j - 1 \in DOMAIN t
      BY <2>6, <2>9
    <3>3. t[j - 1] = l[(j - 1) + 1]
      BY <2>5, <3>2
    <3>4. t[j - 1] = l[j]
      BY <3>1, <3>3
    <3>5. ComesAfter(l[j + 1], l[(j + 1) - 1])
      BY <2>4, <3>1 DEF EndingList
    <3> QED BY <3>1, <3>4, <3>5
  <2>10. EndingList(t, rows1, cs1)
    BY <2>8, <2>9 DEF EndingList
  <2> QED BY <2>3, <2>10
<1> QED BY <1>2, <1>3, <1>4, AfterFirst

(* The lists a handler decides on.                                          *)
LEMMA OneCallReturnsNone ==
  ASSUME NEW c, ReturnsNone(c), NEW rows, NEW cs
  PROVE  InTurn(<<<<c>>>>, rows, cs)
BY DEF InTurn, NoneReturned

LEMMA OneListEnds ==
  ASSUME NEW l, NEW rows, NEW cs, EndingList(l, rows, cs)
  PROVE  InTurn(<<l>>, rows, cs)
BY DEF InTurn, AllEnding

LEMMA OneCallEnds ==
  ASSUME NEW c, NEW rows, NEW cs, ComesFirst(c, rows, cs)
  PROVE  EndingList(<<c>>, rows, cs)
BY DEF EndingList

LEMMA TwoTogether ==
  ASSUME NEW c, NEW e, NEW l, l = <<c>> \o <<e>>
  PROVE  DOMAIN l = 1 .. 2 /\ l[1] = c /\ l[2] = e
<1>1. PICK A : A = {c, e}
  OBVIOUS
<1>2. PICK x : x = <<c>>
  OBVIOUS
<1>3. PICK y : y = <<e>>
  OBVIOUS
<1>4. x \in Seq(A) /\ Len(x) = 1 /\ x[1] = c
  BY <1>1, <1>2
<1>5. y \in Seq(A) /\ Len(y) = 1 /\ y[1] = e
  BY <1>1, <1>3
<1>6. l \in Seq(A) /\ Len(l) = 2 /\ l[1] = x[1] /\ l[2] = y[2 - 1]
  BY <1>2, <1>3, <1>4, <1>5, ConcatProperties
<1> QED BY <1>4, <1>5, <1>6

LEMMA TwoCallsEnd ==
  ASSUME NEW c, NEW e, NEW rows, NEW cs, ComesFirst(c, rows, cs), ComesAfter(e, c)
  PROVE  EndingList(<<c>> \o <<e>>, rows, cs)
<1>1. PICK l : l = <<c>> \o <<e>>
  OBVIOUS
<1>2. DOMAIN l = 1 .. 2 /\ l[1] = c /\ l[2] = e
  BY <1>1, TwoTogether
<1>3. ASSUME NEW j \in DOMAIN l, j # 1 PROVE ComesAfter(l[j], l[j - 1])
  <2>1. j = 2 /\ j - 1 = 1
    BY <1>2, <1>3
  <2> QED BY <1>2, <2>1
<1>4. EndingList(l, rows, cs)
  BY <1>2, <1>3 DEF EndingList
<1> QED BY <1>1, <1>4

LEMMA EndCallsEnd ==
  ASSUME NEW b, NEW status \in {"withdrawn", "rejected", "released"}, NEW actor,
         NEW rows, NEW cs
  PROVE  EndingList(EndCalls(b, status, actor), rows, cs)
<1>1. PICK c : c = Update(b, To(status, actor))
  OBVIOUS
<1>2. PICK e : e = ReleaseFor(b)
  OBVIOUS
<1>3. c.call = "update_booking" /\ c.id = b /\ c.set.status \notin CONSUMING_STATES
  BY <1>1 DEF Update, To, CONSUMING_STATES
<1>4. e.call = "release_for_booking" /\ e.id = b
  BY <1>2 DEF ReleaseFor
<1>5. ComesFirst(c, rows, cs) /\ ComesAfter(e, c)
  BY <1>3, <1>4 DEF ComesFirst, ComesAfter
<1>6. \/ EndCalls(b, status, actor) = <<c>> \o <<e>>
      \/ EndCalls(b, status, actor) = <<c>>
  <2>1. <<c>> \in Seq({c}) /\ <<c>> \o <<>> = <<c>>
    BY ConcatEmptySeq
  <2> QED BY <1>1, <1>2, <2>1 DEF EndCalls
<1> QED BY <1>5, <1>6, OneCallEnds, TwoCallsEnd

LEMMA EachListEnds ==
  ASSUME NEW N \in Nat, NEW S \in SUBSET (1 .. N), NEW order \in SetToSeqs(S),
         NEW rows, NEW cs, NEW lists, DOMAIN lists = DOMAIN order,
         \A i \in DOMAIN order : order[i] \in S => EndingList(lists[i], rows, cs)
  PROVE  AllEnding(lists, rows, cs)
<1>1. order \in Seq(S)
  BY SomeOrder
<1> QED BY <1>1 DEF AllEnding

LEMMA EachReturnsNone ==
  ASSUME NEW N \in Nat, NEW S \in SUBSET (1 .. N), NEW order \in SetToSeqs(S),
         NEW rows, NEW cs, NEW lists, DOMAIN lists = DOMAIN order,
         \A i \in DOMAIN order :
           DOMAIN lists[i] = {1} /\ ReturnsNone(lists[i][1])
  PROVE  InTurn(lists, rows, cs)
BY DEF InTurn, NoneReturned

LEMMA ThenConsumeReturnsNone ==
  ASSUME NEW b, NEW category, NEW rows, NEW cs
  PROVE  InTurn(ThenConsume(b, category), rows, cs)
<1>1. ReturnsNone(Consume(b))
  BY DEF ReturnsNone, Consume
<1> QED BY <1>1, OneCallReturnsNone, NoCalls DEF ThenConsume

LEMMA RecordReturnsNone ==
  ASSUME NEW r, NEW rows, NEW cs
  PROVE  InTurn(RecordCalls(r), rows, cs)
<1>1. CASE r.old = {}
  <2>1. PICK c : c = Insert(NewBooking(r.user, r.day, r.category, r.duration, "approved",
                                       r.actor, TRUE))
    OBVIOUS
  <2>2. ReturnsNone(c) /\ RecordCalls(r) = <<<<c>>>>
    BY <1>1, <2>1 DEF ReturnsNone, Insert, RecordCalls
  <2> QED BY <2>2, OneCallReturnsNone
<1>2. CASE r.old # {}
  <2>1. PICK b : b = CHOOSE x \in r.old : TRUE
    OBVIOUS
  <2>2. PICK c : c = UpdateIf(b, [status |-> "approved", category |-> r.category,
                                  duration |-> r.duration, decided_by |-> r.actor,
                                  backfilled |-> TRUE])
    OBVIOUS
  <2>3. PICK e : e = Consume(b)
    OBVIOUS
  <2>4. ReturnsNone(c) /\ ReturnsNone(e)
    BY <2>2, <2>3 DEF ReturnsNone, UpdateIf, Consume
  <2>5. RecordCalls(r) = <<<<c>>>> \o ThenConsume(b, r.category)
    BY <1>2, <2>1, <2>2 DEF RecordCalls
  <2>6. \/ RecordCalls(r) = <<<<c>>>> \o <<<<e>>>>
        \/ RecordCalls(r) = <<<<c>>>>
    <3>1. <<<<c>>>> \in Seq({<<c>>}) /\ <<<<c>>>> \o <<>> = <<<<c>>>>
      BY ConcatEmptySeq
    <3> QED BY <2>3, <2>5, <3>1 DEF ThenConsume
  <2>7. NoneReturned(<<<<c>>>> \o <<<<e>>>>)
    <3>1. PICK x : x = <<c>>
      OBVIOUS
    <3>2. PICK y : y = <<e>>
      OBVIOUS
    <3>3. PICK l : l = <<x>> \o <<y>>
      OBVIOUS
    <3>4. DOMAIN l = 1 .. 2 /\ l[1] = x /\ l[2] = y
      BY <3>3, TwoTogether
    <3>5. /\ \A j \in DOMAIN x : ReturnsNone(x[j])
          /\ \A j \in DOMAIN y : ReturnsNone(y[j])
      BY <2>4, <3>1, <3>2
    <3>6. NoneReturned(l)
      BY <3>4, <3>5 DEF NoneReturned
    <3> QED BY <3>1, <3>2, <3>3, <3>6
  <2> QED BY <2>4, <2>6, <2>7, OneCallReturnsNone DEF InTurn
<1> QED BY <1>1, <1>2

-----------------------------------------------------------------------------
(* Every request is taken up with its calls in turn *)

LEMMA TablesStay ==
  ASSUME TurnInv, UNCHANGED <<bookings, credits>>
  PROVE  UsedForBookings' /\ ReturnedOver
BY DEF TurnInv, UsedForBookings, ReturnedOver, Claimed

LEMMA OneServed ==
  ASSUME RequestsInv, NEW p \in Servers, \A q \in InFlight : q = p, NEW r,
         request' = [request EXCEPT ![p] = r],
         r = NoRequest \/ (r.step = "calls" => InTurn(r.calls, bookings', credits'))
  PROVE  OneAtATime' /\ EachInTurn'
<1>1. request'[p] = r /\ \A q \in Servers \ {p} : request'[q] = request[q]
  BY DEF RequestsInv, AllInHand
<1>2. \A q \in InFlight' : q = p
  BY <1>1 DEF InFlight
<1>3. OneAtATime'
  BY <1>2 DEF OneAtATime
<1>4. EachInTurn'
  BY <1>1, <1>2 DEF EachInTurn, InFlight
<1> QED BY <1>3, <1>4

LEMMA ThenServed ==
  ASSUME TurnInv, NEW p \in InFlight, NEW calls, Then(p, calls),
         InTurn(calls, bookings', credits')
  PROVE  OneAtATime' /\ EachInTurn'
<1>1. p \in Servers /\ request[p] # NoRequest /\ RequestsInv /\ \A q \in InFlight : q = p
  BY DEF InFlight, TurnInv, OneAtATime
<1>2. CASE calls = <<>>
  <2>1. request' = [request EXCEPT ![p] = NoRequest]
    BY <1>2 DEF Then, Refuse, GoOn
  <2> QED BY <1>1, <2>1, OneServed
<1>3. CASE calls # <<>>
  <2>1. PICK r : r = [request[p] EXCEPT !.step = "calls", !.calls = calls]
    OBVIOUS
  <2>2. request' = [request EXCEPT ![p] = r]
    BY <1>3, <2>1 DEF Then, GoOn
  <2>3. request[p] \in RequestOf(bookings, credits, request[p].on)
    BY <1>1, InHandNow
  <2>4. r.calls = calls
    BY <2>1, <2>3 DEF RequestOf
  <2> QED BY <1>1, <2>2, <2>4, OneServed
<1> QED BY <1>2, <1>3

LEMMA RefusedServed ==
  ASSUME TurnInv, NEW p \in InFlight, Refuse(p)
  PROVE  OneAtATime' /\ EachInTurn'
<1>1. p \in Servers /\ RequestsInv /\ \A q \in InFlight : q = p
  BY DEF InFlight, TurnInv, OneAtATime
<1> QED BY <1>1, OneServed DEF Refuse, GoOn

LEMMA FreeToTake ==
  ASSUME TurnInv, MaxInFlight = 1, NEW p, NEW r, NEW step, Accept(p, r, step)
  PROVE  InFlight = {}
<1>1. Cardinality(InFlight) < 1
  BY DEF Accept
<1>2. SUFFICES ASSUME NEW q \in InFlight PROVE FALSE
  OBVIOUS
<1>3. InFlight = {q}
  BY DEF TurnInv, OneAtATime
<1>4. Cardinality(InFlight) = 1
  BY <1>3, FS_Singleton
<1> QED BY <1>1, <1>4

(* A request, with every column it has.                                     *)
FullRequest(r) == r = [x \in DOMAIN r |-> r[x]] /\ {"step", "calls"} \subseteq DOMAIN r

LEMMA AskedIsFull ==
  ASSUME NEW op, NEW actor, NEW u, NEW d, NEW c, NEW n, NEW reason, NEW old
  PROVE  FullRequest(Asked(op, actor, u, d, c, n, reason, old))
BY DEF FullRequest, Asked

LEMMA TakenInTurn ==
  ASSUME TurnInv, MaxInFlight = 1, NEW p \in Servers, NEW r, FullRequest(r), NEW step,
         Accept(p, r, step), step = "calls" => InTurn(r.calls, bookings, credits)
  PROVE  TurnKept
<1>1. PICK h : h = [r EXCEPT !.step = step]
  OBVIOUS
<1>2. h.step = step /\ h.calls = r.calls
  BY <1>1 DEF FullRequest
<1>3. /\ request' = [request EXCEPT ![p] = h]
      /\ UNCHANGED <<bookings, credits>>
  BY <1>1 DEF Accept, tables
<1>4. InFlight = {} /\ RequestsInv
  BY FreeToTake DEF TurnInv
<1>5. h.step = "calls" => InTurn(h.calls, bookings', credits')
  BY <1>2, <1>3
<1>6. OneAtATime' /\ EachInTurn'
  BY <1>3, <1>4, <1>5, OneServed
<1> QED BY <1>3, <1>6, TablesStay DEF TurnKept

LEMMA EachTakenInTurn ==
  ASSUME TurnInv, MaxInFlight = 1, NEW p \in Servers, NEW r, FullRequest(r), NEW calls,
         AcceptEach(p, r, calls), InTurn(calls, bookings, credits)
  PROVE  TurnKept
<1>1. PICK h : h = [r EXCEPT !.calls = calls]
  OBVIOUS
<1>2. FullRequest(h) /\ h.calls = calls
  BY <1>1 DEF FullRequest
<1>3. Accept(p, h, "calls")
  BY <1>1 DEF AcceptEach
<1> QED BY <1>2, <1>3, TakenInTurn

LEMMA CallsTakenInTurn ==
  ASSUME TurnInv, MaxInFlight = 1, NEW p \in Servers, NEW r, FullRequest(r), NEW calls,
         AcceptCalls(p, r, calls), InTurn(<<calls>>, bookings, credits)
  PROVE  TurnKept
BY EachTakenInTurn DEF AcceptCalls

LEMMA CheckedInTurn ==
  ASSUME TurnInv, MaxInFlight = 1, NEW p \in Servers,
         create_find(p) \/ backfill_holiday(p) \/ convert_get(p)
  PROVE  TurnKept
<1>1. PICK op, actor, u, d, c, n, reason, old, step :
        step # "calls" /\ Accept(p, Asked(op, actor, u, d, c, n, reason, old), step)
  <2>1. ASSUME create_find(p)
        PROVE  \E op, actor, u, d, c, n, reason, old, step :
                 step # "calls" /\ Accept(p, Asked(op, actor, u, d, c, n, reason, old), step)
    BY <2>1 DEF create_find
  <2>2. ASSUME backfill_holiday(p)
        PROVE  \E op, actor, u, d, c, n, reason, old, step :
                 step # "calls" /\ Accept(p, Asked(op, actor, u, d, c, n, reason, old), step)
    BY <2>2 DEF backfill_holiday
  <2>3. ASSUME convert_get(p)
        PROVE  \E op, actor, u, d, c, n, reason, old, step :
                 step # "calls" /\ Accept(p, Asked(op, actor, u, d, c, n, reason, old), step)
    BY <2>3 DEF convert_get
  <2> QED BY <2>1, <2>2, <2>3
<1> QED BY <1>1, AskedIsFull, TakenInTurn

LEMMA AboutIsFull ==
  ASSUME NEW op, NEW actor, NEW b
  PROVE  FullRequest(About(op, actor, b))
BY AskedIsFull DEF About

LEMMA WithdrawInTurn ==
  ASSUME TurnInv, MaxInFlight = 1, NEW p \in Servers, withdraw_get(p)
  PROVE  TurnKept
<1>1. PICK b \in Booked :
        AcceptCalls(p, About("withdraw", bookings[b].user, b),
                    EndCalls(b, "withdrawn", bookings[b].user))
  BY DEF withdraw_get
<1> QED BY <1>1, AboutIsFull, EndCallsEnd, OneListEnds, CallsTakenInTurn

LEMMA DecideInTurn ==
  ASSUME TurnInv, MaxInFlight = 1, NEW p \in Servers, decide_get(p)
  PROVE  TurnKept
<1>1. PICK actor \in Users, b \in Booked, target \in {"approved", "rejected"} :
        AcceptCalls(p, About("decide", actor, b),
                    IF target = "rejected" THEN EndCalls(b, target, actor)
                    ELSE <<Update(b, To(target, actor))>>)
  BY DEF decide_get
<1>2. InTurn(<<EndCalls(b, "rejected", actor)>>, bookings, credits)
  BY EndCallsEnd, OneListEnds
<1>3. InTurn(<<<<Update(b, To(target, actor))>>>>, bookings, credits)
  <2>1. ReturnsNone(Update(b, To(target, actor)))
    BY DEF ReturnsNone, Update
  <2> QED BY <2>1, OneCallReturnsNone
<1>4. PICK calls : calls = IF target = "rejected" THEN EndCalls(b, target, actor)
                           ELSE <<Update(b, To(target, actor))>>
  OBVIOUS
<1>5. AcceptCalls(p, About("decide", actor, b), calls) /\ InTurn(<<calls>>, bookings, credits)
  BY <1>1, <1>2, <1>3, <1>4
<1> QED BY <1>5, AboutIsFull, CallsTakenInTurn

LEMMA FlagInTurn ==
  ASSUME TurnInv, MaxInFlight = 1, NEW p \in Servers, flag_find(p)
  PROVE  TurnKept
<1>1. PICK actor \in Users, u \in Bookers, d \in Day :
        AcceptCalls(
          p, Asked("flag", actor, u, d, NO_CATEGORY, FULL_DAY, TRUE, {}),
          <<Insert(NewBooking(u, d, NO_CATEGORY, FULL_DAY, "unrecognised",
                              actor, FALSE))>>)
  BY DEF flag_find
<1>2. PICK c : c = Insert(NewBooking(u, d, NO_CATEGORY, FULL_DAY, "unrecognised", actor, FALSE))
  OBVIOUS
<1>3. ReturnsNone(c)
  BY <1>2 DEF ReturnsNone, Insert
<1> QED BY <1>1, <1>2, <1>3, OneCallReturnsNone, AskedIsFull, CallsTakenInTurn

LEMMA UndoInTurn ==
  ASSUME TurnInv, MaxInFlight = 1, NEW p \in Servers, undo_get(p)
  PROVE  TurnKept
<1>1. PICK admin \in Users, b \in Booked :
        \/ AcceptCalls(p, About("undo", admin, b), <<UpdateIf(b, To("withdrawn", admin))>>)
        \/ AcceptCalls(p, About("undo", admin, b), EndCalls(b, "withdrawn", admin))
  BY DEF undo_get
<1>2. InTurn(<<<<UpdateIf(b, To("withdrawn", admin))>>>>, bookings, credits)
  <2>1. ReturnsNone(UpdateIf(b, To("withdrawn", admin)))
    BY DEF ReturnsNone, UpdateIf
  <2> QED BY <2>1, OneCallReturnsNone
<1>3. InTurn(<<EndCalls(b, "withdrawn", admin)>>, bookings, credits)
  BY EndCallsEnd, OneListEnds
<1> QED BY <1>1, <1>2, <1>3, AboutIsFull, CallsTakenInTurn

LEMMA HolidayInTurn ==
  ASSUME TurnInv, MaxInFlight = 1, NEW p \in Servers, declare_clash(p) \/ edit_clash(p)
  PROVE  TurnKept
<1>1. PICK admin, old, new, d, l :
        AcceptCalls(p, AskedOfHolidays(admin), <<WriteHoliday(old, new), ReleaseOn(d, l)>>)
  BY DEF declare_clash, edit_clash
<1>2. PICK c : c = WriteHoliday(old, new)
  OBVIOUS
<1>3. PICK e : e = ReleaseOn(d, l)
  OBVIOUS
<1>4. c.call = "write_holiday" /\ e.call = "release_for_holiday"
  BY <1>2, <1>3 DEF WriteHoliday, ReleaseOn
<1>5. ComesFirst(c, bookings, credits) /\ ComesAfter(e, c)
  BY <1>4 DEF ComesFirst, ComesAfter
<1>6. PICK calls : calls = <<c, e>>
  OBVIOUS
<1>7. EndingList(calls, bookings, credits)
  <2>1. DOMAIN calls = 1 .. 2 /\ calls[1] = c /\ calls[2] = e
    BY <1>6
  <2>2. ASSUME NEW j \in DOMAIN calls, j # 1 PROVE ComesAfter(calls[j], calls[j - 1])
    <3>1. j = 2 /\ j - 1 = 1
      BY <2>1, <2>2
    <3> QED BY <1>5, <2>1, <3>1
  <2> QED BY <1>5, <2>1, <2>2 DEF EndingList
<1>8. FullRequest(AskedOfHolidays(admin))
  BY AskedIsFull DEF AskedOfHolidays
<1> QED BY <1>1, <1>2, <1>3, <1>6, <1>7, <1>8, OneListEnds, CallsTakenInTurn

LEMMA ClaimInTurn ==
  ASSUME TurnInv, MaxInFlight = 1, NEW p \in Servers, claim_holiday(p)
  PROVE  TurnKept
<1>1. PICK u \in Bookers, d \in Day, n \in VALID_DURATIONS :
        AcceptCalls(p, Asked("claim", u, u, d, "compoff", n, TRUE, {}),
                    <<InsertCredit(NewClaim(u, d, n))>>)
  BY DEF claim_holiday
<1>2. PICK c : c = InsertCredit(NewClaim(u, d, n))
  OBVIOUS
<1>3. ComesFirst(c, bookings, credits)
  BY <1>2 DEF ComesFirst, InsertCredit, NewClaim
<1> QED BY <1>1, <1>2, <1>3, OneCallEnds, OneListEnds, AskedIsFull, CallsTakenInTurn

LEMMA DecideClaimInTurn ==
  ASSUME TurnInv, MaxInFlight = 1, NEW p \in Servers, decide_claim_get(p)
  PROVE  TurnKept
<1>1. PICK actor \in Users, k \in Claimed, approve \in BOOLEAN :
        /\ credits[k].status = "pending"
        /\ AcceptCalls(p, Asked("decide_claim", actor, credits[k].user,
                                credits[k].worked_on, "compoff", FULL_DAY, TRUE, {}),
                       <<UpdateCredit(k,
                           IF approve
                           THEN [status |-> "approved",
                                 expires |-> expiry(today, CompoffValidDays)]
                           ELSE [status |-> "rejected"])>>)
  BY DEF decide_claim_get
<1>2. PICK changes : changes = IF approve
                               THEN [status |-> "approved",
                                     expires |-> expiry(today, CompoffValidDays)]
                               ELSE [status |-> "rejected"]
  OBVIOUS
<1>3. PICK c : c = UpdateCredit(k, changes)
  OBVIOUS
<1>4. changes.status # "used"
  BY <1>2
<1>5. ComesFirst(c, bookings, credits)
  BY <1>1, <1>3, <1>4 DEF ComesFirst, UpdateCredit
<1> QED BY <1>1, <1>2, <1>3, <1>5, OneCallEnds, OneListEnds, AskedIsFull, CallsTakenInTurn

LEMMA SweepInTurn ==
  ASSUME TurnInv, MaxInFlight = 1, sweep_list
  PROVE  TurnKept
<1> DEFINE S == PendingBefore(today)
<1>1. PICK order \in SetToSeqs(S) :
        AcceptEach(Worker, Task("sweep"),
                   [i \in DOMAIN order |-> <<Update(order[i], [status |-> "approved"])>>])
  BY DEF sweep_list
<1>2. PICK lists : lists = [i \in DOMAIN order |-> <<Update(order[i], [status |-> "approved"])>>]
  OBVIOUS
<1>3. S \in SUBSET (1 .. MaxBookings) /\ MaxBookings \in Nat
  BY BoundsAssumption DEF PendingBefore, Booked, BookingId
<1>4. \A i \in DOMAIN order : DOMAIN lists[i] = {1} /\ ReturnsNone(lists[i][1])
  BY <1>2 DEF ReturnsNone, Update
<1> HIDE DEF S
<1>5. InTurn(lists, bookings, credits)
  BY <1>2, <1>3, <1>4, EachReturnsNone
<1>6. FullRequest(Task("sweep")) /\ Worker \in Servers
  BY AskedIsFull DEF Task, Servers
<1> QED BY <1>1, <1>2, <1>5, <1>6, EachTakenInTurn

LEMMA LapseInTurn ==
  ASSUME TurnInv, MaxInFlight = 1, lapse_list
  PROVE  TurnKept
<1> DEFINE S == Expired
<1>1. PICK order \in SetToSeqs(S) :
        AcceptEach(Worker, Task("lapse"),
                   [i \in DOMAIN order |-> <<UpdateCredit(order[i], [status |-> "lapsed"])>>])
  BY DEF lapse_list
<1>2. PICK lists :
        lists = [i \in DOMAIN order |-> <<UpdateCredit(order[i], [status |-> "lapsed"])>>]
  OBVIOUS
<1>3. S \in SUBSET (1 .. MaxCredits) /\ MaxCredits \in Nat
  BY BoundsAssumption DEF Expired, Claimed, CreditId
<1>4. ASSUME NEW k \in S
      PROVE  EndingList(<<UpdateCredit(k, [status |-> "lapsed"])>>, bookings, credits)
  <2>1. credits[k].status # "used"
    BY DEF Expired
  <2>2. ComesFirst(UpdateCredit(k, [status |-> "lapsed"]), bookings, credits)
    BY <2>1 DEF ComesFirst, UpdateCredit
  <2> QED BY <2>2, OneCallEnds
<1>5. DOMAIN lists = DOMAIN order /\
      \A i \in DOMAIN order : order[i] \in S => EndingList(lists[i], bookings, credits)
  BY <1>2, <1>4
<1> HIDE DEF S
<1>6. InTurn(lists, bookings, credits)
  BY <1>3, <1>5, EachListEnds DEF InTurn
<1>7. FullRequest(Task("lapse")) /\ Worker \in Servers
  BY AskedIsFull DEF Task, Servers
<1> QED BY <1>1, <1>2, <1>6, <1>7, EachTakenInTurn

LEMMA TakesInTurn ==
  ASSUME TurnInv, MaxInFlight = 1,
         (\E p \in Threads : AcceptRequest(p)) \/ sweep_list \/ lapse_list
  PROVE  TurnKept
<1>1. ASSUME NEW p \in Threads, AcceptRequest(p) PROVE TurnKept
  <2>1. p \in Servers
    BY DEF Servers
  <2> QED
    BY <1>1, <2>1, CheckedInTurn, WithdrawInTurn, DecideInTurn, FlagInTurn, UndoInTurn,
       HolidayInTurn, ClaimInTurn, DecideClaimInTurn DEF AcceptRequest
<1> QED BY <1>1, SweepInTurn, LapseInTurn

-----------------------------------------------------------------------------
(* And stays in turn, check by check *)

LEMMA AppendEnds ==
  ASSUME NEW D, NEW lists \in Seq(D), NEW l \in D, NEW rows, NEW cs,
         AllEnding(lists, rows, cs), EndingList(l, rows, cs)
  PROVE  AllEnding(Append(lists, l), rows, cs)
<1>1. PICK both : both = Append(lists, l)
  OBVIOUS
<1>2. PICK n \in Nat : n = Len(lists)
  BY LenProperties
<1>3. DOMAIN lists = 1 .. n
  BY <1>2, LenProperties
<1>4. /\ both \in Seq(D) /\ Len(both) = n + 1
      /\ \A i \in 1 .. n : both[i] = lists[i]
      /\ both[n + 1] = l
  BY <1>1, <1>2, AppendProperties
<1>5. DOMAIN both = 1 .. (n + 1)
  BY <1>4, LenProperties
<1>6. ASSUME NEW i \in DOMAIN both PROVE EndingList(both[i], rows, cs)
  <2>1. CASE i \in 1 .. n
    BY <1>3, <1>4, <2>1 DEF AllEnding
  <2>2. CASE i = n + 1
    BY <1>4, <2>2
  <2> QED BY <1>2, <1>5, <2>1, <2>2
<1>7. AllEnding(both, rows, cs)
  BY <1>6 DEF AllEnding
<1> QED BY <1>1, <1>7

LEMMA ConcatEnds ==
  ASSUME NEW D, NEW front \in Seq(D), NEW back \in Seq(D), NEW rows, NEW cs,
         AllEnding(front, rows, cs), AllEnding(back, rows, cs)
  PROVE  AllEnding(front \o back, rows, cs)
<1>1. PICK both : both = front \o back
  OBVIOUS
<1>2. PICK n \in Nat : n = Len(front)
  BY LenProperties
<1>3. PICK m \in Nat : m = Len(back)
  BY LenProperties
<1>4. DOMAIN front = 1 .. n /\ DOMAIN back = 1 .. m
  BY <1>2, <1>3, LenProperties
<1>5. /\ both \in Seq(D) /\ Len(both) = n + m
      /\ \A i \in 1 .. (n + m) : both[i] = IF i <= n THEN front[i] ELSE back[i - n]
  BY <1>1, <1>2, <1>3, ConcatProperties
<1>6. DOMAIN both = 1 .. (n + m)
  BY <1>5, LenProperties
<1>7. ASSUME NEW i \in DOMAIN both PROVE EndingList(both[i], rows, cs)
  <2>1. i \in 1 .. (n + m)
    BY <1>6
  <2>2. CASE i <= n
    <3>1. i \in DOMAIN front /\ both[i] = front[i]
      BY <1>2, <1>4, <1>5, <2>1, <2>2
    <3> QED BY <3>1 DEF AllEnding
  <2>3. CASE ~(i <= n)
    <3>1. i - n \in DOMAIN back /\ both[i] = back[i - n]
      BY <1>2, <1>3, <1>4, <1>5, <2>1, <2>3
    <3> QED BY <3>1 DEF AllEnding
  <2> QED BY <2>2, <2>3
<1>8. AllEnding(both, rows, cs)
  BY <1>7 DEF AllEnding
<1> QED BY <1>1, <1>8

(* A handler goes on with calls that are in turn, and the tables stay.      *)
LEMMA CallsNext ==
  ASSUME TurnInv, NEW p \in InFlight, NEW calls, Then(p, calls),
         UNCHANGED <<bookings, credits>>, InTurn(calls, bookings, credits)
  PROVE  TurnKept
<1>1. InTurn(calls, bookings', credits')
  OBVIOUS
<1> QED BY <1>1, ThenServed, TablesStay DEF TurnKept

LEMMA GivenUpInTurn ==
  ASSUME TurnInv, NEW p \in InFlight, Refuse(p), UNCHANGED <<bookings, credits>>
  PROVE  TurnKept
BY RefusedServed, TablesStay DEF TurnKept

LEMMA ChecksNext ==
  ASSUME TurnInv, NEW p \in InFlight, NEW r,
         request' = [request EXCEPT ![p] = r], UNCHANGED <<bookings, credits>>,
         r.step = "calls" => InTurn(r.calls, bookings, credits)
  PROVE  TurnKept
<1>1. p \in Servers /\ RequestsInv /\ \A q \in InFlight : q = p
  BY DEF InFlight, TurnInv, OneAtATime
<1>2. r.step = "calls" => InTurn(r.calls, bookings', credits')
  OBVIOUS
<1>3. OneAtATime' /\ EachInTurn'
  BY <1>1, <1>2, OneServed
<1> QED BY <1>3, TablesStay DEF TurnKept

LEMMA CreateAffordInTurn ==
  ASSUME TurnInv, NEW p \in Servers, create_afford(p)
  PROVE  TurnKept
<1>1. PICK r : r = request[p]
  OBVIOUS
<1>2. /\ RequestsInv /\ p \in InFlight /\ request[p] # NoRequest
      /\ r.op = "create_or_replace" /\ Checking(r, bookings)
      /\ UNCHANGED <<bookings, credits>>
  BY <1>1, ServingChecks DEF create_afford, tables, TurnInv, InFlight
<1>3. CASE Refuse(p)
  BY <1>2, <1>3, GivenUpInTurn
<1>4. ASSUME NEW order \in SetToSeqs(r.old), NEW row,
             Then(p, Append([i \in DOMAIN order |-> EndCalls(order[i], "withdrawn", r.actor)],
                            <<Insert(row)>>))
      PROVE  TurnKept
  <2>1. PICK lists :
          lists = [i \in DOMAIN order |-> EndCalls(order[i], "withdrawn", r.actor)]
    OBVIOUS
  <2>2. DOMAIN lists = DOMAIN order /\ lists = [i \in DOMAIN lists |-> lists[i]]
    BY <2>1
  <2>3. r.old \in SUBSET (1 .. MaxBookings) /\ MaxBookings \in Nat
    BY <1>2, BoundsAssumption DEF Checking, RowsIn, BookingId
  <2>4. \A i \in DOMAIN order : order[i] \in r.old => EndingList(lists[i], bookings, credits)
    BY <2>1, EndCallsEnd
  <2>5. AllEnding(lists, bookings, credits)
    BY <2>2, <2>3, <2>4, EachListEnds
  <2>6. PICK l : l = <<Insert(row)>>
    OBVIOUS
  <2>7. EndingList(l, bookings, credits)
    <3>1. ComesFirst(Insert(row), bookings, credits)
      BY DEF ComesFirst, Insert
    <3> QED BY <2>6, <3>1, OneCallEnds
  <2>8. PICK D : D = {lists[i] : i \in DOMAIN order} \cup {l}
    OBVIOUS
  <2>9. \A i \in DOMAIN order : lists[i] \in D
    BY <2>8
  <2>10. order \in Seq(r.old)
    BY <2>3, SomeOrder
  <2>11. lists \in Seq(D) /\ l \in D
    BY <2>2, <2>8, <2>9, <2>10, OneListEach
  <2>12. AllEnding(Append(lists, l), bookings, credits)
    BY <2>5, <2>7, <2>11, AppendEnds
  <2>13. Then(p, Append(lists, l))
    BY <1>4, <2>1, <2>6
  <2> QED BY <1>2, <2>12, <2>13, CallsNext DEF InTurn
<1> QED BY <1>1, <1>3, <1>4 DEF create_afford

LEMMA RecordsNext ==
  ASSUME TurnInv, NEW p \in InFlight, NEW old, NEW r, r = [request[p] EXCEPT !.old = old],
         UNCHANGED <<bookings, credits>>,
         \/ GoOn(p, [r EXCEPT !.step = "afford"])
         \/ GoOn(p, [r EXCEPT !.step = "calls", !.calls = RecordCalls(r)])
  PROVE  TurnKept
<1>1. p \in Servers /\ request[p] # NoRequest /\ RequestsInv
  BY DEF InFlight, TurnInv
<1>2. request[p] \in RequestOf(bookings, credits, request[p].on)
  BY <1>1, InHandNow
<1>3. "step" \in DOMAIN r /\ "calls" \in DOMAIN r
  BY <1>2 DEF RequestOf
<1>4. CASE GoOn(p, [r EXCEPT !.step = "afford"])
  <2>1. PICK h : h = [r EXCEPT !.step = "afford"]
    OBVIOUS
  <2>2. h.step # "calls" /\ request' = [request EXCEPT ![p] = h]
    BY <1>3, <1>4, <2>1 DEF GoOn
  <2> QED BY <2>2, ChecksNext
<1>5. CASE GoOn(p, [r EXCEPT !.step = "calls", !.calls = RecordCalls(r)])
  <2>1. PICK h : h = [r EXCEPT !.step = "calls", !.calls = RecordCalls(r)]
    OBVIOUS
  <2>2. h.calls = RecordCalls(r) /\ request' = [request EXCEPT ![p] = h]
    BY <1>3, <1>5, <2>1 DEF GoOn
  <2> QED BY <2>2, RecordReturnsNone, ChecksNext
<1> QED BY <1>4, <1>5

LEMMA BackfillFindInTurn ==
  ASSUME TurnInv, NEW p \in Servers, backfill_find(p)
  PROVE  TurnKept
<1>1. p \in InFlight /\ UNCHANGED <<bookings, credits>>
  BY DEF backfill_find, Serving, tables
<1>2. PICK old : old = OccupyingOn(request[p].user, request[p].day)
  OBVIOUS
<1>3. PICK r : r = [request[p] EXCEPT !.old = old]
  OBVIOUS
<1>4. \/ Refuse(p)
      \/ GoOn(p, [r EXCEPT !.step = "afford"])
      \/ GoOn(p, [r EXCEPT !.step = "calls", !.calls = RecordCalls(r)])
  BY <1>2, <1>3 DEF backfill_find
<1> QED BY <1>1, <1>3, <1>4, GivenUpInTurn, RecordsNext

LEMMA ChecksInTurn ==
  ASSUME TurnInv, NEW p \in Servers,
         \/ create_holiday(p) \/ backfill_afford(p)
         \/ convert_holiday(p) \/ convert_afford(p)
  PROVE  TurnKept
<1>1. p \in InFlight /\ UNCHANGED <<bookings, credits>>
  BY DEF create_holiday, backfill_afford, convert_holiday, convert_afford, Serving, tables
<1>2. \/ Refuse(p) \/ Check(p, "afford") \/ Then(p, RecordCalls(request[p]))
  BY DEF create_holiday, backfill_afford, convert_holiday, convert_afford
<1>3. CASE Refuse(p)
  BY <1>1, <1>3, GivenUpInTurn
<1>4. CASE Check(p, "afford")
  <2>1. PICK h : h = [request[p] EXCEPT !.step = "afford"]
    OBVIOUS
  <2>2. p \in Servers /\ request[p] # NoRequest /\ RequestsInv
    BY <1>1 DEF InFlight, TurnInv
  <2>3. request[p] \in RequestOf(bookings, credits, request[p].on)
    BY <2>2, InHandNow
  <2>4. h.step # "calls" /\ request' = [request EXCEPT ![p] = h]
    BY <1>4, <2>1, <2>3 DEF RequestOf, Check, GoOn
  <2> QED BY <1>1, <2>4, ChecksNext
<1>5. CASE Then(p, RecordCalls(request[p]))
  BY <1>1, <1>5, RecordReturnsNone, CallsNext
<1> QED BY <1>2, <1>3, <1>4, <1>5

-----------------------------------------------------------------------------
(* And call by call *)

(* The call that is made, and what is in turn after it.                     *)
LEMMA CallInTurn ==
  ASSUME TurnInv, NEW p \in Servers, NEW name, Calling(p, name)
  PROVE  /\ p \in InFlight /\ Call(p).call = name
         /\ Call(p) \in CallsFor(bookings, credits, request[p].on)
         /\ \/ ReturnsNone(Call(p)) /\ NoneReturned(Rest(p))
            \/ /\ ComesFirst(Call(p), bookings, credits)
               /\ \A rows1, cs1 :
                    /\ OnlyEnds(bookings, rows1, credits, cs1)
                    /\ Call(p).call = "update_booking" => OverBy(Call(p).id, rows1)
                    => AllEnding(Rest(p), rows1, cs1)
<1> DEFINE A == CallsFor(bookings, credits, request[p].on)
           s == request[p].calls
<1>1. p \in InFlight /\ request[p] # NoRequest /\ request[p].step = "calls" /\ RequestsInv
  BY DEF Calling, InFlight, TurnInv
<1>2. Call(p).call = name /\ Call(p) \in A /\ Call(p) = Head(Head(s))
  BY <1>1, CallNow DEF Call
<1>3. s \in Seq(Seq(A) \ {<<>>}) /\ s # <<>>
  BY <1>1, InHandNow DEF InHand, RequestOf, CallLists
<1>4. PICK rest : rest = Rest(p)
  OBVIOUS
<1>5. rest = ListsLeft(s)
  BY <1>4 DEF Rest, ListsLeft
<1>6. InTurn(s, bookings, credits)
  BY <1>1 DEF TurnInv, EachInTurn
<1>7. \A c \in A : /\ c.call = "release_for_booking" => c.id \in BookingId
                   /\ c.call = "update_compoff_credit" => c.id \in RowsOf(credits)
  BY KindOfCall DEF CreditsOf, CreditUpdate, RowsIn
<1> HIDE DEF A, s
<1>8. CASE NoneReturned(s)
  <2>1. NoneReturned(rest) /\ ReturnsNone(Head(Head(s)))
    BY <1>3, <1>5, <1>8, StillNoneReturned
  <2> QED BY <1>1, <1>2, <1>4, <2>1 DEF A
<1>9. CASE AllEnding(s, bookings, credits)
  <2>1. ComesFirst(Head(Head(s)), bookings, credits)
    BY <1>3, <1>5, <1>9, AfterFirst DEF AllEnding, EndingList
  <2>2. ASSUME NEW rows1, NEW cs1, OnlyEnds(bookings, rows1, credits, cs1),
               Head(Head(s)).call = "update_booking" => OverBy(Head(Head(s)).id, rows1)
        PROVE  AllEnding(rest, rows1, cs1)
    BY <1>3, <1>5, <1>7, <1>9, <2>2, EndingLeft
  <2> QED BY <1>1, <1>2, <1>4, <2>1, <2>2 DEF A
<1> QED BY <1>6, <1>8, <1>9 DEF InTurn

LEMMA NothingEnds ==
  ASSUME TurnInv
  PROVE  OnlyEnds(bookings, bookings, credits, credits)
BY BookedRows DEF OnlyEnds, TurnInv, UsedForBookings

(* A call that writes no booking and no credit.                             *)
LEMMA RestNext ==
  ASSUME TurnInv, NEW p \in Servers, NEW name, Calling(p, name), name # "update_booking",
         Then(p, Rest(p)), UNCHANGED <<bookings, credits>>
  PROVE  TurnKept
<1>1. p \in InFlight /\ InTurn(Rest(p), bookings, credits)
  BY CallInTurn, NothingEnds DEF InTurn
<1> QED BY <1>1, CallsNext

LEMMA UpdateInTurn ==
  ASSUME TurnInv, NEW p \in Servers, update_booking(p)
  PROVE  TurnKept
<1>1. PICK c : c = Call(p)
  OBVIOUS
<1>2. PICK b : b = c.id
  OBVIOUS
<1>3. PICK row : row = Updated(bookings[b], c.set)
  OBVIOUS
<1>4. RequestsInv /\ Calling(p, "update_booking") /\ credits' = credits
  BY DEF TurnInv, update_booking
<1>5. c.call = "update_booking" /\ c \in BookingUpdate(bookings) /\ p \in InFlight
  BY <1>1, <1>4, CallNow, KindOfCall DEF InFlight
<1>6. b \in RowsIn(bookings) /\ c.set \in BookingChanges
  BY <1>2, <1>5 DEF BookingUpdate
<1>7. b \in BookingId /\ bookings[b] \in Booking
  BY <1>4, <1>6, RowFacts DEF RequestsInv
<1>8. row.status = c.set.status
  BY <1>3, <1>6, <1>7, UpdatedRow
<1>9. CASE NoneReturned(Rest(p))
  <2>1. PICK calls : Then(p, calls) /\ NoneReturned(calls)
    <3>1. NoneReturned(<<>>)
      BY DEF NoneReturned
    <3> QED BY <1>9, <3>1 DEF update_booking, Raised
  <2>2. InTurn(calls, bookings', credits')
    BY <2>1 DEF InTurn
  <2>3. OneAtATime' /\ EachInTurn'
    BY <1>5, <2>1, <2>2, ThenServed
  <2>4. UsedForBookings' /\ ReturnedOver
    BY <1>4 DEF TurnInv, UsedForBookings, ReturnedOver, Claimed
  <2> QED BY <2>3, <2>4 DEF TurnKept
<1>10. CASE ~NoneReturned(Rest(p))
  <2>1. /\ ComesFirst(c, bookings, credits)
        /\ \A rows1, cs1 :
             OnlyEnds(bookings, rows1, credits, cs1) /\ OverBy(b, rows1)
               => AllEnding(Rest(p), rows1, cs1)
    BY <1>1, <1>2, <1>4, <1>10, CallInTurn
  <2>2. row.status \notin CONSUMING_STATES
    BY <1>5, <1>8, <2>1 DEF ComesFirst
  <2>3. row.status \notin OCCUPYING_STATES
    BY <1>6, <1>8, <2>2 DEF BookingChanges, CONSUMING_STATES, OCCUPYING_STATES
  <2>4. Then(p, Rest(p)) /\ bookings' = [bookings EXCEPT ![b] = row]
    BY <1>1, <1>2, <1>3, <2>3 DEF update_booking, DayTaken
  <2>5. bookings'[b] = row /\ \A x \in BookingId \ {b} : bookings'[x] = bookings[x]
    BY <1>4, <1>7, <2>4 DEF RequestsInv, TablesOK, TypeOK
  <2>6. OverBy(b, bookings') /\ \A x \in BookingId : OverBy(x, bookings) => OverBy(x, bookings')
    BY <2>2, <2>5 DEF OverBy
  <2>7. OnlyEnds(bookings, bookings', credits, credits')
    BY <1>4, <2>6, NothingEnds DEF OnlyEnds
  <2>8. InTurn(Rest(p), bookings', credits')
    BY <2>1, <2>6, <2>7 DEF InTurn
  <2>9. OneAtATime' /\ EachInTurn'
    BY <1>5, <2>4, <2>8, ThenServed
  <2>10. UsedForBookings' /\ ReturnedOver
    BY <1>4 DEF TurnInv, UsedForBookings, ReturnedOver, Claimed
  <2> QED BY <2>9, <2>10 DEF TurnKept
<1> QED BY <1>9, <1>10

LEMMA UpdateIfInTurn ==
  ASSUME TurnInv, NEW p \in Servers, update_booking_if_status(p)
  PROVE  TurnKept
<1>1. Calling(p, "update_booking_if_unrecognised") /\ credits' = credits
  BY DEF update_booking_if_status
<1>2. p \in InFlight /\ NoneReturned(Rest(p))
  BY <1>1, CallInTurn DEF ComesFirst
<1>3. UsedForBookings' /\ ReturnedOver
  BY <1>1 DEF TurnInv, UsedForBookings, ReturnedOver, Claimed
<1>4. OneAtATime' /\ EachInTurn'
  BY <1>2, ThenServed, RefusedServed DEF update_booking_if_status, InTurn
<1> QED BY <1>3, <1>4 DEF TurnKept

LEMMA InsertInTurn ==
  ASSUME TurnInv, NEW p \in Servers, insert_booking(p)
  PROVE  TurnKept
<1>1. p \in InFlight /\ credits' = credits
  BY CallInTurn DEF insert_booking
<1>2. PICK n, category : Refuse(p) \/ Then(p, ThenConsume(n, category))
  BY DEF insert_booking
<1>3. UsedForBookings' /\ ReturnedOver
  BY <1>1 DEF TurnInv, UsedForBookings, ReturnedOver, Claimed
<1>4. OneAtATime' /\ EachInTurn'
  BY <1>1, <1>2, ThenServed, RefusedServed, ThenConsumeReturnsNone
<1> QED BY <1>3, <1>4 DEF TurnKept

LEMMA ReleaseInTurn ==
  ASSUME TurnInv, NEW p \in Servers, release_for_booking(p)
  PROVE  TurnKept
<1>1. PICK b : b = Call(p).id
  OBVIOUS
<1> DEFINE S == UsedBy(b)
           free == [status |-> "approved", booking |-> NoBooking]
<1>2. Calling(p, "release_for_booking") /\ UNCHANGED <<bookings, credits>>
  BY DEF release_for_booking, tables
<1>3. /\ p \in InFlight /\ OverBy(b, bookings)
      /\ AllEnding(Rest(p), bookings, credits)
  BY <1>1, <1>2, CallInTurn, NothingEnds DEF ReturnsNone, ComesFirst
<1>4. PICK order \in SetToSeqs(S) :
        Then(p, [i \in DOMAIN order |-> <<UpdateCredit(order[i], free)>>] \o Rest(p))
  BY <1>1 DEF release_for_booking
<1>5. PICK lists : lists = [i \in DOMAIN order |-> <<UpdateCredit(order[i], free)>>]
  OBVIOUS
<1>6. S \in SUBSET (1 .. MaxCredits) /\ MaxCredits \in Nat
  BY BoundsAssumption DEF UsedBy, Claimed, CreditId
<1>7. ASSUME NEW k \in S
      PROVE  EndingList(<<UpdateCredit(k, free)>>, bookings, credits)
  <2>1. credits[k].booking = b
    BY DEF UsedBy
  <2>2. PICK c : c = UpdateCredit(k, free)
    OBVIOUS
  <2>3. c.call = "update_compoff_credit" /\ c.id = k /\ c.set.status # "used"
    BY <2>2 DEF UpdateCredit
  <2>4. ComesFirst(c, bookings, credits)
    BY <1>3, <2>1, <2>3 DEF ComesFirst
  <2> QED BY <2>2, <2>4, OneCallEnds
<1>8. /\ DOMAIN lists = DOMAIN order /\ lists = [i \in DOMAIN lists |-> lists[i]]
      /\ \A i \in DOMAIN order : order[i] \in S => EndingList(lists[i], bookings, credits)
  BY <1>5, <1>7
<1> HIDE DEF S, free
<1>9. AllEnding(lists, bookings, credits)
  BY <1>6, <1>8, EachListEnds
<1>10. Rest(p) \in CallLists(bookings, credits, request[p].on)
  BY <1>2, CallNow DEF TurnInv
<1>11. PICK E : Rest(p) \in Seq(E)
  BY <1>10 DEF CallLists
<1>12. PICK D : D = {lists[i] : i \in DOMAIN order} \cup E
  OBVIOUS
<1>13. lists \in Seq(D)
  <2>1. order \in Seq(S)
    BY <1>6, SomeOrder
  <2>2. \A i \in DOMAIN order : lists[i] \in D
    BY <1>12
  <2> QED BY <1>8, <2>1, <2>2, OneListEach
<1>14. Rest(p) \in Seq(D)
  <2>1. E \subseteq D
    BY <1>12
  <2> QED BY <1>11, <2>1
<1>15. AllEnding(lists \o Rest(p), bookings, credits)
  BY <1>3, <1>9, <1>13, <1>14, ConcatEnds
<1>16. Then(p, lists \o Rest(p))
  BY <1>4, <1>5
<1> QED BY <1>2, <1>3, <1>15, <1>16, CallsNext DEF InTurn

LEMMA ConsumeInTurn ==
  ASSUME TurnInv, NEW p \in Servers, consume(p)
  PROVE  TurnKept
<1>1. Calling(p, "consume") /\ UNCHANGED <<bookings, credits>>
  BY DEF consume, tables
<1>2. p \in InFlight
  BY <1>1, CallInTurn
<1> DEFINE r == request[p]
           mine == ApprovedCredits(credits, r.user)
           picks == pick_credits(credits, mine, r.duration, r.on)
<1>3. CASE picks = {}
  <2>1. Refuse(p)
    BY <1>3 DEF consume
  <2> QED BY <1>1, <1>2, <2>1, GivenUpInTurn
<1>4. CASE picks # {}
  <2>1. PICK b : b = Call(p).id
    OBVIOUS
  <2>2. PICK C \in picks :
          \E order \in SetToSeqs(C) :
            Then(p, [i \in DOMAIN order |->
                       <<UpdateCredit(order[i], [status |-> "used", booking |-> b])>>])
    BY <1>4, <2>1 DEF consume
  <2>3. PICK order \in SetToSeqs(C) :
          Then(p, [i \in DOMAIN order |->
                     <<UpdateCredit(order[i], [status |-> "used", booking |-> b])>>])
    BY <2>2
  <2>4. PICK lists : lists = [i \in DOMAIN order |->
                                <<UpdateCredit(order[i], [status |-> "used", booking |-> b])>>]
    OBVIOUS
  <2>5. C \subseteq mine
    BY DEF pick_credits
  <2>6. C \in SUBSET (1 .. MaxCredits) /\ MaxCredits \in Nat
    BY <2>5, BoundsAssumption DEF ApprovedCredits, CreditId
  <2>7. \A i \in DOMAIN order : DOMAIN lists[i] = {1} /\ ReturnsNone(lists[i][1])
    BY <2>4 DEF ReturnsNone, UpdateCredit
  <2>8. InTurn(lists, bookings, credits)
    BY <2>4, <2>6, <2>7, EachReturnsNone
  <2>9. Then(p, lists)
    BY <2>3, <2>4
  <2> QED BY <1>1, <1>2, <2>8, <2>9, CallsNext
<1> QED BY <1>3, <1>4

LEMMA CreditInTurn ==
  ASSUME TurnInv, NEW p \in Servers, update_compoff_credit(p)
  PROVE  TurnKept
<1>1. PICK c : c = Call(p)
  OBVIOUS
<1>2. PICK k : k = c.id
  OBVIOUS
<1>3. PICK row : row = Updated(credits[k], c.set)
  OBVIOUS
<1>4. RequestsInv /\ Calling(p, "update_compoff_credit") /\ bookings' = bookings
  BY DEF TurnInv, update_compoff_credit
<1>5. c.call = "update_compoff_credit" /\ c \in CreditUpdate(credits) /\ p \in InFlight
  BY <1>1, <1>4, CallNow, KindOfCall DEF InFlight
<1>6. k \in RowsOf(credits) /\ c.set \in CreditChanges
  BY <1>2, <1>5 DEF CreditUpdate
<1>7. k \in CreditId /\ credits[k] \in Credit
  BY <1>4, <1>6 DEF RowsOf, RequestsInv, TablesOK, TypeOK
<1>8. /\ row.status = c.set.status
      /\ c.set.status = "used" => row.booking \in BookingId
  BY <1>3, <1>6, <1>7 DEF Updated, Credit, CreditChanges
<1>9. CASE WorkedDayClaimed(k, row)
  <2>1. Refuse(p) /\ UNCHANGED <<bookings, credits>>
    BY <1>1, <1>2, <1>3, <1>4, <1>9 DEF update_compoff_credit
  <2> QED BY <1>5, <2>1, GivenUpInTurn
<1>10. CASE ~WorkedDayClaimed(k, row)
  <2>1. Then(p, Rest(p)) /\ credits' = [credits EXCEPT ![k] = row]
    BY <1>1, <1>2, <1>3, <1>10 DEF update_compoff_credit
  <2>2. credits'[k] = row /\ \A j \in CreditId \ {k} : credits'[j] = credits[j]
    BY <1>4, <1>7, <2>1 DEF RequestsInv, TablesOK, TypeOK
  <2>3. UsedForBookings'
    <3> SUFFICES ASSUME NEW j \in Claimed', credits'[j].status = "used"
                 PROVE  credits'[j].booking \in BookingId
      BY DEF UsedForBookings
    <3>1. CASE j = k
      BY <1>8, <2>2, <3>1
    <3>2. CASE j # k
      BY <2>2, <3>2 DEF TurnInv, UsedForBookings, Claimed
    <3> QED BY <3>1, <3>2
  <2>4. CASE ReturnsNone(c) /\ NoneReturned(Rest(p))
    <3>1. row.status = "used"
      BY <1>5, <1>8, <2>4 DEF ReturnsNone
    <3>2. ReturnedOver
      BY <2>2, <3>1 DEF ReturnedOver, Claimed
    <3>3. OneAtATime' /\ EachInTurn'
      BY <1>5, <2>1, <2>4, ThenServed DEF InTurn
    <3> QED BY <2>3, <3>2, <3>3 DEF TurnKept
  <2>5. CASE ~(ReturnsNone(c) /\ NoneReturned(Rest(p)))
    <3>1. /\ ComesFirst(c, bookings, credits)
          /\ \A rows1, cs1 :
               OnlyEnds(bookings, rows1, credits, cs1) => AllEnding(Rest(p), rows1, cs1)
      BY <1>1, <1>4, <1>5, <2>5, CallInTurn
    <3>2. /\ row.status # "used"
          /\ credits[k].status = "used" => OverBy(credits[k].booking, bookings)
      BY <1>2, <1>5, <1>8, <3>1 DEF ComesFirst
    <3>3. ReturnedOver
      BY <2>2, <3>2 DEF ReturnedOver, Claimed, OverBy, Consuming
    <3>4. OnlyEnds(bookings, bookings', credits, credits')
      <4>1. OnlyEnds(bookings, bookings, credits, credits)
        BY NothingEnds
      <4> QED BY <1>4, <2>2, <3>2, <4>1 DEF OnlyEnds, RowsOf
    <3>5. InTurn(Rest(p), bookings', credits')
      BY <3>1, <3>4 DEF InTurn
    <3>6. OneAtATime' /\ EachInTurn'
      BY <1>5, <2>1, <3>5, ThenServed
    <3> QED BY <2>3, <3>3, <3>6 DEF TurnKept
  <2> QED BY <2>4, <2>5
<1> QED BY <1>9, <1>10

LEMMA ClaimedInTurn ==
  ASSUME TurnInv, NEW p \in Servers, insert_compoff_credit(p)
  PROVE  TurnKept
<1>1. PICK row : row = Call(p).row
  OBVIOUS
<1>2. Calling(p, "insert_compoff_credit") /\ bookings' = bookings /\ Refuse(p)
  BY DEF insert_compoff_credit
<1>3. PICK n \in CreditId :
        /\ credits[n] = NoRow
        /\ credits' = credits \/ credits' = [credits EXCEPT ![n] = row]
  BY <1>1 DEF insert_compoff_credit, IsNextRow
<1>4. p \in InFlight /\ row.status # "used"
  BY <1>1, <1>2, CallInTurn DEF ReturnsNone, ComesFirst
<1>5. OneAtATime' /\ EachInTurn'
  BY <1>2, <1>4, RefusedServed
<1>6. \A k \in CreditId : credits'[k] = credits[k] \/ (k = n /\ credits'[k] = row)
  <2>1. DOMAIN credits = CreditId
    BY DEF TurnInv, RequestsInv, TablesOK, TypeOK
  <2>2. CASE credits' = credits
    BY <2>2
  <2>3. CASE credits' = [credits EXCEPT ![n] = row]
    BY <2>1, <2>3
  <2> QED BY <1>3, <2>2, <2>3
<1>7. UsedForBookings'
  BY <1>4, <1>6 DEF TurnInv, UsedForBookings, Claimed
<1>8. ReturnedOver
  BY <1>3, <1>6 DEF ReturnedOver, Claimed
<1> QED BY <1>5, <1>7, <1>8 DEF TurnKept

LEMMA WriteInTurn ==
  ASSUME TurnInv, NEW p \in Servers, write_holiday(p)
  PROVE  TurnKept
<1>1. /\ Calling(p, "write_holiday") /\ Then(p, Rest(p))
      /\ UNCHANGED <<bookings, credits>>
  BY DEF write_holiday
<1> QED BY <1>1, RestNext

LEMMA ReleaseOnInTurn ==
  ASSUME TurnInv, NEW p \in Servers, release_on(p)
  PROVE  TurnKept
<1>1. Calling(p, "release_for_holiday") /\ UNCHANGED <<bookings, credits>>
  BY DEF release_on, tables
<1>2. p \in InFlight
  BY <1>1, CallInTurn
<1>3. PICK S : /\ S = {b \in ConsumingOn(Call(p).day) :
                         Call(p).location \in {Everywhere, LocationOf[bookings[b].user]}}
               /\ \E order \in SetToSeqs(S) :
                    Then(p, [i \in DOMAIN order |->
                               EndCalls(order[i], "released", request[p].actor)])
  BY DEF release_on
<1>4. PICK order \in SetToSeqs(S) :
        Then(p, [i \in DOMAIN order |->
                   EndCalls(order[i], "released", request[p].actor)])
  BY <1>3
<1>5. PICK lists : lists = [i \in DOMAIN order |->
                              EndCalls(order[i], "released", request[p].actor)]
  OBVIOUS
<1>6. S \in SUBSET (1 .. MaxBookings) /\ MaxBookings \in Nat
  BY <1>3, BoundsAssumption DEF ConsumingOn, Booked, BookingId
<1>7. DOMAIN lists = DOMAIN order /\
      \A i \in DOMAIN order : order[i] \in S => EndingList(lists[i], bookings, credits)
  BY <1>5, EndCallsEnd
<1>8. AllEnding(lists, bookings, credits)
  BY <1>6, <1>7, EachListEnds
<1> QED BY <1>1, <1>2, <1>4, <1>5, <1>8, CallsNext DEF InTurn

LEMMA EachStepInTurn ==
  ASSUME TurnInv, MaxInFlight = 1, [ServerNext]_serverVars
  PROVE  TurnKept
<1>1. ASSUME NEW p \in Servers, Serve(p) PROVE TurnKept
  BY <1>1, ChecksInTurn, CreateAffordInTurn, BackfillFindInTurn, UpdateInTurn,
     UpdateIfInTurn, InsertInTurn, ReleaseInTurn, ConsumeInTurn, CreditInTurn,
     ClaimedInTurn, WriteInTurn, ReleaseOnInTurn DEF Serve
<1>2. ASSUME NEW p \in Servers, stop(p) PROVE TurnKept
  <2>1. p \in InFlight /\ Refuse(p) /\ UNCHANGED <<bookings, credits>>
    BY <1>2 DEF stop, tables
  <2> QED BY <2>1, GivenUpInTurn
<1>3. ASSUME UNCHANGED <<bookings, credits, request>> PROVE TurnKept
  <2>1. OneAtATime' /\ EachInTurn'
    BY <1>3 DEF TurnInv, OneAtATime, EachInTurn, InFlight
  <2> QED BY <1>3, <2>1, TablesStay DEF TurnKept
<1>4. ASSUME delete_holiday PROVE UNCHANGED <<bookings, credits, request>>
  BY <1>4 DEF delete_holiday, remove_holiday
<1>5. ASSUME clock PROVE UNCHANGED <<bookings, credits, request>>
  BY <1>5 DEF clock, NextDay
<1>6. ASSUME UNCHANGED serverVars PROVE UNCHANGED <<bookings, credits, request>>
  BY <1>6 DEF serverVars
<1> QED BY <1>1, <1>2, <1>3, <1>4, <1>5, <1>6, TakesInTurn DEF ServerNext

(* services/bookings.py:764-771.  One handler at a time, cut short wherever *)
(* it may be: a booking is over before any credit used for it can be spent  *)
(* again, because every list of calls that ends bookings ends each of them  *)
(* first, and the lists that move a booking on hand no credit back.         *)
THEOREM CreditsReturnedOver ==
  ASSUME MaxInFlight = 1
  PROVE  ServerSpec => CreditReturnedOnceOver
<1>1. ServerInit => TurnInv
  <2> SUFFICES ASSUME ServerInit PROVE TurnInv
    OBVIOUS
  <2>1. InFlight = {} /\ Claimed = {}
    BY DEF ServerInit, Init, InFlight, Claimed
  <2> QED BY <2>1, FirstState DEF TurnInv, OneAtATime, UsedForBookings, EachInTurn
<1>2. TurnInv /\ [ServerNext]_serverVars => TurnInv'
  <2> SUFFICES ASSUME TurnInv, [ServerNext]_serverVars PROVE TurnInv'
    OBVIOUS
  <2>1. Kept
    BY EachStep DEF TurnInv
  <2>2. RequestsInv'
    BY <2>1 DEF Kept, RequestsInv, TablesOK
  <2>3. TurnKept
    BY EachStepInTurn
  <2> QED BY <2>2, <2>3 DEF TurnInv, TurnKept
<1>3. TurnInv /\ [ServerNext]_serverVars => [ReturnedOver]_serverVars
  BY EachStepInTurn DEF TurnKept
<1>4. CreditReturnedOnceOver <=> [][ReturnedOver]_serverVars
  BY DEF CreditReturnedOnceOver, ReturnedOver
<1> QED BY <1>1, <1>2, <1>3, <1>4, PTL DEF ServerSpec
=============================================================================
