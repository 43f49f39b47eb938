------------------------ MODULE WestonDisplay_proofs ------------------------
(***************************************************************************)
(* What holds of outputs, windows and pictures of the weston plugin and of *)
(* the video's rectangle of the westeros plugin, for any outputs, windows, *)
(* frame sizes and transforms; and so of the behaviours of                 *)
(* MCWestonDisplay.                                                        *)
(***************************************************************************)
EXTENDS MCWestonDisplay, FiniteSetTheorems, SequenceTheorems, TLAPS

-----------------------------------------------------------------------------
(* WestonOutputs: the queue of the compositor's events. *)

Measured(r) == r.w > 0 /\ r.h > 0

Plain  == [kind : {"surface", "sync"}]
Named  == [kind : {"global", "remove"}, name : 1..Len(Modes)]
Stated == [kind : {"state"}, name : 1..Len(Modes), rect : {r \in Rects : Measured(r)}]
Sized  == [kind : {"toplevel"}, size : [w : Nat, h : Nat]]
Happening == Plain \cup Named \cup Stated \cup Sized

SlotType == [name : 0..Len(Modes), rect : Rects]

Has(q, e) == \E i \in DOMAIN q : q[i] = e

\* An event of the kinds K about output n.
About(q, K, n) == \E e \in Happening : Has(q, e) /\ e.kind \in K /\ e.name = n
Silent(q, n)   == ~About(q, {"state"}, n)
\* The output will be handled again.
Pending(q, n)  == About(q, {"state", "remove"}, n)

\* The last event about the state of output n tells r.
Says(q, n, r) ==
    \E k \in DOMAIN q :
        /\ q[k] = State(n, r)
        /\ \A m \in DOMAIN q : m > k => ~(q[m].kind = "state" /\ q[m].name = n)

\* A global whose output is gone is followed by its removal.
Gone(q, P) ==
    \A i \in DOMAIN q : q[i].kind = "global" /\ q[i].name \notin P =>
        \E j \in DOMAIN q : j > i /\ q[j] = OutputEvent("remove", q[i].name)

\* A global comes once, of an output that is not in N.
Fresh(q, N) ==
    \A i \in DOMAIN q : q[i].kind = "global" =>
        q[i].name \notin N /\ \A j \in DOMAIN q : j > i => q[j] # q[i]

LEMMA Kinds ==
  ASSUME NEW e \in Happening
  PROVE  /\ e.kind \in {"surface", "sync"} => e = Event(e.kind)
         /\ e.kind \in {"global", "remove"} =>
               e.name \in 1..Len(Modes) /\ e = OutputEvent(e.kind, e.name)
         /\ e.kind = "state" => /\ e.name \in 1..Len(Modes) /\ e = State(e.name, e.rect)
                                /\ e.rect \in Rects /\ Measured(e.rect)
         /\ e.kind = "toplevel" => e.size \in [w : Nat, h : Nat]
         /\ e.kind \in {"global", "remove", "state", "toplevel", "surface", "sync"}
  BY DEF Happening, Plain, Named, Stated, Sized, Event, OutputEvent, State

LEMMA Makes ==
  /\ Event("surface") \in Happening /\ Event("sync") \in Happening
  /\ \A n \in 1..Len(Modes), k \in {"global", "remove"} : OutputEvent(k, n) \in Happening
  /\ \A n \in 1..Len(Modes), r \in Rects : Measured(r) => State(n, r) \in Happening
  /\ \A size \in [w : Nat, h : Nat] : [kind |-> "toplevel", size |-> size] \in Happening
  BY DEF Happening, Plain, Named, Stated, Sized, Event, OutputEvent, State

\* Positions in the rest of a queue and in a longer one.
LEMMA TailAt ==
  ASSUME NEW q \in Seq(Happening), q # <<>>, NEW i \in 2..Len(q)
  PROVE  i - 1 \in 1..(Len(q) - 1) /\ Tail(q)[i - 1] = q[i]
  <1>1. \A k \in 1..(Len(q) - 1) : Tail(q)[k] = q[k + 1]
    OBVIOUS
  <1>2. Len(q) \in Nat /\ i \in Nat /\ i >= 2 /\ i <= Len(q)
    OBVIOUS
  <1>3. i - 1 \in 1..(Len(q) - 1) /\ (i - 1) + 1 = i
    BY <1>2
  <1>4. Tail(q)[i - 1] = q[(i - 1) + 1]
    BY <1>1, <1>3
  <1> QED  BY <1>3, <1>4

LEMMA ConcatAt ==
  ASSUME NEW q \in Seq(Happening), NEW r \in Seq(Happening),
         NEW i \in 1..(Len(q) + Len(r)), i \notin 1..Len(q)
  PROVE  i - Len(q) \in 1..Len(r) /\ (q \o r)[i] = r[i - Len(q)]
  <1>1. Len(q) \in Nat /\ Len(r) \in Nat /\ i \in Nat /\ i > Len(q) /\ i <= Len(q) + Len(r)
    OBVIOUS
  <1>2. i - Len(q) \in 1..Len(r)
    BY <1>1
  <1> QED  BY <1>1, <1>2

\* The head of the queue is handled.
LEMMA Taken ==
  ASSUME NEW q \in Seq(Happening), q # <<>>, NEW P, NEW N
  PROVE  /\ Tail(q) \in Seq(Happening) /\ Head(q) \in Happening /\ Has(q, Head(q))
         /\ \A e : Has(q, e) => e = Head(q) \/ Has(Tail(q), e)
         /\ \A e : Has(Tail(q), e) => Has(q, e)
         /\ Gone(q, P) => Gone(Tail(q), P)
         /\ Gone(q, P) /\ Head(q).kind = "global" /\ Head(q).name \notin P =>
               Has(Tail(q), OutputEvent("remove", Head(q).name))
         /\ Fresh(q, N) => Fresh(Tail(q), N)
         /\ Fresh(q, N) /\ Head(q).kind = "global" =>
               Head(q).name \notin N /\ ~Has(Tail(q), Head(q))
  <1>1. /\ Tail(q) \in Seq(Happening) /\ Len(Tail(q)) = Len(q) - 1 /\ Len(q) \in Nat /\ Len(q) >= 1
        /\ Head(q) = q[1] /\ Head(q) \in Happening
        /\ \A i \in 1..(Len(q) - 1) : Tail(q)[i] = q[i + 1]
        /\ DOMAIN q = 1..Len(q) /\ DOMAIN Tail(q) = 1..(Len(q) - 1)
    OBVIOUS
  <1>2. \A i \in 2..Len(q) : i - 1 \in 1..(Len(q) - 1) /\ Tail(q)[i - 1] = q[i]
    BY TailAt
  <1>3. /\ Has(q, Head(q))
        /\ \A e : Has(q, e) => e = Head(q) \/ Has(Tail(q), e)
        /\ \A e : Has(Tail(q), e) => Has(q, e)
    <2>1. Has(q, Head(q))
      BY <1>1 DEF Has
    <2>2. ASSUME NEW e, Has(q, e), e # Head(q) PROVE Has(Tail(q), e)
      <3>1. PICK i \in 1..Len(q) : q[i] = e  BY <1>1, <2>2 DEF Has
      <3>2. i \in 2..Len(q)  BY <1>1, <2>2, <3>1
      <3> QED  BY <1>1, <1>2, <3>1, <3>2 DEF Has
    <2>3. ASSUME NEW e, Has(Tail(q), e) PROVE Has(q, e)
      <3>1. PICK i \in 1..(Len(q) - 1) : Tail(q)[i] = e  BY <1>1, <2>3 DEF Has
      <3>2. i + 1 \in 1..Len(q)  BY <1>1
      <3> QED  BY <1>1, <3>1, <3>2 DEF Has
    <2> QED  BY <2>1, <2>2, <2>3
  <1>4. ASSUME Gone(q, P) PROVE Gone(Tail(q), P)
    <2> SUFFICES ASSUME NEW i \in 1..(Len(q) - 1), q[i + 1].kind = "global", q[i + 1].name \notin P
                 PROVE  \E j \in 1..(Len(q) - 1) : j > i /\ Tail(q)[j] = OutputEvent("remove", q[i + 1].name)
      BY <1>1 DEF Gone
    <2>1. PICK j \in 1..Len(q) : j > i + 1 /\ q[j] = OutputEvent("remove", q[i + 1].name)
      BY <1>1, <1>4 DEF Gone
    <2> QED  BY <1>1, <1>2, <2>1
  <1>5. ASSUME Gone(q, P), Head(q).kind = "global", Head(q).name \notin P
        PROVE  Has(Tail(q), OutputEvent("remove", Head(q).name))
    <2>1. PICK j \in 1..Len(q) : j > 1 /\ q[j] = OutputEvent("remove", q[1].name)
      BY <1>1, <1>5 DEF Gone
    <2>2. j \in 2..Len(q)  BY <1>1, <2>1
    <2>3. j - 1 \in 1..(Len(q) - 1) /\ Tail(q)[j - 1] = OutputEvent("remove", Head(q).name)
      BY <1>1, <1>2, <2>1, <2>2
    <2> QED  BY <1>1, <2>3 DEF Has
  <1>6. ASSUME Fresh(q, N) PROVE Fresh(Tail(q), N)
    <2> SUFFICES ASSUME NEW i \in 1..(Len(q) - 1), q[i + 1].kind = "global"
                 PROVE  q[i + 1].name \notin N
                        /\ \A j \in 1..(Len(q) - 1) : j > i => q[j + 1] # q[i + 1]
      BY <1>1 DEF Fresh
    <2>1. \A j \in 1..(Len(q) - 1) : j + 1 \in 1..Len(q) /\ (j > i => j + 1 > i + 1)  BY <1>1
    <2> QED  BY <1>1, <1>6, <2>1 DEF Fresh
  <1>7. ASSUME Fresh(q, N), Head(q).kind = "global"
        PROVE  Head(q).name \notin N /\ ~Has(Tail(q), Head(q))
    <2>1. q[1].name \notin N /\ \A j \in 1..Len(q) : j > 1 => q[j] # q[1]
      BY <1>1, <1>7 DEF Fresh
    <2>2. \A j \in 1..(Len(q) - 1) : j + 1 \in 1..Len(q) /\ j + 1 > 1  BY <1>1
    <2> QED  BY <1>1, <2>1, <2>2 DEF Has
  <1> QED  BY <1>1, <1>3, <1>4, <1>5, <1>6, <1>7

\* So is what the queue tells of the state of an output.
LEMMA SaidTaken ==
  ASSUME NEW q \in Seq(Happening), q # <<>>, NEW n, NEW r, Says(q, n, r)
  PROVE  Says(Tail(q), n, r) \/ (Head(q) = State(n, r) /\ Silent(Tail(q), n))
  <1>1. /\ Len(Tail(q)) = Len(q) - 1 /\ Len(q) \in Nat /\ Len(q) >= 1 /\ Head(q) = q[1]
        /\ \A i \in 1..(Len(q) - 1) : Tail(q)[i] = q[i + 1] /\ i + 1 \in 1..Len(q)
        /\ DOMAIN q = 1..Len(q) /\ DOMAIN Tail(q) = 1..(Len(q) - 1)
    OBVIOUS
  <1>2. PICK k \in 1..Len(q) : /\ q[k] = State(n, r)
                               /\ \A m \in 1..Len(q) : m > k => ~(q[m].kind = "state" /\ q[m].name = n)
    BY <1>1 DEF Says
  <1>3. CASE k = 1
    <2>1. \A m \in 1..(Len(q) - 1) : m + 1 > 1  BY <1>1
    <2> QED  BY <1>1, <1>2, <1>3, <2>1 DEF Silent, About, Has
  <1>4. CASE k \in 2..Len(q)
    <2>1. k - 1 \in 1..(Len(q) - 1) /\ Tail(q)[k - 1] = q[k]  BY <1>4, TailAt
    <2>2. ASSUME NEW m \in 1..(Len(q) - 1), m > k - 1
          PROVE  ~(Tail(q)[m].kind = "state" /\ Tail(q)[m].name = n)
      <3>1. m + 1 > k /\ m + 1 \in 1..Len(q) /\ Tail(q)[m] = q[m + 1]  BY <1>1, <1>4, <2>2
      <3> QED  BY <1>2, <3>1
    <2> QED  BY <1>1, <1>2, <2>1, <2>2 DEF Says
  <1> QED  BY <1>1, <1>2, <1>3, <1>4

\* Events are added to the end of it.
LEMMA Added ==
  ASSUME NEW q \in Seq(Happening), NEW r \in Seq(Happening), NEW P, NEW Q, NEW N
  PROVE  /\ q \o r \in Seq(Happening)
         /\ \A e : Has(q \o r, e) <=> Has(q, e) \/ Has(r, e)
         /\ (/\ Gone(q, P)
             /\ \A e : Has(r, e) /\ e.kind = "global" => e.name \in Q
             /\ \A n \in P \ Q : Has(r, OutputEvent("remove", n)))
            => Gone(q \o r, Q)
         /\ Fresh(q, N) /\ (\A e : Has(r, e) => e.kind # "global") => Fresh(q \o r, N)
  <1>1. /\ q \o r \in Seq(Happening) /\ Len(q) \in Nat /\ Len(r) \in Nat
        /\ DOMAIN q = 1..Len(q) /\ DOMAIN r = 1..Len(r) /\ DOMAIN (q \o r) = 1..(Len(q) + Len(r))
        /\ \A i \in 1..Len(q) : (q \o r)[i] = q[i]
        /\ \A i \in 1..Len(r) : (q \o r)[Len(q) + i] = r[i] /\ Len(q) + i \in 1..(Len(q) + Len(r))
    OBVIOUS
  <1>2. \A i \in 1..(Len(q) + Len(r)) :
           i \in 1..Len(q) \/ (i - Len(q) \in 1..Len(r) /\ (q \o r)[i] = r[i - Len(q)])
    BY ConcatAt
  <1>3. \A e : Has(q \o r, e) <=> Has(q, e) \/ Has(r, e)
    <2>1. ASSUME NEW e, Has(q \o r, e) PROVE Has(q, e) \/ Has(r, e)
      <3>1. PICK i \in 1..(Len(q) + Len(r)) : (q \o r)[i] = e  BY <1>1, <2>1 DEF Has
      <3> QED  BY <1>1, <1>2, <3>1 DEF Has
    <2>2. ASSUME NEW e, Has(q, e) PROVE Has(q \o r, e)
      <3>1. PICK i \in 1..Len(q) : q[i] = e  BY <1>1, <2>2 DEF Has
      <3>2. i \in 1..(Len(q) + Len(r))  BY <1>1
      <3> QED  BY <1>1, <3>1, <3>2 DEF Has
    <2>3. ASSUME NEW e, Has(r, e) PROVE Has(q \o r, e)
      <3>1. PICK i \in 1..Len(r) : r[i] = e  BY <1>1, <2>3 DEF Has
      <3> QED  BY <1>1, <3>1 DEF Has
    <2> QED  BY <2>1, <2>2, <2>3
  <1>4. ASSUME Gone(q, P), \A e : Has(r, e) /\ e.kind = "global" => e.name \in Q,
               \A n \in P \ Q : Has(r, OutputEvent("remove", n))
        PROVE  Gone(q \o r, Q)
    <2> SUFFICES ASSUME NEW i \in 1..(Len(q) + Len(r)), (q \o r)[i].kind = "global", (q \o r)[i].name \notin Q
                 PROVE  \E j \in 1..(Len(q) + Len(r)) :
                           j > i /\ (q \o r)[j] = OutputEvent("remove", (q \o r)[i].name)
      BY <1>1 DEF Gone
    <2>1. i \in 1..Len(q) /\ (q \o r)[i] = q[i]
      BY <1>1, <1>2, <1>4 DEF Has
    <2>2. CASE q[i].name \notin P
      <3>1. PICK j \in 1..Len(q) : j > i /\ q[j] = OutputEvent("remove", q[i].name)
        BY <1>1, <1>4, <2>1, <2>2 DEF Gone
      <3> QED  BY <1>1, <2>1, <3>1
    <2>3. CASE q[i].name \in P
      <3>1. PICK j \in 1..Len(r) : r[j] = OutputEvent("remove", q[i].name)
        BY <1>1, <1>4, <2>1, <2>3 DEF Has
      <3> QED  BY <1>1, <2>1, <3>1
    <2> QED  BY <2>2, <2>3
  <1>5. ASSUME Fresh(q, N), \A e : Has(r, e) => e.kind # "global" PROVE Fresh(q \o r, N)
    <2> SUFFICES ASSUME NEW i \in 1..(Len(q) + Len(r)), (q \o r)[i].kind = "global"
                 PROVE  (q \o r)[i].name \notin N
                        /\ \A j \in 1..(Len(q) + Len(r)) : j > i => (q \o r)[j] # (q \o r)[i]
      BY <1>1 DEF Fresh
    <2>1. i \in 1..Len(q) /\ (q \o r)[i] = q[i]
      BY <1>1, <1>2, <1>5 DEF Has
    <2>2. \A j \in 1..Len(q) : j > i => q[j] # q[i]
      BY <1>1, <1>5, <2>1 DEF Fresh
    <2>3. \A j \in 1..(Len(q) + Len(r)) : j > i => (q \o r)[j] # (q \o r)[i]
      BY <1>1, <1>2, <1>5, <2>1, <2>2 DEF Has
    <2> QED  BY <1>1, <1>5, <2>1, <2>3 DEF Fresh
  <1> QED  BY <1>1, <1>3, <1>4, <1>5

\* What was told of the state of an output still is, when nothing of it is added.
LEMMA SaidAdded ==
  ASSUME NEW q \in Seq(Happening), NEW r \in Seq(Happening), NEW n, NEW x,
         Says(q, n, x), Silent(r, n)
  PROVE  Says(q \o r, n, x)
  <1>1. /\ Len(q) \in Nat /\ Len(r) \in Nat
        /\ DOMAIN q = 1..Len(q) /\ DOMAIN r = 1..Len(r) /\ DOMAIN (q \o r) = 1..(Len(q) + Len(r))
        /\ \A i \in 1..Len(q) : (q \o r)[i] = q[i] /\ i \in 1..(Len(q) + Len(r))
    OBVIOUS
  <1>2. \A i \in 1..(Len(q) + Len(r)) :
           i \in 1..Len(q) \/ (i - Len(q) \in 1..Len(r) /\ (q \o r)[i] = r[i - Len(q)])
    BY ConcatAt
  <1>3. \A i \in 1..Len(r) : ~(r[i].kind = "state" /\ r[i].name = n)
    BY <1>1 DEF Silent, About, Has
  <1>4. PICK k \in 1..Len(q) : /\ q[k] = State(n, x)
                               /\ \A m \in 1..Len(q) : m > k => ~(q[m].kind = "state" /\ q[m].name = n)
    BY <1>1 DEF Says
  <1>5. \A m \in 1..(Len(q) + Len(r)) : m > k => ~((q \o r)[m].kind = "state" /\ (q \o r)[m].name = n)
    BY <1>1, <1>2, <1>3, <1>4
  <1> QED  BY <1>1, <1>4, <1>5 DEF Says

\* What is added last is said.
LEMMA SaidLast ==
  ASSUME NEW q \in Seq(Happening), NEW n, NEW x, State(n, x) \in Happening
  PROVE  Says(q \o <<State(n, x)>>, n, x)
  <1> DEFINE e == State(n, x)
  <1>1. e \in Happening  OBVIOUS
  <1> HIDE DEF e
  <1>2. /\ DOMAIN (q \o <<e>>) = 1..(Len(q) + 1) /\ Len(q) \in Nat
        /\ (q \o <<e>>)[Len(q) + 1] = e /\ Len(q) + 1 \in 1..(Len(q) + 1)
        /\ \A m \in 1..(Len(q) + 1) : ~(m > Len(q) + 1)
    BY <1>1
  <1> QED  BY <1>2 DEF Says, e

\* A new global is fresh.
LEMMA FreshLast ==
  ASSUME NEW q \in Seq(Happening), NEW N, NEW e \in Happening, Fresh(q, N), e.name \notin N, ~Has(q, e)
  PROVE  Fresh(q \o <<e>>, N)
  <1>1. /\ Len(q) \in Nat /\ DOMAIN q = 1..Len(q) /\ DOMAIN (q \o <<e>>) = 1..(Len(q) + 1)
        /\ \A i \in 1..Len(q) : (q \o <<e>>)[i] = q[i]
        /\ (q \o <<e>>)[Len(q) + 1] = e
        /\ \A i \in 1..(Len(q) + 1) : i \in 1..Len(q) \/ i = Len(q) + 1
    OBVIOUS
  <1>2. \A i \in 1..Len(q) : q[i] # e
    BY <1>1 DEF Has
  <1> SUFFICES ASSUME NEW i \in 1..(Len(q) + 1), (q \o <<e>>)[i].kind = "global"
               PROVE  (q \o <<e>>)[i].name \notin N
                      /\ \A j \in 1..(Len(q) + 1) : j > i => (q \o <<e>>)[j] # (q \o <<e>>)[i]
    BY <1>1 DEF Fresh
  <1>3. CASE i = Len(q) + 1
    BY <1>1, <1>3
  <1>4. CASE i \in 1..Len(q)
    <2>1. q[i].name \notin N /\ \A j \in 1..Len(q) : j > i => q[j] # q[i]
      BY <1>1, <1>4 DEF Fresh
    <2> QED  BY <1>1, <1>2, <1>4, <2>1
  <1> QED  BY <1>1, <1>3, <1>4

\* The short sequences that are added.
LEMMA One ==
  ASSUME NEW e \in Happening
  PROVE  <<e>> \in Seq(Happening) /\ \A f : Has(<<e>>, f) <=> f = e
  BY DEF Has

LEMMA None0 == <<>> \in Seq(Happening) /\ \A f : ~Has(<<>>, f)
  BY DEF Has

LEMMA Configures ==
  ASSUME NEW size \in [w : Nat, h : Nat]
  PROVE  /\ Configure(size) \in Seq(Happening)
         /\ Has(Configure(size), Event("surface"))
         /\ \A f : Has(Configure(size), f) => f.kind \in {"toplevel", "surface"}
  <1>1. [kind |-> "toplevel", size |-> size] \in Happening /\ Event("surface") \in Happening
    BY Makes
  <1>2. /\ Configure(size) \in Seq(Happening) /\ DOMAIN Configure(size) = 1..2
        /\ Configure(size)[1] = [kind |-> "toplevel", size |-> size]
        /\ Configure(size)[2] = Event("surface")
    BY <1>1 DEF Configure
  <1> QED  BY <1>2 DEF Has, Event

-----------------------------------------------------------------------------
(* WestonOutputs: the queue and the slots. *)

NamesOf(s) == {s[i].name : i \in Slots}

\* What is known of a slot's output, or an event will tell it; or the output is
\* gone and an event will tell that.
ToldOf(q, o, P, m) ==
    IF o.name \in P
    THEN Says(q, o.name, m[o.name]) \/ (Silent(q, o.name) /\ o.rect = m[o.name])
    ELSE Has(q, OutputEvent("remove", o.name))

\* The queue q beside the slots s, the plugged outputs P, of b so far, and their modes m.
Queue(q, s, P, b, m) ==
    /\ q \in Seq(Happening)
    /\ Gone(q, P) /\ Fresh(q, NamesOf(s))
    /\ \A e \in Happening : Has(q, e) /\ e.kind = "global" => e.name <= b
    /\ \A i \in Slots : s[i].name <= b
    /\ \A i \in Bound(s) : ToldOf(q, s[i], P, m)

LEMMA ToldStays ==
  ASSUME NEW q \in Seq(Happening), NEW p \in Seq(Happening), NEW o, NEW P, NEW m, ToldOf(q, o, P, m),
         \A e : Has(q, e) => Has(p, e) \/ e.kind \in {"toplevel", "surface", "sync"},
         \A e : Has(p, e) => Has(q, e) \/ e.kind \in {"toplevel", "surface", "sync"},
         \A n, r : Says(q, n, r) => Says(p, n, r)
  PROVE  ToldOf(p, o, P, m)
  <1>1. OutputEvent("remove", o.name).kind = "remove"  BY DEF OutputEvent
  <1>2. Has(q, OutputEvent("remove", o.name)) => Has(p, OutputEvent("remove", o.name))
    BY <1>1
  <1>3. Silent(q, o.name) => Silent(p, o.name)
    BY DEF Silent, About
  <1> QED  BY <1>2, <1>3 DEF ToldOf

\* Configurations and ends of roundtrips come and go without a trace on the rest.
LEMMA QueueTail ==
  ASSUME NEW q, q # <<>>, NEW s, NEW P, NEW b, NEW m, Queue(q, s, P, b, m),
         Head(q).kind \in {"toplevel", "surface", "sync"}
  PROVE  Queue(Tail(q), s, P, b, m)
  <1>1. q \in Seq(Happening)  BY DEF Queue
  <1>2. /\ Tail(q) \in Seq(Happening) /\ Gone(Tail(q), P) /\ Fresh(Tail(q), NamesOf(s))
        /\ \A e : Has(q, e) => e = Head(q) \/ Has(Tail(q), e)
        /\ \A e : Has(Tail(q), e) => Has(q, e)
    BY <1>1, Taken DEF Queue
  <1>3. ASSUME NEW n, NEW r, Says(q, n, r) PROVE Says(Tail(q), n, r)
    <2>1. State(n, r).kind = "state"  BY DEF State
    <2> QED  BY <1>1, <1>3, <2>1, SaidTaken
  <1>4. ASSUME NEW i \in Bound(s) PROVE ToldOf(Tail(q), s[i], P, m)
    <2>1. ToldOf(q, s[i], P, m)  BY <1>4 DEF Queue
    <2> QED  BY <1>1, <1>2, <1>3, <2>1, ToldStays
  <1> QED  BY <1>2, <1>4 DEF Queue

LEMMA QueueMore ==
  ASSUME NEW q, NEW r \in Seq(Happening), NEW s, NEW P, NEW b, NEW m, Queue(q, s, P, b, m),
         \A e : Has(r, e) => e.kind \in {"toplevel", "surface", "sync"}
  PROVE  Queue(q \o r, s, P, b, m)
  <1>1. q \in Seq(Happening)  BY DEF Queue
  <1>2. /\ q \o r \in Seq(Happening) /\ Gone(q \o r, P) /\ Fresh(q \o r, NamesOf(s))
        /\ \A e : Has(q \o r, e) <=> Has(q, e) \/ Has(r, e)
    <2>1. \A e : Has(r, e) /\ e.kind = "global" => e.name \in P  OBVIOUS
    <2>2. \A n \in P \ P : Has(r, OutputEvent("remove", n))  OBVIOUS
    <2>3. Gone(q, P) /\ Fresh(q, NamesOf(s))  BY DEF Queue
    <2> QED  BY <1>1, <2>1, <2>2, <2>3, Added
  <1>3. \A n : Silent(r, n)
    BY DEF Silent, About
  <1>4. \A n, x : Says(q, n, x) => Says(q \o r, n, x)
    BY <1>1, <1>3, SaidAdded
  <1>5. ASSUME NEW i \in Bound(s) PROVE ToldOf(q \o r, s[i], P, m)
    <2>1. ToldOf(q, s[i], P, m)  BY <1>5 DEF Queue
    <2> QED  BY <1>1, <1>2, <1>4, <2>1, ToldStays
  <1>6. \A e \in Happening : Has(q \o r, e) /\ e.kind = "global" => e.name <= b
    BY <1>2 DEF Queue
  <1> QED  BY <1>2, <1>5, <1>6 DEF Queue

-----------------------------------------------------------------------------
(* WestonOutputs: the current output and the render rectangle. *)

OutTypes ==
    /\ phase \in {"closed", "globals", "states", "surface", "running"}
    /\ slots \in [Slots -> SlotType]
    /\ current \in Slots /\ select \in Slots \cup {0}
    /\ handling \in [at : {"none", "added", "removed"}, was : 0..Len(Modes)]
    /\ update \in BOOLEAN /\ missed \in BOOLEAN /\ render \in Rects
    /\ born \in 0..Len(Modes) /\ plugged \subseteq 1..born
    /\ modes \in [DOMAIN Modes -> Rects] /\ \A n \in plugged : Measured(modes[n])

Name == slots[current].name

\* Before openDisplay there is nothing; the window is configured once there is a surface.
PhaseInv ==
    /\ phase = "closed" =>
          events = <<>> /\ Bound(slots) = {} /\ ~update /\ render = NoRect /\ handling = Nothing
    /\ Has(events, Event("surface")) => HasSurface

\* Until the thread runs the output chosen is current once it is there.
SelectInv == phase # "running" /\ select \in Bound(slots) /\ handling.at # "added" => current = select

QueueInv == Queue(events, slots, plugged, born, modes)

\* The output that will be current is the one there was, or a new one, of which
\* an event will tell the state or the removal.
AddedInv ==
    handling.at = "added" =>
        LET c == Chosen(slots)
        IN  /\ c \in Bound(slots)
            /\ IF slots[c].name = handling.was THEN c = current ELSE Pending(events, slots[c].name)

\* While the new current output is not taken into account, an event will have it
\* taken: its state, or, where that was never asked for, its removal, or the
\* configuration of the window.
UpdateInv ==
    update /\ current \in Bound(slots) =>
        \/ phase \in {"globals", "states"}
        \/ Has(events, Event("surface"))
        \/ Pending(events, Name)

\* With a current output that is neither new nor waited for, the render rectangle has
\* its size, as far as that is known, or the one the compositor asked for.
RenderInv ==
    /\ current \in Bound(slots) /\ ~missed /\ ~update /\ Measured(slots[current].rect)
    /\ handling.at = "added" => Name = handling.was
    => SizeOf(render) \in {SizeOf(slots[current].rect), last}

OutIInv ==
    /\ OutTypes /\ PhaseInv /\ SelectInv /\ QueueInv /\ AddedInv /\ UpdateInv /\ RenderInv
    /\ CurrentIsPlugged

LEMMA OutInitIInv == Init => OutIInv
  <1> SUFFICES ASSUME Init PROVE OutIInv
    OBVIOUS
  <1>1. /\ phase = "closed" /\ slots = [i \in Slots |-> [name |-> 0, rect |-> NoRect]]
        /\ current = 1 /\ select = 0 /\ update = FALSE /\ handling = Nothing /\ render = NoRect
        /\ born = 0 /\ plugged = {} /\ modes = [n \in DOMAIN Modes |-> NoRect]
        /\ events = <<>> /\ missed = FALSE
    BY DEF Init
  <1>2. NoRect \in Rects  BY DEF NoRect, Rect, Rects
  <1>3. Len(Modes) \in Nat  BY OutputAssumption
  <1>4. Bound(slots) = {}  BY <1>1 DEF Bound
  <1>5. events \in Seq(Happening) /\ \A e : ~Has(events, e)  BY <1>1, None0
  <1>6. OutTypes
    <2>1. slots \in [Slots -> SlotType]  BY <1>1, <1>2, <1>3 DEF SlotType
    <2>2. born \in 0..Len(Modes) /\ plugged \subseteq 1..born  BY <1>1, <1>3
    <2>3. current \in Slots /\ select \in Slots \cup {0}  BY <1>1 DEF Slots
    <2>4. update \in BOOLEAN /\ missed \in BOOLEAN /\ render \in Rects  BY <1>1, <1>2
    <2>5. handling \in [at : {"none", "added", "removed"}, was : 0..Len(Modes)]
      BY <1>1, <1>3 DEF Nothing
    <2>6. modes \in [DOMAIN Modes -> Rects] /\ \A n \in plugged : Measured(modes[n])  BY <1>1, <1>2
    <2> QED  BY <1>1, <2>1, <2>2, <2>3, <2>4, <2>5, <2>6 DEF OutTypes
  <1>7. QueueInv
    <2>1. Gone(events, plugged) /\ Fresh(events, NamesOf(slots))  BY <1>1 DEF Gone, Fresh
    <2>2. \A i \in Slots : slots[i].name <= born  BY <1>1
    <2> QED  BY <1>4, <1>5, <2>1, <2>2 DEF QueueInv, Queue
  <1>8. handling.at = "none"  BY <1>1 DEF Nothing
  <1> QED  BY <1>1, <1>4, <1>5, <1>6, <1>7, <1>8
           DEF OutIInv, PhaseInv, SelectInv, AddedInv, UpdateInv, RenderInv, CurrentIsPlugged

\* A step that leaves the outputs and the render rectangle alone and takes no event.
LEMMA OutKept ==
  ASSUME OutIInv, UNCHANGED <<phase, slots, current, update, handling, render, missed, last>>,
         select' \in Slots \cup {0}, phase \notin {"closed", "running"} => select' = select,
         born' \in 0..Len(Modes), plugged' \subseteq 1..born',
         modes' \in [DOMAIN Modes -> Rects], \A n \in plugged' : Measured(modes'[n]),
         \A e : Has(events, e) => Has(events', e), QueueInv',
         phase = "closed" => events' = <<>>,
         Has(events', Event("surface")) => Has(events, Event("surface")) \/ HasSurface
  PROVE  OutIInv'
  <1>1. OutTypes'  BY DEF OutIInv, OutTypes
  <1>2. Bound(slots)' = Bound(slots) /\ (Name' = Name)  BY DEF Bound, Name
  <1>3. PhaseInv'  BY <1>2 DEF OutIInv, PhaseInv, HasSurface
  <1>4. SelectInv'  BY <1>2 DEF OutIInv, OutTypes, PhaseInv, SelectInv
  <1>5. \A n : Pending(events, n) => Pending(events', n)
    BY DEF Pending, About
  <1>6. AddedInv'
    <2> SUFFICES ASSUME handling.at = "added" PROVE AddedInv'
      BY DEF AddedInv
    <2>1. phase # "closed"  BY DEF OutIInv, PhaseInv, Nothing
    <2>2. Chosen(slots)' = Chosen(slots)  BY <1>2, <2>1 DEF Chosen
    <2> QED  BY <1>2, <1>5, <2>2 DEF OutIInv, AddedInv
  <1>7. UpdateInv'  BY <1>2, <1>5 DEF OutIInv, UpdateInv
  <1>8. RenderInv'  BY <1>2 DEF OutIInv, RenderInv
  <1>9. CurrentIsPlugged'  BY <1>2 DEF OutIInv, CurrentIsPlugged
  <1> QED  BY <1>1, <1>3, <1>4, <1>6, <1>7, <1>8, <1>9 DEF OutIInv

\* The same when configurations of the window are added, or nothing is.
LEMMA OutMore ==
  ASSUME OutIInv, UNCHANGED <<phase, slots, current, update, handling, render, missed, last,
                              born, plugged, modes>>,
         select' \in Slots \cup {0}, phase \notin {"closed", "running"} => select' = select,
         NEW r \in Seq(Happening), events' = events \o r, phase = "closed" => r = <<>>,
         \A e : Has(r, e) => e.kind \in {"toplevel", "surface", "sync"},
         Has(r, Event("surface")) => HasSurface
  PROVE  OutIInv'
  <1>1. events \in Seq(Happening)  BY DEF OutIInv, QueueInv, Queue
  <1>2. \A e : Has(events', e) <=> Has(events, e) \/ Has(r, e)
    BY <1>1, Added
  <1>3. QueueInv'
    <2>1. Queue(events, slots, plugged, born, modes)  BY DEF OutIInv, QueueInv
    <2>2. Queue(events \o r, slots, plugged, born, modes)  BY <2>1, QueueMore
    <2> QED  BY <2>2 DEF QueueInv
  <1>4. phase = "closed" => events' = <<>>
    BY DEF OutIInv, PhaseInv
  <1>5. /\ born' \in 0..Len(Modes) /\ plugged' \subseteq 1..born'
        /\ modes' \in [DOMAIN Modes -> Rects] /\ \A n \in plugged' : Measured(modes'[n])
    BY DEF OutIInv, OutTypes
  <1> QED  BY <1>2, <1>3, <1>4, <1>5, OutKept

LEMMA OutSame ==
  ASSUME OutIInv, UNCHANGED <<phase, slots, current, update, handling, render, missed, last,
                              born, plugged, modes, events>>,
         select' \in Slots \cup {0}, phase \notin {"closed", "running"} => select' = select
  PROVE  OutIInv'
  <1>1. events \in Seq(Happening) /\ QueueInv  BY DEF OutIInv, QueueInv, Queue
  <1>2. QueueInv'  BY <1>1 DEF QueueInv
  <1>3. phase = "closed" => events' = <<>>  BY DEF OutIInv, PhaseInv
  <1>4. /\ born' \in 0..Len(Modes) /\ plugged' \subseteq 1..born'
        /\ modes' \in [DOMAIN Modes -> Rects] /\ \A n \in plugged' : Measured(modes'[n])
    BY DEF OutIInv, OutTypes
  <1> QED  BY <1>2, <1>3, <1>4, OutKept

\* Calls, resizes and what the compositor does of itself.
LEMMA OutCalls ==
  ASSUME OutIInv,
         \/ \E f \in Frames : SetFrameSize(f)
         \/ \E r \in WindowRects : SetWindowSize(r)
         \/ \E i \in Slots : SetDisplayOutput(i)
         \/ Resize
  PROVE  OutIInv'
  <1>0. select \in Slots \cup {0}  BY DEF OutIInv, OutTypes
  <1>1. ASSUME NEW f \in Frames, SetFrameSize(f) PROVE OutIInv'
    BY <1>0, <1>1, OutSame DEF SetFrameSize, outputVars, serverVars
  <1>2. ASSUME NEW r \in WindowRects, SetWindowSize(r) PROVE OutIInv'
    <2> DEFINE c == IF full THEN Configure(NoSize) ELSE <<>>
    <2>1. NoSize \in [w : Nat, h : Nat]  BY DEF NoSize
    <2>2. CASE HasSurface /\ events' = events \o c
      <3>1. /\ c \in Seq(Happening)
            /\ \A e : Has(c, e) => e.kind \in {"toplevel", "surface", "sync"}
        BY <2>1, Configures, None0
      <3> HIDE DEF c
      <3> QED  BY <1>0, <1>2, <2>2, <3>1, OutMore DEF SetWindowSize, HasSurface, outputVars
    <2>3. CASE events' = events
      BY <1>0, <1>2, <2>3, OutSame DEF SetWindowSize, outputVars
    <2> QED  BY <1>2, <2>2, <2>3 DEF SetWindowSize
  <1>3. ASSUME NEW i \in Slots, SetDisplayOutput(i) PROVE OutIInv'
    BY <1>3, OutSame DEF SetDisplayOutput, PlayerFree, pictureVars, serverVars
  <1>4. ASSUME NEW t \in Threads, PlaceVideo(t) \/ StoreVideo(t) PROVE OutIInv'
    BY <1>0, <1>4, OutSame DEF PlaceVideo, StoreVideo, outputVars, serverVars
  <1> QED  BY <1>1, <1>2, <1>3, <1>4 DEF Resize

\* A new output, whose name no slot has and no event told of.
LEMMA OutPlugged == ASSUME OutIInv, Plug PROVE OutIInv'
  <1> DEFINE n == born + 1
             e == OutputEvent("global", n)
  <1>0. Len(Modes) \in Nat  BY OutputAssumption
  <1>1. /\ born \in 0..Len(Modes) /\ born < Len(Modes) /\ plugged \subseteq 1..born
        /\ modes \in [DOMAIN Modes -> Rects] /\ \A k \in plugged : Measured(modes[k])
        /\ DOMAIN Modes = 1..Len(Modes) /\ slots \in [Slots -> SlotType] /\ select \in Slots \cup {0}
    <2>1. born < Len(Modes)  BY DEF Plug
    <2>2. DOMAIN Modes = 1..Len(Modes)  BY OutputAssumption
    <2> QED  BY <2>1, <2>2 DEF OutIInv, OutTypes
  <1>2. n \in 1..Len(Modes) /\ born' = n /\ plugged' = plugged \cup {n} /\ n \notin plugged
    BY <1>0, <1>1 DEF Plug
  <1>3. PICK r \in Modes[n] : modes' = [modes EXCEPT ![n] = r]
    BY DEF Plug
  <1>4. r \in Rects /\ Measured(r)
    BY <1>1, <1>2, OutputAssumption DEF Measured
  <1>5. /\ modes' \in [DOMAIN Modes -> Rects] /\ \A k \in plugged' : Measured(modes'[k])
        /\ \A k \in 1..born : modes'[k] = modes[k]
        /\ born' \in 0..Len(Modes) /\ plugged' \subseteq 1..born'
    BY <1>0, <1>1, <1>2, <1>3, <1>4
  <1>6. e \in Happening /\ e.kind = "global" /\ e.name = n
    BY <1>2, Makes DEF OutputEvent
  <1>7. UNCHANGED <<phase, slots, current, select, update, handling, render, missed, last>>
    BY DEF Plug, outputVars, pictureVars
  <1>8. events' = (IF phase = "closed" THEN events ELSE events \o <<e>>)
    BY DEF Plug, Announce
  <1> HIDE DEF e, n
  <1>9. /\ events \in Seq(Happening) /\ Gone(events, plugged) /\ Fresh(events, NamesOf(slots))
        /\ \A f \in Happening : Has(events, f) /\ f.kind = "global" => f.name <= born
        /\ \A i \in Slots : slots[i].name <= born
        /\ \A i \in Bound(slots) : ToldOf(events, slots[i], plugged, modes)
    BY DEF OutIInv, QueueInv, Queue
  <1>10. born \in Nat /\ n = born + 1
    BY <1>0, <1>1 DEF n
  <1>11. <<e>> \in Seq(Happening) /\ \A f : Has(<<e>>, f) <=> f = e
    BY <1>6, One
  <1>12. /\ events' \in Seq(Happening) /\ Gone(events', plugged')
         /\ \A f : Has(events, f) => Has(events', f)
         /\ \A f : Has(events', f) => Has(events, f) \/ f = e
         /\ Fresh(events', NamesOf(slots))
         /\ phase = "closed" => events' = <<>>
         /\ \A m, x : Says(events, m, x) => Says(events', m, x)
    <2>1. CASE phase = "closed"
      <3>1. events' = events /\ events = <<>>  BY <1>8, <2>1 DEF OutIInv, PhaseInv
      <3> QED  BY <1>9, <3>1 DEF Gone
    <2>2. CASE phase # "closed"
      <3>1. events' = events \o <<e>>  BY <1>8, <2>2
      <3>2. \A f : Has(<<e>>, f) /\ f.kind = "global" => f.name \in plugged'
        BY <1>2, <1>6, <1>11
      <3>3. \A m \in plugged \ plugged' : Has(<<e>>, OutputEvent("remove", m))
        BY <1>2
      <3>4. /\ events' \in Seq(Happening) /\ Gone(events', plugged')
            /\ \A f : Has(events', f) <=> Has(events, f) \/ Has(<<e>>, f)
        BY <1>9, <1>11, <3>1, <3>2, <3>3, Added
      <3>5. e.name \notin NamesOf(slots) /\ ~Has(events, e)
        BY <1>6, <1>9, <1>10 DEF NamesOf
      <3>6. Fresh(events', NamesOf(slots))
        BY <1>6, <1>9, <3>1, <3>5, FreshLast
      <3>7. \A m : Silent(<<e>>, m)
        BY <1>6, <1>11 DEF Silent, About
      <3>8. \A m, x : Says(events, m, x) => Says(events', m, x)
        BY <1>9, <1>11, <3>1, <3>7, SaidAdded
      <3> QED  BY <1>11, <2>2, <3>4, <3>6, <3>8
    <2> QED  BY <2>1, <2>2
  <1>13. ASSUME NEW i \in Bound(slots) PROVE ToldOf(events', slots[i], plugged', modes')
    <2>1. slots[i].name \in 1..born
      BY <1>0, <1>1, <1>9, <1>10 DEF Bound, SlotType
    <2>2. /\ slots[i].name \in plugged' <=> slots[i].name \in plugged
          /\ modes'[slots[i].name] = modes[slots[i].name]
      BY <1>2, <1>5, <1>10, <2>1
    <2>3. Silent(events, slots[i].name) => Silent(events', slots[i].name)
      BY <1>6, <1>12 DEF Silent, About
    <2> QED  BY <1>9, <1>12, <2>2, <2>3 DEF ToldOf
  <1>14. QueueInv'
    <2>1. NamesOf(slots') = NamesOf(slots) /\ Bound(slots') = Bound(slots) /\ slots' = slots
      BY <1>7
    <2>2. \A f \in Happening : Has(events', f) /\ f.kind = "global" => f.name <= born'
      <3>1. \A f \in Happening : f.kind = "global" => f.name \in Nat
        BY <1>0, Kinds
      <3> QED  BY <1>2, <1>6, <1>9, <1>10, <1>12, <3>1
    <2>3. \A i \in Slots : slots[i].name <= born'
      <3>1. \A i \in Slots : slots[i].name \in Nat  BY <1>0, <1>1 DEF SlotType
      <3> QED  BY <1>2, <1>9, <1>10, <3>1
    <2> QED  BY <1>12, <1>13, <2>1, <2>2, <2>3 DEF QueueInv, Queue
  <1>15. Has(events', Event("surface")) => Has(events, Event("surface"))
    BY <1>6, <1>12 DEF Event
  <1> QED  BY <1>1, <1>5, <1>7, <1>12, <1>14, <1>15, OutKept

LEMMA OutUnplugged == ASSUME OutIInv, NEW n \in plugged, Unplug(n) PROVE OutIInv'
  <1> DEFINE e == OutputEvent("remove", n)
  <1>0. Len(Modes) \in Nat  BY OutputAssumption
  <1>1. /\ born \in 0..Len(Modes) /\ plugged \subseteq 1..born
        /\ modes \in [DOMAIN Modes -> Rects] /\ \A k \in plugged : Measured(modes[k])
        /\ select \in Slots \cup {0}
    BY DEF OutIInv, OutTypes
  <1>2. /\ plugged' = plugged \ {n}
        /\ UNCHANGED <<phase, slots, current, select, update, handling, render, missed, last, born, modes>>
        /\ events' = (IF phase = "closed" THEN events ELSE events \o <<e>>)
    BY DEF Unplug, Announce, outputVars, pictureVars
  <1>3. /\ plugged' \subseteq 1..born' /\ born' \in 0..Len(Modes)
        /\ modes' \in [DOMAIN Modes -> Rects] /\ \A k \in plugged' : Measured(modes'[k])
    BY <1>1, <1>2
  <1>4. e \in Happening /\ e.kind = "remove" /\ e.name = n
    <2>1. n \in 1..Len(Modes)  BY <1>0, <1>1
    <2> QED  BY <2>1, Makes DEF OutputEvent
  <1>5. /\ events \in Seq(Happening) /\ Gone(events, plugged) /\ Fresh(events, NamesOf(slots))
        /\ \A f \in Happening : Has(events, f) /\ f.kind = "global" => f.name <= born
        /\ \A i \in Slots : slots[i].name <= born
        /\ \A i \in Bound(slots) : ToldOf(events, slots[i], plugged, modes)
    BY DEF OutIInv, QueueInv, Queue
  <1>6. CASE phase = "closed"
    <2>1. events' = events /\ events = <<>> /\ Bound(slots) = {}
      BY <1>2, <1>6 DEF OutIInv, PhaseInv
    <2>2. Gone(events', plugged')  BY <2>1 DEF Gone
    <2>3. QueueInv'
      <3>1. slots' = slots /\ born' = born  BY <1>2
      <3> QED  BY <1>5, <2>1, <2>2, <3>1 DEF QueueInv, Queue
    <2> QED  BY <1>1, <1>2, <1>3, <2>1, <2>3, OutKept
  <1>7. CASE phase # "closed"
    <2>1. <<e>> \in Seq(Happening) /\ \A f : Has(<<e>>, f) <=> f = e
      BY <1>4, One
    <2> HIDE DEF e
    <2>2. events' = events \o <<e>>  BY <1>2, <1>7
    <2>3. \A m \in plugged \ plugged' : Has(<<e>>, OutputEvent("remove", m))
      BY <1>2, <2>1 DEF e
    <2>4. \A f : Has(<<e>>, f) => f.kind # "global"  BY <1>4, <2>1
    <2>5. /\ events' \in Seq(Happening) /\ Gone(events', plugged') /\ Fresh(events', NamesOf(slots))
          /\ \A f : Has(events', f) <=> Has(events, f) \/ Has(<<e>>, f)
      <3>1. \A f : Has(<<e>>, f) /\ f.kind = "global" => f.name \in plugged'  BY <2>4
      <3> QED  BY <1>5, <2>1, <2>2, <2>3, <2>4, <3>1, Added
    <2>6. \A m : Silent(<<e>>, m)
      BY <1>4, <2>1 DEF Silent, About
    <2>7. \A m, x : Says(events, m, x) => Says(events', m, x)
      BY <1>5, <2>1, <2>2, <2>6, SaidAdded
    <2>8. ASSUME NEW i \in Bound(slots) PROVE ToldOf(events', slots[i], plugged', modes')
      <3>1. Silent(events, slots[i].name) => Silent(events', slots[i].name)
        BY <1>4, <2>1, <2>5 DEF Silent, About
      <3>2. ToldOf(events, slots[i], plugged, modes)  BY <1>5, <2>8
      <3>3. CASE slots[i].name = n
        <4>1. Has(events', OutputEvent("remove", slots[i].name))  BY <2>1, <2>5, <3>3 DEF e
        <4> QED  BY <1>2, <3>3, <4>1 DEF ToldOf
      <3>4. CASE slots[i].name # n
        <4>1. modes' = modes /\ (slots[i].name \in plugged' <=> slots[i].name \in plugged)
          BY <1>2, <3>4
        <4> QED  BY <2>5, <2>7, <3>1, <3>2, <4>1 DEF ToldOf
      <3> QED  BY <3>3, <3>4
    <2>9. QueueInv'
      <3>1. slots' = slots /\ born' = born  BY <1>2
      <3>2. \A f \in Happening : Has(events', f) /\ f.kind = "global" => f.name <= born
        BY <1>5, <2>4, <2>5
      <3> QED  BY <1>5, <2>5, <2>8, <3>1, <3>2 DEF QueueInv, Queue
    <2>10. Has(events', Event("surface")) => Has(events, Event("surface"))
      BY <1>4, <2>1, <2>5 DEF Event
    <2> QED  BY <1>1, <1>2, <1>3, <1>7, <2>5, <2>9, <2>10, OutKept
  <1> QED  BY <1>6, <1>7

LEMMA OutModeChanged == ASSUME OutIInv, NEW n \in plugged, ModeChanged(n) PROVE OutIInv'
  <1>0. Len(Modes) \in Nat  BY OutputAssumption
  <1>1. /\ born \in 0..Len(Modes) /\ plugged \subseteq 1..born
        /\ modes \in [DOMAIN Modes -> Rects] /\ \A k \in plugged : Measured(modes[k])
        /\ select \in Slots \cup {0} /\ DOMAIN Modes = 1..Len(Modes)
    BY OutputAssumption DEF OutIInv, OutTypes
  <1>2. n \in 1..Len(Modes)  BY <1>0, <1>1
  <1>3. PICK r \in Modes[n] :
           /\ modes' = [modes EXCEPT ![n] = r]
           /\ events' = events \o (IF \E i \in Slots : slots[i].name = n THEN <<State(n, r)>> ELSE <<>>)
    BY DEF ModeChanged
  <1>4. r \in Rects /\ Measured(r)
    BY <1>1, <1>2, OutputAssumption DEF Measured
  <1>5. /\ UNCHANGED <<phase, slots, current, select, update, handling, render, missed, last, born, plugged>>
        /\ plugged' \subseteq 1..born' /\ born' \in 0..Len(Modes)
        /\ modes' \in [DOMAIN Modes -> Rects] /\ \A k \in plugged' : Measured(modes'[k])
        /\ \A k \in 1..Len(Modes) : modes'[k] = IF k = n THEN r ELSE modes[k]
    BY <1>1, <1>2, <1>3, <1>4 DEF ModeChanged, outputVars, pictureVars
  <1> DEFINE e == State(n, r)
  <1>6. e \in Happening /\ e.kind = "state" /\ e.name = n
    BY <1>2, <1>4, Makes DEF State
  <1>7. /\ events \in Seq(Happening) /\ Gone(events, plugged) /\ Fresh(events, NamesOf(slots))
        /\ \A f \in Happening : Has(events, f) /\ f.kind = "global" => f.name <= born
        /\ \A i \in Slots : slots[i].name <= born
        /\ \A i \in Bound(slots) : ToldOf(events, slots[i], plugged, modes)
        /\ slots \in [Slots -> SlotType]
    BY DEF OutIInv, QueueInv, Queue, OutTypes
  <1>8. CASE \E i \in Slots : slots[i].name = n
    <2>1. <<e>> \in Seq(Happening) /\ \A f : Has(<<e>>, f) <=> f = e
      BY <1>6, One
    <2>2. events' = events \o <<e>>  BY <1>3, <1>8
    <2>3. Says(events', n, r)  BY <1>6, <1>7, <2>2, SaidLast
    <2> HIDE DEF e
    <2>4. \A f : Has(<<e>>, f) => f.kind # "global"  BY <1>6, <2>1
    <2>5. /\ events' \in Seq(Happening) /\ Gone(events', plugged') /\ Fresh(events', NamesOf(slots))
          /\ \A f : Has(events', f) <=> Has(events, f) \/ Has(<<e>>, f)
      <3>1. \A f : Has(<<e>>, f) /\ f.kind = "global" => f.name \in plugged'  BY <2>4
      <3>2. \A m \in plugged \ plugged' : Has(<<e>>, OutputEvent("remove", m))  BY <1>5
      <3> QED  BY <1>5, <1>7, <2>1, <2>2, <2>4, <3>1, <3>2, Added
    <2>6. ASSUME NEW i \in Bound(slots) PROVE ToldOf(events', slots[i], plugged', modes')
      <3>1. ToldOf(events, slots[i], plugged, modes) /\ slots[i].name \in 1..Len(Modes)
        BY <1>0, <1>7, <2>6 DEF Bound, SlotType
      <3>2. CASE slots[i].name = n
        BY <1>2, <1>5, <2>3, <3>2 DEF ToldOf
      <3>3. CASE slots[i].name # n
        <4>1. Silent(<<e>>, slots[i].name)
          BY <1>6, <2>1, <3>3 DEF Silent, About
        <4>2. Silent(events, slots[i].name) => Silent(events', slots[i].name)
          BY <2>5, <4>1 DEF Silent, About
        <4>3. \A x : Says(events, slots[i].name, x) => Says(events', slots[i].name, x)
          BY <1>7, <2>1, <2>2, <4>1, SaidAdded
        <4>4. plugged' = plugged /\ modes'[slots[i].name] = modes[slots[i].name]
          BY <1>5, <3>1, <3>3
        <4> QED  BY <2>5, <3>1, <4>2, <4>3, <4>4 DEF ToldOf
      <3> QED  BY <3>2, <3>3
    <2>7. QueueInv'
      <3>1. slots' = slots /\ born' = born  BY <1>5
      <3>2. \A f \in Happening : Has(events', f) /\ f.kind = "global" => f.name <= born
        BY <1>7, <2>4, <2>5
      <3> QED  BY <1>7, <2>5, <2>6, <3>1, <3>2 DEF QueueInv, Queue
    <2>8. phase # "closed"
      <3>1. Bound(slots) # {}  BY <1>2, <1>8 DEF Bound
      <3> QED  BY <3>1 DEF OutIInv, PhaseInv
    <2>9. Has(events', Event("surface")) => Has(events, Event("surface"))
      BY <1>6, <2>1, <2>5 DEF Event
    <2> QED  BY <1>1, <1>5, <2>5, <2>7, <2>8, <2>9, OutKept
  <1>9. CASE ~\E i \in Slots : slots[i].name = n
    <2>1. events' = events  BY <1>3, <1>7, <1>9
    <2>2. ASSUME NEW i \in Bound(slots) PROVE ToldOf(events', slots[i], plugged', modes')
      <3>1. /\ ToldOf(events, slots[i], plugged, modes) /\ slots[i].name \in 1..Len(Modes)
            /\ slots[i].name # n
        BY <1>0, <1>7, <1>9, <2>2 DEF Bound, SlotType
      <3>2. plugged' = plugged /\ modes'[slots[i].name] = modes[slots[i].name]
        BY <1>5, <3>1
      <3> QED  BY <2>1, <3>1, <3>2 DEF ToldOf
    <2>3. QueueInv'
      <3>1. slots' = slots /\ born' = born /\ plugged' = plugged  BY <1>5
      <3> QED  BY <1>7, <2>1, <2>2, <3>1 DEF QueueInv, Queue
    <2>4. phase = "closed" => events' = <<>>  BY <2>1 DEF OutIInv, PhaseInv
    <2> QED  BY <1>1, <1>5, <2>1, <2>3, <2>4, OutKept
  <1> QED  BY <1>8, <1>9

LEMMA OutServer == ASSUME OutIInv, Server PROVE OutIInv'
  <1>1. ASSUME NEW size \in Asked, Reconfigure(size) PROVE OutIInv'
    <2>1. /\ Configure(size) \in Seq(Happening)
          /\ \A e : Has(Configure(size), e) => e.kind \in {"toplevel", "surface", "sync"}
      BY Configures, SizeAssumption
    <2>2. select \in Slots \cup {0}  BY DEF OutIInv, OutTypes
    <2> QED  BY <1>1, <2>1, <2>2, OutMore DEF Reconfigure, HasSurface, outputVars, pictureVars
  <1> QED  BY <1>1, OutPlugged, OutUnplugged, OutModeChanged DEF Server

\* What a handler has in hand.
LEMMA Handled ==
  ASSUME OutIInv, NEW kind, Dispatching(kind)
  PROVE  /\ phase # "closed" /\ handling = Nothing /\ events # <<>>
         /\ events \in Seq(Happening) /\ Tail(events) \in Seq(Happening)
         /\ Head(events) \in Happening /\ Head(events).kind = kind /\ Has(events, Head(events))
         /\ Gone(Tail(events), plugged) /\ Fresh(Tail(events), NamesOf(slots))
         /\ \A e : Has(events, e) => e = Head(events) \/ Has(Tail(events), e)
         /\ \A e : Has(Tail(events), e) => Has(events, e)
         /\ kind \in {"toplevel", "surface", "sync"} => Queue(Tail(events), slots, plugged, born, modes)
         /\ \A n : Pending(events, n) =>
               Pending(Tail(events), n) \/ (kind \in {"state", "remove"} /\ Head(events).name = n)
  <1>1. /\ events \in Seq(Happening) /\ events # <<>> /\ Gone(events, plugged)
        /\ Fresh(events, NamesOf(slots)) /\ Queue(events, slots, plugged, born, modes)
    BY DEF OutIInv, QueueInv, Queue, Dispatching
  <1>2. /\ phase # "closed" /\ handling = Nothing /\ Head(events).kind = kind
    BY DEF Dispatching
  <1>3. /\ Tail(events) \in Seq(Happening) /\ Head(events) \in Happening /\ Has(events, Head(events))
        /\ \A e : Has(events, e) => e = Head(events) \/ Has(Tail(events), e)
        /\ \A e : Has(Tail(events), e) => Has(events, e)
        /\ Gone(Tail(events), plugged) /\ Fresh(Tail(events), NamesOf(slots))
    BY <1>1, Taken
  <1>4. kind \in {"toplevel", "surface", "sync"} => Queue(Tail(events), slots, plugged, born, modes)
    BY <1>1, <1>2, QueueTail
  <1>5. ASSUME NEW n, Pending(events, n)
        PROVE  Pending(Tail(events), n) \/ (kind \in {"state", "remove"} /\ Head(events).name = n)
    BY <1>2, <1>3, <1>5 DEF Pending, About
  <1> QED  BY <1>1, <1>2, <1>3, <1>4, <1>5

\* Taking an output with a size sets its rectangle.
LEMMA RendersOutput ==
  ASSUME NEW o \in SlotType, NEW conf, render \in Rects, TakeOutput(o, conf)
  PROVE  /\ render' \in Rects /\ missed' = FALSE
         /\ Measured(o.rect) => render' = o.rect
  <1>1. missed' = FALSE /\ SetRender(o.rect, conf) /\ o.rect \in Rects
    BY DEF TakeOutput, SlotType
  <1>2. render' = render \/ render' = o.rect
    BY <1>1 DEF SetRender
  <1>3. Measured(o.rect) => render' = o.rect
    BY <1>1 DEF SetRender, Rects, Measured
  <1> QED  BY <1>1, <1>2, <1>3

LEMMA OutOpens == ASSUME OutIInv, OpenDisplay PROVE OutIInv'
  <1> USE DEF OutIInv, OutTypes, outputVars, windowVars, pictureVars
  <1>0. Len(Modes) \in Nat  BY OutputAssumption
  <1>1. Cardinality(plugged) \in Nat
    <2>1. IsFiniteSet(1..born)  BY <1>0, FS_Interval
    <2> QED  BY <2>1, FS_Subset, FS_CardinalityType
  <1>2. PICK s \in [1..Cardinality(plugged) -> plugged] :
           /\ \A i, j \in DOMAIN s : i < j => s[i] < s[j]
           /\ events' = [i \in DOMAIN s |-> OutputEvent("global", s[i])] \o <<Event("sync")>>
    BY DEF OpenDisplay
  <1> DEFINE q == [i \in DOMAIN s |-> OutputEvent("global", s[i])]
  <1>3. q \in Seq(Happening)
    <2>1. ASSUME NEW i \in 1..Cardinality(plugged)
          PROVE  OutputEvent("global", s[i]) \in Happening
      <3>1. s[i] \in 1..born /\ born \in 0..Len(Modes)  OBVIOUS
      <3> HIDE DEF OutIInv, OutTypes
      <3>2. s[i] \in 1..Len(Modes)  BY <1>0, <3>1
      <3> QED  BY <3>2, Makes
    <2>2. DOMAIN s = 1..Cardinality(plugged)  OBVIOUS
    <2> QED  BY <1>1, <2>1, <2>2
  <1>4. Gone(q, plugged)  BY DEF Gone, OutputEvent
  <1>5. <<Event("sync")>> \in Seq(Happening) /\ \A f : Has(<<Event("sync")>>, f) <=> f = Event("sync")
    BY One, Makes
  <1>6. \A e : Has(q, e) => e.kind = "global" /\ e.name \in plugged  BY DEF Has, OutputEvent
  <1>7. events' = q \o <<Event("sync")>>  BY <1>2
  <1>8. /\ UNCHANGED <<slots, current, select, update, handling, render, missed, last, born, plugged, modes>>
        /\ phase = "closed" /\ phase' = "globals"
    BY DEF OpenDisplay
  <1>9. Bound(slots) = {} /\ Bound(slots)' = {} /\ update' = FALSE /\ handling = Nothing
    BY <1>8 DEF Bound, PhaseInv
  <1>10. \A k \in plugged : k \in Nat /\ k <= born
    BY <1>0
  <1>11. Fresh(q, NamesOf(slots))
    <2>1. ASSUME NEW i \in DOMAIN s PROVE s[i] \notin NamesOf(slots)
      <3>1. NamesOf(slots) \subseteq {0}  BY <1>9 DEF NamesOf, Bound
      <3>2. s[i] # 0  BY <1>0
      <3> QED  BY <3>1, <3>2
    <2>2. ASSUME NEW i \in DOMAIN s, NEW j \in DOMAIN s, j > i PROVE s[j] # s[i]
      <3>1. i \in Nat /\ j \in Nat /\ i < j  BY <1>1, <2>2
      <3>2. s[i] \in plugged /\ s[j] \in plugged  BY <2>2
      <3>3. s[i] < s[j]  BY <1>2, <2>2, <3>1
      <3> HIDE DEF OutIInv, OutTypes
      <3>4. s[i] \in Nat /\ s[j] \in Nat  BY <1>10, <3>2
      <3> QED  BY <3>3, <3>4
    <2> QED  BY <2>1, <2>2 DEF Fresh, OutputEvent
  <1> HIDE DEF q
  <1>12. /\ events' \in Seq(Happening) /\ Gone(events', plugged) /\ Fresh(events', NamesOf(slots))
         /\ \A e : Has(events', e) => (e.kind = "global" /\ e.name \in plugged) \/ e = Event("sync")
    <2>1. \A e : Has(<<Event("sync")>>, e) => e.kind # "global"
      BY <1>5 DEF Event
    <2>2. \A e : Has(<<Event("sync")>>, e) /\ e.kind = "global" => e.name \in plugged
      BY <2>1
    <2>3. /\ events' \in Seq(Happening) /\ Gone(events', plugged) /\ Fresh(events', NamesOf(slots))
          /\ \A e : Has(events', e) <=> Has(q, e) \/ Has(<<Event("sync")>>, e)
      BY <1>3, <1>4, <1>5, <1>7, <1>11, <2>1, <2>2, Added
    <2> QED  BY <1>5, <1>6, <2>3
  <1>13. ~Has(events', Event("surface"))  BY <1>12 DEF Event
  <1>14. OutTypes'  BY <1>8
  <1>15. QueueInv'
    <2>1. \A e \in Happening : Has(events', e) /\ e.kind = "global" => e.name <= born
      <3>1. Event("sync").kind # "global"  BY DEF Event
      <3> HIDE DEF OutIInv, OutTypes
      <3> QED  BY <1>12, <1>10, <3>1
    <2>2. \A i \in Slots : slots[i].name <= born  BY DEF QueueInv, Queue
    <2> QED  BY <1>8, <1>9, <1>12, <2>1, <2>2 DEF QueueInv, Queue
  <1>16. AddedInv'  BY <1>8, <1>9 DEF AddedInv, Nothing
  <1> QED  BY <1>8, <1>9, <1>13, <1>14, <1>15, <1>16
           DEF PhaseInv, SelectInv, UpdateInv, RenderInv, CurrentIsPlugged

LEMMA OutSynced == ASSUME OutIInv, Synced PROVE OutIInv'
  <1>1. /\ phase # "closed" /\ Head(events).kind = "sync" /\ Head(events) \in Happening
        /\ Tail(events) \in Seq(Happening) /\ handling = Nothing
        /\ \A e : Has(events, e) => e = Head(events) \/ Has(Tail(events), e)
        /\ \A e : Has(Tail(events), e) => Has(events, e)
        /\ Queue(Tail(events), slots, plugged, born, modes)
        /\ \A n : Pending(events, n) => Pending(Tail(events), n)
    BY Handled DEF Synced
  <1>2. /\ UNCHANGED <<slots, current, select, update, handling, render, missed, last, born, plugged, modes>>
        /\ Bound(slots)' = Bound(slots) /\ Name' = Name
    BY DEF Synced, Bound, Name, outputVars, windowVars, pictureVars
  <1>3. /\ <<Event("sync")>> \in Seq(Happening)
        /\ \A f : Has(<<Event("sync")>>, f) <=> f = Event("sync")
        /\ Event("sync").kind = "sync" /\ Event("sync") # Event("surface")
    BY One, Makes DEF Event
  <1>4. \/ phase = "globals" /\ phase' = "states" /\ events' = Append(Tail(events), Event("sync"))
        \/ phase = "states" /\ phase' = "surface" /\ \E size \in Asked \cup {NoSize} :
              events' = Tail(events) \o Configure(size) \o <<Event("sync")>>
        \/ phase = "surface" /\ phase' = "running" /\ events' = Tail(events)
    BY DEF Synced
  <1>5. /\ Queue(events', slots, plugged, born, modes)
        /\ \A e : Has(Tail(events), e) => Has(events', e)
        /\ Has(events', Event("surface")) => Has(Tail(events), Event("surface")) \/ phase' = "surface"
        /\ phase' = "surface" => Has(events', Event("surface"))
    <2>1. CASE phase = "globals"
      <3>1. events' = Tail(events) \o <<Event("sync")>>
        <4>1. events' = Append(Tail(events), Event("sync"))
          BY <1>4, <2>1
        <4>2. Event("sync") \in Happening
          BY Makes
        <4> QED  BY <1>1, <4>1, <4>2, AppendIsConcat
      <3>2. Queue(events', slots, plugged, born, modes)
        BY <1>1, <1>3, <3>1, QueueMore
      <3>3. \A e : Has(events', e) <=> Has(Tail(events), e) \/ e = Event("sync")
        BY <1>1, <1>3, <3>1, Added
      <3> QED  BY <1>3, <1>4, <2>1, <3>2, <3>3
    <2>2. CASE phase = "states"
      <3>1. PICK size \in Asked \cup {NoSize} :
               events' = (Tail(events) \o Configure(size)) \o <<Event("sync")>>
        BY <1>4, <2>2
      <3>2. size \in [w : Nat, h : Nat]  BY SizeAssumption DEF NoSize
      <3>3. /\ Configure(size) \in Seq(Happening) /\ Has(Configure(size), Event("surface"))
            /\ \A f : Has(Configure(size), f) => f.kind \in {"toplevel", "surface", "sync"}
        BY <3>2, Configures
      <3>4. /\ Tail(events) \o Configure(size) \in Seq(Happening)
            /\ \A e : Has(Tail(events) \o Configure(size), e) <=> Has(Tail(events), e) \/ Has(Configure(size), e)
        BY <1>1, <3>3, Added
      <3>5. Queue(Tail(events) \o Configure(size), slots, plugged, born, modes)
        BY <1>1, <3>3, QueueMore
      <3>6. \A e : Has(events', e) <=> Has(Tail(events) \o Configure(size), e) \/ e = Event("sync")
        BY <1>3, <3>1, <3>4, Added
      <3>7. Queue(events', slots, plugged, born, modes)
        BY <1>3, <3>1, <3>5, QueueMore
      <3> QED  BY <1>4, <2>2, <3>3, <3>4, <3>6, <3>7
    <2>3. CASE phase = "surface"
      BY <1>1, <1>4, <2>3
    <2> QED  BY <1>4, <2>1, <2>2, <2>3
  <1>6. OutTypes'  BY <1>2, <1>4 DEF OutIInv, OutTypes
  <1>7. QueueInv'  BY <1>2, <1>5 DEF QueueInv
  <1>8. PhaseInv'  BY <1>1, <1>4, <1>5 DEF OutIInv, PhaseInv, HasSurface
  <1>9. SelectInv' /\ RenderInv' /\ CurrentIsPlugged' /\ AddedInv'
    BY <1>1, <1>2, <1>4 DEF OutIInv, SelectInv, RenderInv, CurrentIsPlugged, AddedInv, Nothing
  <1>10. UpdateInv'
    <2>1. \A n : Pending(Tail(events), n) => Pending(events', n)
      BY <1>5 DEF Pending, About
    <2>2. Event("surface") # Head(events)
      BY <1>1 DEF Event
    <2> QED  BY <1>1, <1>2, <1>4, <1>5, <2>1, <2>2 DEF OutIInv, UpdateInv
  <1> QED  BY <1>6, <1>7, <1>8, <1>9, <1>10 DEF OutIInv

\* The first and the last of some slots.
LEMMA FirstFinal ==
  ASSUME NEW S \in SUBSET Slots, S # {}
  PROVE  First(S) \in S /\ Final(S) \in S
  <1>0. \A i \in S : i = 1 \/ i = 2  BY DEF Slots
  <1>1. \E i \in S : \A j \in S : i <= j
    <2>1. CASE 1 \in S  BY <1>0, <2>1
    <2>2. CASE 1 \notin S /\ 2 \in S  BY <1>0, <2>2
    <2> QED  BY <1>0, <2>1, <2>2
  <1>2. \E i \in S : \A j \in S : i >= j
    <2>1. CASE 2 \in S  BY <1>0, <2>1
    <2>2. CASE 2 \notin S /\ 1 \in S  BY <1>0, <2>2
    <2> QED  BY <1>0, <2>1, <2>2
  <1> QED  BY <1>1, <1>2 DEF First, Final

\* The output that is chosen is there, and is the player's choice until the thread runs.
LEMMA ChosenIsBound ==
  ASSUME Bound(slots) # {}, current \in Slots, select \in Slots \cup {0}
  PROVE  /\ Chosen(slots) \in Bound(slots) /\ Chosen(slots) \in Slots
         /\ phase # "running" /\ select \in Bound(slots) => Chosen(slots) = select
         /\ current \in Bound(slots) /\ (phase = "running" \/ select = 0 \/ select = current) =>
               Chosen(slots) = current
  <1>1. Bound(slots) \in SUBSET Slots /\ First(Bound(slots)) \in Bound(slots)
    <2>1. Bound(slots) \in SUBSET Slots  BY DEF Bound
    <2> QED  BY <2>1, FirstFinal
  <1>2. \A i \in Bound(slots) : i # 0
    BY DEF Bound, Slots
  <1> QED  BY <1>1, <1>2 DEF Chosen

\* An output in the first free slot: it will be current, or what is current stays it.
LEMMA SlotTaken ==
  ASSUME OutIInv, GlobalAdded
  PROVE  /\ slots' \in [Slots -> SlotType] /\ Bound(slots') # {}
         /\ NamesOf(slots') \subseteq NamesOf(slots) \cup {Head(events).name}
         /\ \A i \in Bound(slots') : (i \in Bound(slots) /\ slots'[i] = slots[i])
                                     \/ (slots'[i].name = Head(events).name /\ Bound(slots) # Slots)
         /\ Bound(slots) \subseteq Bound(slots')
         /\ current \in Bound(slots) => slots'[current] = slots[current]
         /\ current \notin Bound(slots) => \A i, j \in Bound(slots') : i = j
         /\ LET c == Chosen(slots)'
            IN  \/ slots'[c].name = Head(events).name /\ Bound(slots) # Slots
                \/ c = current /\ current \in Bound(slots)
  <1> DEFINE n == Head(events).name
             free == Slots \ Bound(slots)
             new == First(free)
  <1>1. n \in 1..Len(Modes)
    BY Handled, Kinds DEF GlobalAdded
  <1>2. /\ slots \in [Slots -> SlotType] /\ current \in Slots /\ Bound(slots) \subseteq Slots
        /\ select \in Slots \cup {0}
    BY DEF OutIInv, OutTypes, Bound
  <1>3. /\ slots' = IF free = {} THEN slots ELSE [slots EXCEPT ![new].name = n]
        /\ UNCHANGED <<phase, current, select>>
    BY DEF GlobalAdded
  <1>4. free # {} => new \in Slots \ Bound(slots)
    BY FirstFinal
  <1> HIDE DEF n, new
  <1>5. /\ slots' \in [Slots -> SlotType]
        /\ free # {} => slots'[new].name = n
        /\ \A i \in Slots : i # new \/ free = {} => slots'[i] = slots[i]
    BY <1>1, <1>2, <1>3, <1>4 DEF SlotType
  <1>6. Bound(slots') = IF free = {} THEN Bound(slots) ELSE Bound(slots) \cup {new}
    BY <1>1, <1>2, <1>4, <1>5 DEF Bound
  <1>7. Bound(slots') # {} /\ Bound(slots') \subseteq Slots
    BY <1>2, <1>4, <1>6 DEF Slots
  <1>8. handling.at = "none" /\ handling = Nothing
    BY DEF GlobalAdded, Dispatching, Nothing
  <1>9. current \notin Bound(slots) => Bound(slots) = {}
    BY <1>8 DEF OutIInv, CurrentIsPlugged
  <1>10. phase # "running" /\ select \in Bound(slots) => select = current
    BY <1>8 DEF OutIInv, SelectInv
  <1>11. NamesOf(slots') \subseteq NamesOf(slots) \cup {n}
    BY <1>5 DEF NamesOf
  <1>12. /\ Chosen(slots)' \in Bound(slots')
         /\ phase # "running" /\ select \in Bound(slots') => Chosen(slots)' = select
         /\ current \in Bound(slots') /\ (phase = "running" \/ select = 0 \/ select = current) =>
               Chosen(slots)' = current
         /\ current \in Bound(slots') /\ select # 0 /\ select \notin Bound(slots') /\ phase # "running" =>
               Chosen(slots)' = First(Bound(slots'))
    <2>1. Bound(slots') \in SUBSET Slots /\ First(Bound(slots')) \in Bound(slots')
      BY <1>7, FirstFinal
    <2>2. \A i \in Bound(slots') : i # 0
      BY <1>7 DEF Slots
    <2>3. Chosen(slots)' = LET d == IF select # 0 /\ phase # "running" THEN select ELSE current
                           IN  IF d \notin Bound(slots') /\ Bound(slots') # {} THEN First(Bound(slots')) ELSE d
      BY <1>3 DEF Chosen, First, Bound
    <2> QED  BY <1>7, <2>1, <2>2, <2>3
  <1>13. ASSUME ~(free # {} /\ Chosen(slots)' = new)
         PROVE  Chosen(slots)' = current /\ current \in Bound(slots)
    <2>1. Chosen(slots)' \in Bound(slots)  BY <1>6, <1>12, <1>13
    <2>2. current \in Bound(slots)  BY <1>9, <2>1
    <2>3. CASE phase = "running" \/ select = 0 \/ select = current
      BY <1>6, <1>12, <2>2, <2>3
    <2>4. CASE phase # "running" /\ select \in Bound(slots')
      BY <1>10, <1>12, <2>1, <2>2, <2>4
    <2>5. CASE phase # "running" /\ select # 0 /\ select \notin Bound(slots')
      <3>1. current \in Bound(slots') /\ select \in Slots /\ select \notin Bound(slots')
        BY <1>2, <1>6, <2>2, <2>5
      <3>2. \A i, j \in Slots : i # select /\ j # select => i = j
        BY <3>1 DEF Slots
      <3>3. Chosen(slots)' \in Slots /\ Chosen(slots)' # select /\ current # select
        BY <1>7, <1>12, <3>1
      <3> QED  BY <1>2, <2>2, <3>2, <3>3
    <2> QED  BY <2>2, <2>3, <2>4, <2>5
  <1>14. ASSUME free # {}, Chosen(slots)' = new
         PROVE  slots'[Chosen(slots)'].name = n /\ Bound(slots) # Slots
    BY <1>5, <1>14
  <1>15. \A i \in Bound(slots') : (i \in Bound(slots) /\ slots'[i] = slots[i])
                                  \/ (slots'[i].name = n /\ Bound(slots) # Slots)
    BY <1>2, <1>4, <1>5, <1>6
  <1>16. /\ Bound(slots) \subseteq Bound(slots')
         /\ current \in Bound(slots) => slots'[current] = slots[current]
         /\ current \notin Bound(slots) => \A i, j \in Bound(slots') : i = j
    BY <1>2, <1>4, <1>5, <1>6, <1>9
  <1> QED  BY <1>5, <1>7, <1>11, <1>13, <1>14, <1>15, <1>16 DEF n

LEMMA OutGlobal == ASSUME OutIInv, GlobalAdded PROVE OutIInv'
  <1> DEFINE n == Head(events).name
             r == IF Slots \ Bound(slots) # {} /\ n \in plugged THEN <<State(n, modes[n])>> ELSE <<>>
  <1>0. Len(Modes) \in Nat /\ DOMAIN Modes = 1..Len(Modes)  BY OutputAssumption
  <1>1. /\ phase # "closed" /\ Head(events).kind = "global" /\ Head(events) \in Happening
        /\ events \in Seq(Happening) /\ events # <<>>
        /\ Tail(events) \in Seq(Happening) /\ Gone(Tail(events), plugged) /\ handling = Nothing
        /\ Fresh(Tail(events), NamesOf(slots))
        /\ Has(events, Head(events))
        /\ \A e : Has(events, e) => e = Head(events) \/ Has(Tail(events), e)
        /\ \A e : Has(Tail(events), e) => Has(events, e)
        /\ \A m : Pending(events, m) => Pending(Tail(events), m)
    BY Handled DEF GlobalAdded
  <1>2. n \in 1..Len(Modes) /\ Head(events) = OutputEvent("global", n)
    BY <1>1, Kinds
  <1>3. /\ Gone(events, plugged) /\ Fresh(events, NamesOf(slots))
        /\ \A f \in Happening : Has(events, f) /\ f.kind = "global" => f.name <= born
        /\ \A i \in Slots : slots[i].name <= born
        /\ \A i \in Bound(slots) : ToldOf(events, slots[i], plugged, modes)
    BY DEF OutIInv, QueueInv, Queue
  <1>4. /\ n \notin NamesOf(slots) /\ ~Has(Tail(events), Head(events))
        /\ n \notin plugged => Has(Tail(events), OutputEvent("remove", n))
    BY <1>1, <1>3, Taken
  <1>5. /\ UNCHANGED <<phase, current, select, update, render, missed, born, plugged, modes, last>>
        /\ events' = Tail(events) \o r
        /\ handling' = [at |-> "added", was |-> Name]
    BY DEF GlobalAdded, windowVars, pictureVars, Name
  <1>6. /\ slots' \in [Slots -> SlotType] /\ Bound(slots') # {}
        /\ NamesOf(slots') \subseteq NamesOf(slots) \cup {n}
        /\ \A i \in Bound(slots') : (i \in Bound(slots) /\ slots'[i] = slots[i])
                                     \/ (slots'[i].name = n /\ Bound(slots) # Slots)
        /\ Bound(slots) \subseteq Bound(slots')
        /\ current \in Bound(slots) => slots'[current] = slots[current]
        /\ current \notin Bound(slots) => \A i, j \in Bound(slots') : i = j
        /\ \/ slots'[Chosen(slots)'].name = n /\ Bound(slots) # Slots
           \/ Chosen(slots)' = current /\ current \in Bound(slots)
    BY SlotTaken
  <1>7. /\ r \in Seq(Happening) /\ \A e : Has(r, e) => e.kind = "state" /\ e.name = n
        /\ Slots \ Bound(slots) # {} /\ n \in plugged => Pending(r, n)
        /\ Slots \ Bound(slots) # {} /\ n \in plugged => Says(Tail(events) \o r, n, modes[n])
    <2>1. n \in plugged => State(n, modes[n]) \in Happening
      <3>1. n \in plugged => modes[n] \in Rects /\ Measured(modes[n])
        BY <1>0, <1>2 DEF OutIInv, OutTypes
      <3> QED  BY <1>2, <3>1, Makes
    <2>2. State(n, modes[n]).kind = "state" /\ State(n, modes[n]).name = n  BY DEF State
    <2>3. CASE Slots \ Bound(slots) # {} /\ n \in plugged
      <3>1. r = <<State(n, modes[n])>>  BY <2>3
      <3>2. r \in Seq(Happening) /\ \A e : Has(r, e) <=> e = State(n, modes[n])
        BY <2>1, <2>3, <3>1, One
      <3>3. Pending(r, n)  BY <2>1, <2>2, <2>3, <3>2 DEF Pending, About
      <3>4. Says(Tail(events) \o r, n, modes[n])  BY <1>1, <2>1, <2>3, <3>1, SaidLast
      <3> QED  BY <2>2, <3>2, <3>3, <3>4
    <2>4. CASE ~(Slots \ Bound(slots) # {} /\ n \in plugged)
      BY <2>4, None0
    <2> QED  BY <2>3, <2>4
  <1> HIDE DEF r, n
  <1>8. /\ events' \in Seq(Happening) /\ Gone(events', plugged) /\ Fresh(events', NamesOf(slots'))
        /\ \A e : Has(events', e) <=> Has(Tail(events), e) \/ Has(r, e)
    <2>1. \A e : Has(r, e) => e.kind # "global"
      BY <1>7
    <2>2. Fresh(Tail(events), NamesOf(slots'))
      <3>1. ASSUME NEW i \in DOMAIN Tail(events), Tail(events)[i].kind = "global"
            PROVE  Tail(events)[i].name # n
        <4>1. Tail(events)[i] \in Happening /\ Has(Tail(events), Tail(events)[i])
          BY <1>1, <3>1 DEF Has
        <4>2. Tail(events)[i] = OutputEvent("global", Tail(events)[i].name)
          BY <3>1, <4>1, Kinds
        <4> QED  BY <1>2, <1>4, <4>1, <4>2
      <3> QED  BY <1>1, <1>6, <3>1 DEF Fresh
    <2>3. \A e : Has(r, e) /\ e.kind = "global" => e.name \in plugged
      BY <2>1
    <2>4. \A m \in plugged \ plugged : Has(r, OutputEvent("remove", m))  OBVIOUS
    <2> QED  BY <1>1, <1>5, <1>7, <2>1, <2>2, <2>3, <2>4, Added
  <1>9. \A m : Pending(events, m) => Pending(events', m)
    BY <1>1, <1>8 DEF Pending, About
  <1>10. Bound(slots) # Slots => Pending(events', n)
    <2>1. CASE n \in plugged /\ Bound(slots) # Slots
      <3>1. Pending(r, n)  BY <1>7, <2>1 DEF Bound
      <3> QED  BY <1>8, <3>1 DEF Pending, About
    <2>2. CASE n \notin plugged
      <3>1. OutputEvent("remove", n) \in Happening  BY <1>2, Makes
      <3>2. OutputEvent("remove", n).kind = "remove" /\ OutputEvent("remove", n).name = n
        BY DEF OutputEvent
      <3> QED  BY <1>4, <1>8, <2>2, <3>1, <3>2 DEF Pending, About
    <2> QED  BY <2>1, <2>2
  <1>11. ASSUME NEW i \in Bound(slots') PROVE ToldOf(events', slots'[i], plugged, modes)
    <2>1. CASE slots'[i].name = n /\ Bound(slots) # Slots
      <3>1. CASE n \in plugged
        <4>1. Says(events', n, modes[n])  BY <1>5, <1>7, <2>1, <3>1 DEF Bound
        <4> QED  BY <2>1, <3>1, <4>1 DEF ToldOf
      <3>2. CASE n \notin plugged
        <4>1. Has(events', OutputEvent("remove", n))  BY <1>4, <1>8, <3>2
        <4> QED  BY <2>1, <3>2, <4>1 DEF ToldOf
      <3> QED  BY <3>1, <3>2
    <2>2. CASE i \in Bound(slots) /\ slots'[i] = slots[i]
      <3> DEFINE m == slots[i].name
      <3>1. ToldOf(events, slots[i], plugged, modes)  BY <1>3, <2>2
      <3>2. m # n  BY <1>4, <2>2 DEF NamesOf, Bound
      <3>3. Silent(r, m)  BY <1>7, <3>2 DEF Silent, About
      <3>4. ASSUME NEW x, Says(events, m, x) PROVE Says(events', m, x)
        <4>1. Head(events) # State(m, x)  BY <1>1 DEF State
        <4>2. Says(Tail(events), m, x)  BY <1>1, <3>4, <4>1, SaidTaken
        <4> QED  BY <1>1, <1>5, <1>7, <3>3, <4>2, SaidAdded
      <3>5. Silent(events, m) => Silent(events', m)
        BY <1>1, <1>8, <3>3 DEF Silent, About
      <3>6. Has(events, OutputEvent("remove", m)) => Has(events', OutputEvent("remove", m))
        <4>1. OutputEvent("remove", m).kind = "remove"  BY DEF OutputEvent
        <4> QED  BY <1>1, <1>8, <4>1
      <3> QED  BY <2>2, <3>1, <3>4, <3>5, <3>6 DEF ToldOf
    <2> QED  BY <1>6, <2>1, <2>2
  <1>12. n <= born
    BY <1>1, <1>2, <1>3 DEF OutputEvent
  <1>13. QueueInv'
    <2>1. \A f \in Happening : Has(events', f) /\ f.kind = "global" => f.name <= born
      BY <1>1, <1>3, <1>7, <1>8
    <2>2. \A i \in Slots : slots'[i].name <= born
      <3>1. \A i \in Slots : slots'[i].name \in NamesOf(slots) \cup {n}  BY <1>6 DEF NamesOf
      <3> QED  BY <1>3, <1>12, <3>1 DEF NamesOf
    <2> QED  BY <1>5, <1>8, <1>11, <2>1, <2>2 DEF QueueInv, Queue
  <1>14. OutTypes'
    <2>1. Name \in 0..Len(Modes)  BY DEF OutIInv, OutTypes, SlotType, Name
    <2>2. handling' \in [at : {"none", "added", "removed"}, was : 0..Len(Modes)]
      BY <1>5, <2>1
    <2> QED  BY <1>5, <1>6, <2>2 DEF OutIInv, OutTypes
  <1>15. PhaseInv'
    <2>1. ~Has(r, Event("surface"))  BY <1>7 DEF Event
    <2> QED  BY <1>1, <1>5, <1>8, <2>1 DEF OutIInv, PhaseInv, HasSurface
  <1>16. SelectInv'
    BY <1>5 DEF SelectInv
  <1>17. handling'.at = "added" /\ handling'.was = Name
    BY <1>5
  <1>18. AddedInv'
    <2>1. current \in Slots /\ select \in Slots \cup {0}  BY DEF OutIInv, OutTypes
    <2>2. (Bound(slots) # {} /\ current \in Slots /\ select \in Slots \cup {0})'
      BY <1>5, <1>6, <2>1
    <2>3. Chosen(slots)' \in Bound(slots')
      <3>1. Bound(slots') \subseteq Slots  BY DEF Bound
      <3>2. First(Bound(slots')) \in Bound(slots')  BY <1>6, <3>1, FirstFinal
      <3>3. Chosen(slots)' = LET d == IF select # 0 /\ phase # "running" THEN select ELSE current
                             IN  IF d \notin Bound(slots') /\ Bound(slots') # {} THEN First(Bound(slots')) ELSE d
        BY <1>5 DEF Chosen, First, Bound
      <3> QED  BY <1>6, <3>2, <3>3
    <2>4. CASE slots'[Chosen(slots)'].name = n /\ Bound(slots) # Slots
      <3>1. Name \in NamesOf(slots)  BY <2>1 DEF Name, NamesOf
      <3>2. slots'[Chosen(slots)'].name # handling'.was  BY <1>4, <1>17, <2>4, <3>1
      <3> QED  BY <1>10, <2>3, <2>4, <3>2 DEF AddedInv
    <2>5. CASE Chosen(slots)' = current /\ current \in Bound(slots)
      <3>1. slots'[Chosen(slots)'].name = handling'.was  BY <1>6, <1>17, <2>5 DEF Name
      <3> QED  BY <1>5, <2>3, <2>5, <3>1 DEF AddedInv
    <2> QED  BY <1>6, <2>4, <2>5
  <1>19. current \in Bound(slots') => (current \in Bound(slots) /\ Name' = Name)
                                       \/ (Name' = n /\ Bound(slots) # Slots)
    BY <1>5, <1>6 DEF Name
  <1>20. UpdateInv'
    <2>1. Event("surface") # Head(events)
      BY <1>1 DEF Event
    <2>2. Bound(slots)' = Bound(slots')  BY DEF Bound
    <2> QED  BY <1>1, <1>5, <1>8, <1>9, <1>10, <1>19, <2>1, <2>2 DEF OutIInv, UpdateInv
  <1>21. RenderInv'
    <2> SUFFICES ASSUME current' \in Bound(slots'), ~missed', ~update', Measured(slots'[current'].rect),
                        Name' = handling'.was
                 PROVE  SizeOf(render') \in {SizeOf(slots'[current'].rect), last'}
      BY <1>17 DEF RenderInv, Bound, SizeOf, Measured
    <2>1. current \in Bound(slots)
      <3>1. Name \in NamesOf(slots)  BY DEF Name, NamesOf, OutIInv, OutTypes
      <3> QED  BY <1>4, <1>5, <1>17, <1>19, <3>1
    <2>2. slots'[current'] = slots[current]  BY <1>5, <1>6, <2>1
    <2> QED  BY <1>1, <1>5, <2>1, <2>2 DEF OutIInv, RenderInv, Nothing
  <1>22. CurrentIsPlugged'
    <2>1. current \in Bound(slots) => current' \in Bound(slots')  BY <1>5, <1>6
    <2> QED  BY <1>6, <1>17, <2>1 DEF CurrentIsPlugged, Bound
  <1> QED  BY <1>13, <1>14, <1>15, <1>16, <1>18, <1>20, <1>21, <1>22 DEF OutIInv

\* The current output is chosen.
LEMMA OutChosen == ASSUME OutIInv, CurrentChosen PROVE OutIInv'
  <1> DEFINE c == Chosen(slots)
  <1>1. /\ handling.at = "added" /\ current' = c /\ handling' = Nothing
        /\ UNCHANGED <<phase, slots, select, render, missed, born, plugged, modes, events>>
        /\ IF slots[c].name = handling.was THEN UNCHANGED <<update, last>> ELSE update' = TRUE /\ last' = NoSize
    BY DEF CurrentChosen, windowVars, pictureVars
  <1>2. /\ c \in Bound(slots)
        /\ IF slots[c].name = handling.was THEN c = current ELSE Pending(events, slots[c].name)
    BY <1>1 DEF OutIInv, AddedInv
  <1>3. c \in Slots /\ (phase # "running" /\ select \in Bound(slots) => c = select)
    <2>1. current \in Slots /\ select \in Slots \cup {0}  BY DEF OutIInv, OutTypes
    <2> QED  BY <1>2, <2>1, ChosenIsBound
  <1> HIDE DEF c
  <1>4. Name' = slots[c].name /\ Bound(slots)' = Bound(slots) /\ Name = slots[current].name
    BY <1>1 DEF Name, Bound
  <1>5. OutTypes'
    <2>1. update' \in BOOLEAN  BY <1>1 DEF OutIInv, OutTypes
    <2>2. handling' \in [at : {"none", "added", "removed"}, was : 0..Len(Modes)]
      <3>1. Len(Modes) \in Nat  BY OutputAssumption
      <3> QED  BY <1>1, <3>1 DEF Nothing
    <2> QED  BY <1>1, <1>3, <2>1, <2>2 DEF OutIInv, OutTypes
  <1>6. QueueInv'  BY <1>1 DEF OutIInv, QueueInv
  <1>7. PhaseInv'
    <2>1. phase # "closed"  BY <1>1 DEF OutIInv, PhaseInv, Nothing
    <2> QED  BY <1>1, <2>1 DEF OutIInv, PhaseInv, HasSurface
  <1>8. SelectInv' /\ AddedInv' /\ CurrentIsPlugged'
    BY <1>1, <1>2, <1>3, <1>4 DEF SelectInv, AddedInv, CurrentIsPlugged, Nothing
  <1>9. CASE slots[c].name = handling.was
    <2>1. UNCHANGED <<update, last, current>>  BY <1>1, <1>2, <1>9
    <2>2. UpdateInv' /\ RenderInv'
      BY <1>1, <1>2, <1>4, <1>9, <2>1 DEF OutIInv, UpdateInv, RenderInv
    <2> QED  BY <1>5, <1>6, <1>7, <1>8, <2>2 DEF OutIInv
  <1>10. CASE slots[c].name # handling.was
    <2>1. update' = TRUE /\ Pending(events', Name')  BY <1>1, <1>2, <1>4, <1>10
    <2>2. UpdateInv' /\ RenderInv'
      BY <2>1 DEF UpdateInv, RenderInv
    <2> QED  BY <1>5, <1>6, <1>7, <1>8, <2>2 DEF OutIInv
  <1> QED  BY <1>9, <1>10

LEMMA OutRemoved == ASSUME OutIInv, GlobalRemoved PROVE OutIInv'
  <1> DEFINE n == Head(events).name
  <1>0. Len(Modes) \in Nat  BY OutputAssumption
  <1>1. /\ phase # "closed" /\ Head(events).kind = "remove" /\ Head(events) \in Happening
        /\ events \in Seq(Happening) /\ events # <<>>
        /\ Tail(events) \in Seq(Happening) /\ Gone(Tail(events), plugged) /\ handling = Nothing
        /\ Fresh(Tail(events), NamesOf(slots))
        /\ \A e : Has(events, e) => e = Head(events) \/ Has(Tail(events), e)
        /\ \A e : Has(Tail(events), e) => Has(events, e)
        /\ \A m : Pending(events, m) => Pending(Tail(events), m) \/ n = m
    BY Handled DEF GlobalRemoved
  <1>2. n \in 1..Len(Modes) /\ Head(events) = OutputEvent("remove", n)
    BY <1>1, Kinds
  <1>3. slots \in [Slots -> SlotType] /\ current \in Slots /\ select \in Slots \cup {0} /\ born \in Nat
    BY <1>0 DEF OutIInv, OutTypes
  <1>4. /\ UNCHANGED <<phase, current, update, render, missed, born, plugged, modes>> /\ events' = Tail(events)
        /\ select' = IF select # 0 /\ slots[select].name = n THEN 0 ELSE select
        /\ slots' = [i \in Slots |-> IF slots[i].name = n THEN [slots[i] EXCEPT !.name = 0] ELSE slots[i]]
        /\ last' = (IF slots[current].name = n THEN NoSize ELSE last)
        /\ handling' = [at |-> "removed", was |-> 0]
    BY DEF GlobalRemoved, windowVars, pictureVars
  <1>5. \A i \in Slots : slots'[i] \in SlotType /\ slots'[i].name \in {0, slots[i].name}
                         /\ (slots[i].name # n => slots'[i] = slots[i])
                         /\ (slots[i].name = n => slots'[i].name = 0)
    <2>1. ASSUME NEW i \in Slots
          PROVE  slots'[i] \in SlotType /\ slots'[i].name \in {0, slots[i].name}
                 /\ (slots[i].name # n => slots'[i] = slots[i])
                 /\ (slots[i].name = n => slots'[i].name = 0)
      BY <1>0, <1>3, <1>4 DEF SlotType
    <2> QED  BY <2>1
  <1>6. slots' \in [Slots -> SlotType]
    BY <1>4, <1>5
  <1>7. Bound(slots') = {i \in Bound(slots) : slots[i].name # n}
    BY <1>2, <1>5 DEF Bound
  <1>8. \A i \in Bound(slots') : slots'[i] = slots[i] /\ i \in Bound(slots) /\ slots[i].name # n
    BY <1>5, <1>7 DEF Bound
  <1> HIDE DEF n
  <1>9. /\ \A f \in Happening : Has(events, f) /\ f.kind = "global" => f.name <= born
        /\ \A i \in Slots : slots[i].name <= born
        /\ \A i \in Bound(slots) : ToldOf(events, slots[i], plugged, modes)
    BY DEF OutIInv, QueueInv, Queue
  <1>10. OutTypes'
    <2>1. handling' \in [at : {"none", "added", "removed"}, was : 0..Len(Modes)]
      BY <1>0, <1>4
    <2>2. select' \in Slots \cup {0}  BY <1>3, <1>4
    <2> QED  BY <1>4, <1>6, <2>1, <2>2 DEF OutIInv, OutTypes
  <1>11. PhaseInv'
    BY <1>1, <1>4 DEF OutIInv, PhaseInv, HasSurface
  <1>12. SelectInv'
    <2>1. Bound(slots)' = Bound(slots')  BY DEF Bound
    <2>2. select' \in Bound(slots') => select' = select /\ select \in Bound(slots)
      BY <1>4, <1>7 DEF Bound, Slots
    <2> QED  BY <1>1, <1>4, <2>1, <2>2 DEF OutIInv, SelectInv, Nothing
  <1>13. ASSUME NEW i \in Bound(slots') PROVE ToldOf(events', slots'[i], plugged, modes)
    <2> DEFINE m == slots[i].name
    <2>1. slots'[i] = slots[i] /\ m # n /\ ToldOf(events, slots[i], plugged, modes)
      BY <1>8, <1>9
    <2>2. ASSUME NEW x, Says(events, m, x) PROVE Says(events', m, x)
      <3>1. Head(events) # State(m, x)  BY <1>1 DEF State
      <3> QED  BY <1>1, <1>4, <2>2, <3>1, SaidTaken
    <2>3. Silent(events, m) => Silent(events', m)
      BY <1>1, <1>4 DEF Silent, About
    <2>4. Has(events, OutputEvent("remove", m)) => Has(events', OutputEvent("remove", m))
      BY <1>1, <1>2, <1>4, <2>1 DEF OutputEvent
    <2> QED  BY <2>1, <2>2, <2>3, <2>4 DEF ToldOf
  <1>14. QueueInv'
    <2>1. Fresh(events', NamesOf(slots'))
      <3>1. NamesOf(slots') \subseteq NamesOf(slots) \cup {0}  BY <1>5 DEF NamesOf
      <3>2. ASSUME NEW i \in DOMAIN Tail(events), Tail(events)[i].kind = "global"
            PROVE  Tail(events)[i].name # 0
        <4>1. Tail(events)[i] \in Happening  BY <1>1, <3>2
        <4>2. Tail(events)[i].name \in 1..Len(Modes)  BY <3>2, <4>1, Kinds
        <4> QED  BY <1>0, <4>2
      <3> QED  BY <1>1, <1>4, <3>1, <3>2 DEF Fresh
    <2>2. \A i \in Slots : slots'[i].name <= born
      BY <1>3, <1>5, <1>9
    <2> QED  BY <1>1, <1>4, <1>9, <1>13, <2>1, <2>2 DEF QueueInv, Queue
  <1>15. AddedInv' /\ CurrentIsPlugged'
    BY <1>4 DEF AddedInv, CurrentIsPlugged
  <1>16. current' \in Bound(slots') =>
            /\ current \in Bound(slots) /\ slots'[current'] = slots[current] /\ Name' = Name /\ Name # n
            /\ last' = last
    BY <1>4, <1>8 DEF Name
  <1>17. UpdateInv'
    <2>1. Event("surface") # Head(events)  BY <1>1 DEF Event
    <2>2. Bound(slots)' = Bound(slots')  BY DEF Bound
    <2> QED  BY <1>1, <1>4, <1>16, <2>1, <2>2 DEF OutIInv, UpdateInv
  <1>18. RenderInv'
    <2>1. Bound(slots)' = Bound(slots')  BY DEF Bound
    <2> QED  BY <1>1, <1>4, <1>16, <2>1 DEF OutIInv, RenderInv, Nothing
  <1> QED  BY <1>10, <1>11, <1>12, <1>14, <1>15, <1>17, <1>18 DEF OutIInv

LEMMA OutReplaced == ASSUME OutIInv, CurrentReplaced PROVE OutIInv'
  <1> DEFINE lost == current \notin Bound(slots)
             found == lost /\ Bound(slots) # {}
  <1>1. /\ handling.at = "removed" /\ handling' = Nothing
        /\ UNCHANGED <<phase, slots, select, born, plugged, modes, events, last>>
        /\ current' = IF found THEN Final(Bound(slots)) ELSE current
        /\ \/ lost /\ (found \/ update) /\ update' = FALSE /\ TakeOutput(slots[current'], configured)
           \/ ~(lost /\ (found \/ update)) /\ UNCHANGED <<update, render, missed>>
    BY DEF CurrentReplaced, KeepRender, serverVars
  <1>2. slots \in [Slots -> SlotType] /\ current \in Slots /\ render \in Rects /\ Bound(slots) \subseteq Slots
    BY DEF OutIInv, OutTypes, Bound
  <1>3. current' \in Slots /\ (Bound(slots) # {} => current' \in Bound(slots))
    BY <1>1, <1>2, FirstFinal
  <1>4. slots[current'] \in SlotType  BY <1>2, <1>3
  <1>5. TakeOutput(slots[current'], configured) =>
           /\ render' \in Rects /\ missed' = FALSE
           /\ Measured(slots[current'].rect) => render' = slots[current'].rect
    BY <1>2, <1>4, RendersOutput
  <1>6. OutTypes'
    <2>1. update' \in BOOLEAN /\ missed' \in BOOLEAN /\ render' \in Rects
      BY <1>1, <1>5 DEF OutIInv, OutTypes
    <2>2. handling' \in [at : {"none", "added", "removed"}, was : 0..Len(Modes)]
      <3>1. Len(Modes) \in Nat  BY OutputAssumption
      <3> QED  BY <1>1, <3>1 DEF Nothing
    <2> QED  BY <1>1, <1>3, <2>1, <2>2 DEF OutIInv, OutTypes
  <1>7. QueueInv'  BY <1>1 DEF OutIInv, QueueInv
  <1>8. PhaseInv'
    <2>1. phase # "closed"  BY <1>1 DEF OutIInv, PhaseInv, Nothing
    <2> QED  BY <1>1, <2>1 DEF OutIInv, PhaseInv, HasSurface
  <1>9. Bound(slots)' = Bound(slots)  BY <1>1 DEF Bound
  <1>10. SelectInv'
    BY <1>1, <1>9 DEF OutIInv, SelectInv
  <1>11. AddedInv' /\ CurrentIsPlugged'
    BY <1>1, <1>3, <1>9 DEF AddedInv, CurrentIsPlugged, Nothing
  <1>12. CASE ~lost
    <2>1. UNCHANGED <<current, update, render, missed>>  BY <1>1, <1>12
    <2>2. Name' = Name  BY <1>1, <2>1 DEF Name
    <2>3. UpdateInv' /\ RenderInv'
      BY <1>1, <1>9, <2>1, <2>2 DEF OutIInv, UpdateInv, RenderInv, Nothing
    <2> QED  BY <1>6, <1>7, <1>8, <1>10, <1>11, <2>3 DEF OutIInv
  <1>13. CASE lost
    <2>1. current' \in Bound(slots) => found
      BY <1>1, <1>13
    <2>2. current' \in Bound(slots) => update' = FALSE /\ TakeOutput(slots[current'], configured)
      BY <1>1, <1>13, <2>1
    <2>3. UpdateInv' /\ RenderInv'
      BY <1>1, <1>5, <1>9, <2>2 DEF UpdateInv, RenderInv, SizeOf
    <2> QED  BY <1>6, <1>7, <1>8, <1>10, <1>11, <2>3 DEF OutIInv
  <1> QED  BY <1>12, <1>13

\* updateDisplayOutput with the slots s: what was to be taken is taken.
LEMMA OutUpdated ==
  ASSUME OutIInv, NEW s \in [Slots -> SlotType], NEW rest, NEW conf,
         Queue(rest, s, plugged, born, modes), UpdateDisplayOutput(s, rest, conf)
  PROVE  /\ Queue(events', s, plugged, born, modes)
         /\ \A e : Has(rest, e) => Has(events', e)
         /\ Has(events', Event("surface")) => Has(rest, Event("surface")) \/ HasSurface
         /\ render' \in Rects /\ missed' \in BOOLEAN /\ update' \in BOOLEAN
         /\ \/ UNCHANGED <<update, render, missed>> /\ (update => current \notin Bound(s) \/ ~HasSurface)
            \/ ~update' /\ (Measured(s[current].rect) => SizeOf(render') = SizeOf(s[current].rect))
  <1>0. /\ current \in Slots /\ update \in BOOLEAN /\ missed \in BOOLEAN /\ render \in Rects
        /\ modes \in [DOMAIN Modes -> Rects] /\ \A n \in plugged : Measured(modes[n])
        /\ Len(Modes) \in Nat /\ DOMAIN Modes = 1..Len(Modes)
    BY OutputAssumption DEF OutIInv, OutTypes
  <1>1. CASE ~(current \in Bound(s) /\ HasSurface /\ update)
    BY <1>0, <1>1 DEF UpdateDisplayOutput, KeepRender
  <1>2. CASE current \in Bound(s) /\ HasSurface /\ update
    <2> DEFINE m == s[current].name
               r == IF m \in plugged THEN Configure(SizeOf(modes[m])) ELSE <<>>
               a == IF ~full THEN <<>> ELSE Configure(NoSize) \o r
    <2>1. TakeOutput(s[current], conf) /\ update' = FALSE /\ events' = rest \o a
      <3>1. rest \o <<>> = rest  BY DEF Queue
      <3> QED  BY <1>2, <3>1 DEF UpdateDisplayOutput
    <2>2. s[current] \in SlotType /\ m # 0 /\ m \in 1..Len(Modes)
      BY <1>0, <1>2 DEF Bound, SlotType
    <2>3. NoSize \in [w : Nat, h : Nat]  BY DEF NoSize
    <2>4. m \in plugged => SizeOf(modes[m]) \in [w : Nat, h : Nat]
      <3>1. m \in plugged => modes[m] \in Rects /\ modes[m].w > 0 /\ modes[m].h > 0
        BY <1>0, <2>2 DEF Measured
      <3> HIDE DEF m
      <3> QED  BY <3>1 DEF SizeOf, Rects
    <2>5. r \in Seq(Happening) /\ \A e : Has(r, e) => e.kind \in {"toplevel", "surface", "sync"}
      BY <2>4, Configures, None0
    <2>6. /\ Configure(NoSize) \in Seq(Happening)
          /\ \A e : Has(Configure(NoSize), e) => e.kind \in {"toplevel", "surface", "sync"}
      BY <2>3, Configures
    <2> HIDE DEF r
    <2>7. a \in Seq(Happening) /\ \A e : Has(a, e) => e.kind \in {"toplevel", "surface", "sync"}
      BY <2>5, <2>6, Added, None0
    <2> HIDE DEF a
    <2>8. Queue(events', s, plugged, born, modes)
      BY <2>1, <2>7, QueueMore
    <2>9. \A e : Has(events', e) <=> Has(rest, e) \/ Has(a, e)
      <3>1. rest \in Seq(Happening)  BY DEF Queue
      <3> QED  BY <2>1, <2>7, <3>1, Added
    <2>10. /\ render' \in Rects /\ missed' = FALSE
           /\ Measured(s[current].rect) => render' = s[current].rect
      BY <1>0, <2>1, <2>2, RendersOutput
    <2> QED  BY <1>2, <2>1, <2>8, <2>9, <2>10
  <1> QED  BY <1>1, <1>2

LEMMA OutState == ASSUME OutIInv, OutputState PROVE OutIInv'
  <1> DEFINE n == Head(events).name
             x == Head(events).rect
  <1>0. Len(Modes) \in Nat  BY OutputAssumption
  <1>1. /\ phase # "closed" /\ Head(events).kind = "state" /\ Head(events) \in Happening
        /\ events \in Seq(Happening) /\ events # <<>> /\ Has(events, Head(events))
        /\ Tail(events) \in Seq(Happening) /\ Gone(Tail(events), plugged) /\ handling = Nothing
        /\ Fresh(Tail(events), NamesOf(slots))
        /\ \A e : Has(events, e) => e = Head(events) \/ Has(Tail(events), e)
        /\ \A e : Has(Tail(events), e) => Has(events, e)
        /\ \A m : Pending(events, m) => Pending(Tail(events), m) \/ n = m
    BY Handled DEF OutputState
  <1>2. n \in 1..Len(Modes) /\ Head(events) = State(n, x) /\ x \in Rects /\ Measured(x)
    BY <1>1, Kinds
  <1>3. /\ slots \in [Slots -> SlotType] /\ current \in Slots /\ render \in Rects
        /\ update \in BOOLEAN /\ missed \in BOOLEAN /\ born \in Nat
    BY <1>0 DEF OutIInv, OutTypes
  <1>4. /\ UNCHANGED <<phase, current, select, handling, born, plugged, modes, last>>
        /\ slots' = [i \in Slots |-> IF slots[i].name = n THEN [slots[i] EXCEPT !.rect = x] ELSE slots[i]]
        /\ \/ /\ update /\ Measured(slots'[current].rect)
              /\ UpdateDisplayOutput(slots', Tail(events), configured)
           \/ /\ ~(update /\ Measured(slots'[current].rect))
              /\ missed' = (missed \/ SizeOf(slots'[current].rect) # SizeOf(slots[current].rect))
              /\ events' = Tail(events) /\ UNCHANGED <<update, render>>
    BY DEF OutputState, Measured
  <1> HIDE DEF n, x
  <1>5. /\ slots' \in [Slots -> SlotType]
        /\ \A i \in Slots : slots'[i].name = slots[i].name
        /\ \A i \in Slots : slots[i].name = n => slots'[i].rect = x
        /\ \A i \in Slots : slots[i].name # n => slots'[i] = slots[i]
    <2>1. ASSUME NEW i \in Slots
          PROVE  /\ (IF slots[i].name = n THEN [slots[i] EXCEPT !.rect = x] ELSE slots[i]) \in SlotType
                 /\ slots'[i].name = slots[i].name
                 /\ slots[i].name = n => slots'[i].rect = x
                 /\ slots[i].name # n => slots'[i] = slots[i]
      BY <1>2, <1>3, <1>4 DEF SlotType
    <2> QED  BY <1>4, <2>1
  <1>6. Bound(slots') = Bound(slots) /\ Bound(slots)' = Bound(slots) /\ Name' = Name
        /\ NamesOf(slots') = NamesOf(slots)
    BY <1>3, <1>4, <1>5 DEF Bound, Name, NamesOf
  <1>7. /\ \A f \in Happening : Has(events, f) /\ f.kind = "global" => f.name <= born
        /\ \A i \in Slots : slots[i].name <= born
        /\ \A i \in Bound(slots) : ToldOf(events, slots[i], plugged, modes)
    BY DEF OutIInv, QueueInv, Queue
  <1>8. ASSUME NEW i \in Bound(slots) PROVE ToldOf(Tail(events), slots'[i], plugged, modes)
    <2> DEFINE m == slots[i].name
    <2>1. i \in Slots /\ ToldOf(events, slots[i], plugged, modes) /\ slots'[i].name = m
      BY <1>5, <1>7, <1>8 DEF Bound
    <2>2. Silent(events, m) => Silent(Tail(events), m) /\ m # n
      BY <1>1 DEF Silent, About, n
    <2>3. Has(events, OutputEvent("remove", m)) => Has(Tail(events), OutputEvent("remove", m))
      <3>1. OutputEvent("remove", m).kind = "remove"  BY DEF OutputEvent
      <3> QED  BY <1>1, <3>1
    <2>4. ASSUME Says(events, m, modes[m])
          PROVE  Says(Tail(events), m, modes[m]) \/ (Silent(Tail(events), m) /\ slots'[i].rect = modes[m])
      <3>1. CASE Says(Tail(events), m, modes[m])  BY <3>1
      <3>2. CASE Head(events) = State(m, modes[m]) /\ Silent(Tail(events), m)
        <4>1. m = n /\ modes[m] = x  BY <1>2, <3>2 DEF State
        <4> QED  BY <1>5, <2>1, <3>2, <4>1
      <3> QED  BY <1>1, <2>4, <3>1, <3>2, SaidTaken
    <2>5. m # n => slots'[i] = slots[i]  BY <1>5, <2>1
    <2> QED  BY <2>1, <2>2, <2>3, <2>4, <2>5 DEF ToldOf
  <1>9. Queue(Tail(events), slots', plugged, born, modes)
    <2>1. \A i \in Slots : slots'[i].name <= born  BY <1>5, <1>7
    <2> QED  BY <1>1, <1>6, <1>7, <1>8, <2>1 DEF Queue
  <1>10. /\ Queue(events', slots', plugged, born, modes)
         /\ \A e : Has(Tail(events), e) => Has(events', e)
         /\ Has(events', Event("surface")) => Has(Tail(events), Event("surface")) \/ HasSurface
         /\ render' \in Rects /\ missed' \in BOOLEAN /\ update' \in BOOLEAN
         /\ \/ /\ UNCHANGED <<update, render>>
               /\ update => current \notin Bound(slots') \/ ~HasSurface \/ ~Measured(slots'[current].rect)
               /\ ~missed' => ~missed /\ (update \/ SizeOf(slots'[current].rect) = SizeOf(slots[current].rect))
            \/ ~update' /\ (Measured(slots'[current].rect) => SizeOf(render') = SizeOf(slots'[current].rect))
    <2>1. CASE update /\ UpdateDisplayOutput(slots', Tail(events), configured)
      <3>1. /\ Queue(events', slots', plugged, born, modes)
            /\ \A e : Has(Tail(events), e) => Has(events', e)
            /\ Has(events', Event("surface")) => Has(Tail(events), Event("surface")) \/ HasSurface
            /\ render' \in Rects /\ missed' \in BOOLEAN /\ update' \in BOOLEAN
            /\ \/ UNCHANGED <<update, render, missed>> /\ (update => current \notin Bound(slots') \/ ~HasSurface)
               \/ ~update' /\ (Measured(slots'[current].rect) => SizeOf(render') = SizeOf(slots'[current].rect))
        BY <1>5, <1>9, <2>1, OutUpdated
      <3>2. CASE UNCHANGED <<update, render, missed>> /\ (update => current \notin Bound(slots') \/ ~HasSurface)
        <4>1. /\ update' = update /\ render' = render /\ missed' = missed
              /\ update => current \notin Bound(slots') \/ ~HasSurface
          BY <3>2
        <4> QED  BY <2>1, <3>1, <4>1
      <3>3. CASE ~update' /\ (Measured(slots'[current].rect) => SizeOf(render') = SizeOf(slots'[current].rect))
        BY <3>1, <3>3
      <3> QED  BY <3>1, <3>2, <3>3
    <2>2. CASE /\ ~(update /\ Measured(slots'[current].rect))
               /\ missed' = (missed \/ SizeOf(slots'[current].rect) # SizeOf(slots[current].rect))
               /\ events' = Tail(events) /\ UNCHANGED <<update, render>>
      <3>1. missed' \in BOOLEAN  BY <1>3, <2>2
      <3>2. ~missed' => ~missed /\ SizeOf(slots'[current].rect) = SizeOf(slots[current].rect)
        BY <2>2
      <3> QED  BY <1>3, <1>9, <2>2, <3>1, <3>2
    <2> QED  BY <1>4, <2>1, <2>2
  <1>11. OutTypes'
    BY <1>4, <1>5, <1>10 DEF OutIInv, OutTypes
  <1>12. PhaseInv'
    BY <1>1, <1>4, <1>10 DEF OutIInv, PhaseInv, HasSurface
  <1>13. SelectInv' /\ CurrentIsPlugged' /\ AddedInv'
    BY <1>1, <1>4, <1>6 DEF OutIInv, SelectInv, CurrentIsPlugged, AddedInv, Nothing
  <1>14. QueueInv'  BY <1>4, <1>10 DEF QueueInv
  <1>15. RenderInv'
    <2> SUFFICES ASSUME current' \in Bound(slots'), ~missed', ~update', Measured(slots'[current'].rect)
                 PROVE  SizeOf(render') \in {SizeOf(slots'[current'].rect), last'}
      BY <1>6 DEF RenderInv, Bound
    <2>1. CASE SizeOf(render') = SizeOf(slots'[current].rect)
      BY <1>4, <2>1
    <2>2. CASE /\ UNCHANGED <<update, render>>
               /\ ~missed /\ (update \/ SizeOf(slots'[current].rect) = SizeOf(slots[current].rect))
      <3>1. ~update /\ SizeOf(slots'[current].rect) = SizeOf(slots[current].rect)  BY <2>2
      <3>2. Measured(slots[current].rect)
        BY <1>4, <3>1 DEF Measured, SizeOf
      <3> QED  BY <1>1, <1>4, <1>6, <2>2, <3>1, <3>2 DEF OutIInv, RenderInv, Nothing, SizeOf
    <2> QED  BY <1>4, <1>10, <2>1, <2>2
  <1>16. UpdateInv'
    <2> SUFFICES ASSUME update', current' \in Bound(slots'), phase' \notin {"globals", "states"},
                        ~Has(events', Event("surface"))
                 PROVE  Pending(events', Name')
      BY DEF UpdateInv, Bound
    <2>1. HasSurface  BY <1>1, <1>4 DEF OutIInv, OutTypes, HasSurface
    <2>2. update /\ current \in Bound(slots) /\ ~Measured(slots'[current].rect)
      BY <1>4, <1>6, <1>10, <2>1
    <2>3. Name # n  BY <1>2, <1>3, <1>5, <2>2 DEF Name
    <2>4. Event("surface") # Head(events)  BY <1>1 DEF Event
    <2>5. ~Has(events, Event("surface"))  BY <1>1, <1>10, <2>4
    <2>6. Pending(events, Name)  BY <1>4, <2>2, <2>5 DEF OutIInv, UpdateInv
    <2>7. Pending(Tail(events), Name)  BY <1>1, <2>3, <2>6
    <2> QED  BY <1>6, <1>10, <2>7 DEF Pending, About
  <1> QED  BY <1>11, <1>12, <1>13, <1>14, <1>15, <1>16 DEF OutIInv

LEMMA OutSurface == ASSUME OutIInv, SurfaceConfigured PROVE OutIInv'
  <1>1. /\ phase # "closed" /\ Head(events).kind = "surface" /\ Head(events) \in Happening
        /\ Has(events, Head(events)) /\ handling = Nothing
        /\ Queue(Tail(events), slots, plugged, born, modes)
        /\ \A e : Has(events, e) => e = Head(events) \/ Has(Tail(events), e)
        /\ \A e : Has(Tail(events), e) => Has(events, e)
    BY Handled DEF SurfaceConfigured
  <1>2. HasSurface
    BY <1>1, Kinds DEF OutIInv, PhaseInv
  <1>3. slots \in [Slots -> SlotType]
    BY DEF OutIInv, OutTypes
  <1>4. /\ UNCHANGED <<phase, slots, current, select, handling, born, plugged, modes, last>>
        /\ UpdateDisplayOutput(slots, Tail(events), TRUE)
        /\ Bound(slots)' = Bound(slots) /\ Name' = Name
    BY DEF SurfaceConfigured, Bound, Name
  <1>5. /\ Queue(events', slots, plugged, born, modes)
        /\ render' \in Rects /\ missed' \in BOOLEAN /\ update' \in BOOLEAN
        /\ \/ UNCHANGED <<update, render, missed>> /\ (update => current \notin Bound(slots))
           \/ ~update' /\ (Measured(slots[current].rect) => SizeOf(render') = SizeOf(slots[current].rect))
    BY <1>1, <1>2, <1>3, <1>4, OutUpdated
  <1>6. OutTypes' /\ QueueInv'
    BY <1>4, <1>5 DEF OutIInv, OutTypes, QueueInv
  <1>7. PhaseInv' /\ SelectInv' /\ CurrentIsPlugged' /\ AddedInv'
    BY <1>1, <1>2, <1>4 DEF OutIInv, PhaseInv, SelectInv, CurrentIsPlugged, AddedInv, HasSurface, Nothing
  <1>8. UpdateInv'
    BY <1>4, <1>5 DEF UpdateInv
  <1>9. RenderInv'
    BY <1>1, <1>4, <1>5 DEF OutIInv, RenderInv, Nothing, SizeOf
  <1> QED  BY <1>6, <1>7, <1>8, <1>9 DEF OutIInv

LEMMA OutToplevel == ASSUME OutIInv, ToplevelConfigured PROVE OutIInv'
  <1> DEFINE size == Head(events).size
  <1>1. /\ phase # "closed" /\ Head(events).kind = "toplevel" /\ Head(events) \in Happening
        /\ handling = Nothing /\ Queue(Tail(events), slots, plugged, born, modes)
        /\ \A e : Has(events, e) => e = Head(events) \/ Has(Tail(events), e)
        /\ \A e : Has(Tail(events), e) => Has(events, e)
        /\ \A m : Pending(events, m) => Pending(Tail(events), m)
    BY Handled DEF ToplevelConfigured
  <1>2. size \in [w : Nat, h : Nat]
    BY <1>1, Kinds
  <1>3. slots[current] \in SlotType /\ render \in Rects /\ update \in BOOLEAN
    BY DEF OutIInv, OutTypes
  <1>4. /\ UNCHANGED <<phase, slots, current, select, handling, born, plugged, modes>> /\ events' = Tail(events)
        /\ Bound(slots)' = Bound(slots) /\ Name' = Name
    BY DEF ToplevelConfigured, Bound, Name
  <1>5. \/ UNCHANGED <<update, last, render, missed>>
        \/ /\ size.w > 0 /\ size.h > 0 /\ last' = size
           /\ size = SizeOf(slots[current].rect) /\ update
           /\ update' = FALSE /\ TakeOutput(slots[current], configured)
        \/ /\ size.w > 0 /\ size.h > 0 /\ last' = size
           /\ SetRender(Rect(render.x, render.y, size.w, size.h), configured)
           /\ missed' = FALSE /\ UNCHANGED update
    BY <1>2 DEF ToplevelConfigured, KeepRender
  <1> HIDE DEF size
  <1>6. /\ render' \in Rects /\ missed' \in BOOLEAN /\ (update' => update) /\ update' \in BOOLEAN
        /\ UNCHANGED <<update, last, render, missed>> \/ SizeOf(render') = last'
    <2>1. CASE UNCHANGED <<update, last, render, missed>>
      BY <2>1 DEF OutIInv, OutTypes
    <2>2. CASE /\ size.w > 0 /\ size.h > 0 /\ last' = size /\ size = SizeOf(slots[current].rect)
               /\ update' = FALSE /\ TakeOutput(slots[current], configured)
      <3>1. Measured(slots[current].rect)
        BY <2>2 DEF SizeOf, Measured
      <3> QED  BY <1>3, <2>2, <3>1, RendersOutput
    <2>3. CASE /\ size.w > 0 /\ size.h > 0 /\ last' = size /\ missed' = FALSE /\ UNCHANGED update
               /\ SetRender(Rect(render.x, render.y, size.w, size.h), configured)
      <3>1. render' = Rect(render.x, render.y, size.w, size.h)
        BY <1>2, <2>3 DEF SetRender, Rect
      <3>2. render' \in Rects /\ SizeOf(render') = size
        BY <1>2, <1>3, <3>1 DEF Rect, Rects, SizeOf
      <3> QED  BY <1>3, <2>3, <3>2
    <2> QED  BY <1>5, <2>1, <2>2, <2>3
  <1>7. OutTypes' /\ QueueInv'
    BY <1>1, <1>4, <1>6 DEF OutIInv, OutTypes, QueueInv
  <1>8. PhaseInv' /\ SelectInv' /\ CurrentIsPlugged' /\ AddedInv'
    BY <1>1, <1>4, <1>6 DEF OutIInv, PhaseInv, SelectInv, CurrentIsPlugged, AddedInv, HasSurface, Nothing
  <1>9. RenderInv'
    BY <1>1, <1>4, <1>6 DEF OutIInv, RenderInv, Nothing
  <1>10. UpdateInv'
    <2>1. Event("surface") # Head(events)
      BY <1>1 DEF Event
    <2> QED  BY <1>1, <1>4, <1>6, <2>1 DEF OutIInv, UpdateInv
  <1> QED  BY <1>7, <1>8, <1>9, <1>10 DEF OutIInv

LEMMA OutNextIInv == OutIInv /\ [Next]_vars => OutIInv'
  <1> SUFFICES ASSUME OutIInv, [Next]_vars PROVE OutIInv'
    OBVIOUS
  <1>1. CASE UNCHANGED vars
    <2>1. UNCHANGED <<phase, slots, current, select, update, handling, render, missed, last, born, plugged,
                      modes, events>>
      BY <1>1 DEF vars, outputVars, pictureVars, serverVars
    <2> QED  BY <2>1, OutSame DEF OutIInv, OutTypes
  <1> QED  BY <1>1, OutCalls, OutServer, OutOpens, OutSynced, OutGlobal, OutChosen, OutRemoved,
              OutReplaced, OutState, OutSurface, OutToplevel
           DEF Next, Player, Dispatch

\* The invariant holds in every behaviour.
THEOREM OutInvariance == Spec => []OutIInv
  BY OutInitIInv, OutNextIInv, PTL DEF Spec

\* While an output is there, another thread finds the current one, but for the time
\* the dispatch thread handles its loss, or the first output after there was none
\* (registryHandleGlobal, registryHandleGlobalRemove).
THEOREM AnOutputIsCurrent == Spec => []CurrentIsPlugged
  <1>1. OutIInv => CurrentIsPlugged  BY DEF OutIInv
  <1> QED  BY <1>1, OutInvariance, PTL

\* Once every event is handled, the render rectangle is the output's or the window's,
\* whatever modes the outputs took meanwhile, but for one that was not waited for
\* (setRenderRectangle).
THEOREM RenderRectangleFollows == Spec => []RenderFollows
  <1>1. OutIInv => RenderFollows
    <2> SUFFICES ASSUME OutIInv, Quiet, current \in Bound(slots), ~missed
                 PROVE  SizeOf(render) \in {SizeOf(modes[slots[current].name]), last}
      BY DEF RenderFollows
    <2>1. phase = "running" /\ handling.at = "none" /\ events = <<>> /\ \A e : ~Has(events, e)
      BY DEF Quiet, Has, Nothing
    <2>2. ~update
      BY <2>1 DEF OutIInv, UpdateInv, Pending, About
    <2>3. ToldOf(events, slots[current], plugged, modes)
      BY DEF OutIInv, QueueInv, Queue
    <2>4. Name \in plugged /\ slots[current].rect = modes[Name]
      <3>1. \A n, r : ~Says(events, n, r)  BY <2>1 DEF Says
      <3> QED  BY <2>1, <2>3, <3>1 DEF ToldOf, Name
    <2>5. Measured(slots[current].rect)  BY <2>4 DEF OutIInv, OutTypes
    <2> QED  BY <2>1, <2>2, <2>4, <2>5 DEF OutIInv, RenderInv, Name
  <1> QED  BY <1>1, OutInvariance, PTL

-----------------------------------------------------------------------------
(* WestonOutputs: the rectangle of the video. *)

\* The arithmetic gives rectangles.
LEMMA MiddleIsRect ==
  ASSUME NEW dst \in Rects, NEW w \in Int, NEW h \in Int
  PROVE  Centred(dst, w, h) \in Rects
  <1>1. ASSUME NEW n \in Int PROVE Quotient(n, 2) \in Int
    BY DEF Quotient
  <1>2. dst.x \in Int /\ dst.y \in Int /\ dst.w - w \in Int /\ dst.h - h \in Int
    BY DEF Rects
  <1>3. Quotient(dst.w - w, 2) \in Int /\ Quotient(dst.h - h, 2) \in Int
    BY <1>1, <1>2
  <1> QED  BY <1>2, <1>3 DEF Centred, Rect, Rects

LEMMA TruncatedIsInt ==
  ASSUME NEW n \in Int, NEW d \in Nat, d > 0
  PROVE  Truncated(n, d) \subseteq Int
  <1>1. n \div d \in Int  OBVIOUS
  <1> QED  BY <1>1 DEF Truncated

LEMMA FitsAreRects ==
  ASSUME NEW src \in [w : Nat, h : Nat], NEW dst \in Rects, NEW r, dst.w >= 0, dst.h >= 0
  PROVE  CenterRects(src, dst, r, TRUE) \subseteq Rects
  <1>1. /\ src.w \in Nat /\ src.h \in Nat /\ dst.w \in Nat /\ dst.h \in Nat
        /\ dst.w * src.h \in Nat /\ src.w * dst.h \in Nat /\ dst.h * src.w \in Nat
    BY DEF Rects
  <1>2. ASSUME Wider(src, dst) PROVE FullWidth(src, dst) \subseteq Rects
    <2>1. src.w > 0
      <3>1. CASE src.w = 0  BY <1>1, <1>2, <3>1 DEF Wider
      <3> QED  BY <1>1, <3>1
    <2>2. Truncated(dst.w * src.h, src.w) \subseteq Int  BY <1>1, <2>1, TruncatedIsInt
    <2> QED  BY <1>1, <2>2, MiddleIsRect DEF FullWidth
  <1>3. ASSUME Wider(dst, src) PROVE FullHeight(src, dst) \subseteq Rects
    <2>1. src.h > 0
      <3>1. CASE src.h = 0  BY <1>1, <1>3, <3>1 DEF Wider
      <3> QED  BY <1>1, <3>1
    <2>2. Truncated(dst.h * src.w, src.h) \subseteq Int  BY <1>1, <2>1, TruncatedIsInt
    <2> QED  BY <1>1, <2>2, MiddleIsRect DEF FullHeight
  <1> QED  BY <1>2, <1>3 DEF CenterRects

\* A window without a width is stored and the video left as it is
\* (setWindowSize): that the picture follows is said of windows that have one.
WindowsHaveWidth == \A r \in WindowRects : r.w > 0

Doing == [at : {"rest", "read", "placed"}, result : Rects]

VidTypes ==
    /\ resizing \in [Threads -> Doing]
    /\ frame \in [w : Nat, h : Nat]
    /\ window \in Rects /\ video \in Rects /\ place \in Rects
    /\ render \in Rects /\ render.w >= 0 /\ render.h >= 0
    /\ configured \in BOOLEAN /\ full \in BOOLEAN /\ unseen \in BOOLEAN /\ overlapped \in BOOLEAN

Fits == CenterRects(frame, Destination(window, render), render, TRUE)

\* Of a resize under way the result fits, and so does the place once it is set.
OnTheWay(t) ==
    /\ \A u \in Threads \ {t} : Idle(u)
    /\ resizing[t].result \in Fits /\ (resizing[t].at = "placed" => place \in Fits)

VideoInv ==
    WindowsHaveWidth /\ frame.w > 0 /\ render.w > 0 /\ ~overlapped /\ ~unseen =>
        IF \A t \in Threads : Idle(t) THEN video \in Fits /\ place \in Fits
        ELSE \E t \in Threads : ~Idle(t) /\ OnTheWay(t)

LEMMA DestinationIsRect ==
  ASSUME NEW w \in Rects, NEW r \in Rects, r.w >= 0, r.h >= 0
  PROVE  Destination(w, r) \in Rects /\ Destination(w, r).w >= 0 /\ Destination(w, r).h >= 0
  BY DEF Destination, Rect, Rects

\* A resize begins, of the frame, window and render rectangle there are then.
LEMMA VidBegun ==
  ASSUME VidTypes, NEW t \in Threads, BeginResize(t, frame', window', render'),
         frame' \in [w : Nat, h : Nat], window' \in Rects, render' \in Rects,
         render'.w >= 0, render'.h >= 0, UNCHANGED <<video, place>>,
         configured' \in BOOLEAN, full' \in BOOLEAN
  PROVE  VidTypes' /\ VideoInv'
  <1>1. Fits' = CenterRects(frame', Destination(window', render'), render', TRUE)
    BY DEF Fits, CenterRects, Destination, IsSmall, Wider, FullWidth, FullHeight, Centred,
           Truncated, Quotient, Least, Rect
  <1>2. PICK res \in Fits' : resizing' = [resizing EXCEPT ![t] = [at |-> "read", result |-> res]]
    BY <1>1 DEF BeginResize
  <1>3. res \in Rects
    BY <1>1, <1>2, FitsAreRects, DestinationIsRect
  <1>4. /\ resizing' \in [Threads -> Doing]
        /\ resizing'[t] = [at |-> "read", result |-> res]
        /\ \A u \in Threads \ {t} : resizing'[u] = resizing[u]
    BY <1>2, <1>3 DEF VidTypes, Doing
  <1>5. VidTypes'
    BY <1>4 DEF VidTypes, BeginResize
  <1>6. ASSUME ~overlapped' PROVE ~Idle(t)' /\ OnTheWay(t)'
    BY <1>2, <1>4, <1>6 DEF BeginResize, Idle, Resting, OnTheWay
  <1>7. VideoInv'
    BY <1>6 DEF VideoInv
  <1> QED  BY <1>5, <1>7

\* What the picture is worked out from, and how far that is, stay as they are.
LEMMA VidKept ==
  ASSUME VidTypes, VideoInv, UNCHANGED <<frame, window, render, video, place, resizing, unseen,
                                         overlapped>>,
         configured' \in BOOLEAN, full' \in BOOLEAN
  PROVE  VidTypes' /\ VideoInv'
  <1>1. Fits' = Fits
    BY DEF Fits, CenterRects, Destination, IsSmall, Wider, FullWidth, FullHeight, Centred,
           Truncated, Quotient, Least, Rect
  <1>2. \A t \in Threads : (Idle(t)' <=> Idle(t)) /\ (OnTheWay(t)' <=> OnTheWay(t))
    BY <1>1 DEF Idle, OnTheWay, Resting
  <1>3. VidTypes'
    BY DEF VidTypes
  <1> QED  BY <1>1, <1>2, <1>3 DEF VideoInv

LEMMA VidRendered ==
  ASSUME VidTypes, VideoInv, NEW r \in Rects, NEW conf, SetRender(r, conf),
         UNCHANGED <<frame, window, video, place>>, configured' \in BOOLEAN, full' \in BOOLEAN
  PROVE  VidTypes' /\ VideoInv'
  <1>1. CASE r.w <= 0 \/ r.h <= 0
    BY <1>1, VidKept DEF SetRender, NoResize
  <1>2. CASE r.w > 0 /\ r.h > 0 /\ conf /\ frame.w # 0
    <2>1. /\ render' = r /\ r.w >= 0 /\ r.h >= 0
          /\ BeginResize("dispatch", frame', window', render') /\ "dispatch" \in Threads
      BY <1>2 DEF SetRender, Rects, Threads
    <2> QED  BY <2>1, VidBegun DEF VidTypes
  <1>3. CASE r.w > 0 /\ r.h > 0 /\ ~(conf /\ frame.w # 0)
    <2>1. render' = r /\ unseen' = TRUE /\ UNCHANGED <<resizing, overlapped>>
      BY <1>3 DEF SetRender, Rects
    <2> QED  BY <1>3, <2>1 DEF VidTypes, VideoInv, Rects
  <1> QED  BY <1>1, <1>2, <1>3 DEF Rects

LEMMA VidTaken ==
  ASSUME VidTypes, VideoInv, NEW o, o.rect \in Rects, NEW conf, TakeOutput(o, conf),
         UNCHANGED <<frame, window, video, place>>, configured' \in BOOLEAN, full' \in BOOLEAN
  PROVE  VidTypes' /\ VideoInv'
  BY VidRendered DEF TakeOutput

LEMMA VidUpdated ==
  ASSUME VidTypes, VideoInv, NEW s \in [Slots -> SlotType], current \in Slots, NEW rest, NEW conf,
         UpdateDisplayOutput(s, rest, conf),
         UNCHANGED <<frame, window, video, place>>, configured' \in BOOLEAN, full' \in BOOLEAN
  PROVE  VidTypes' /\ VideoInv'
  <1>1. CASE TakeOutput(s[current], conf)
    BY <1>1, VidTaken DEF SlotType
  <1>2. CASE KeepRender
    BY <1>2, VidKept DEF KeepRender, NoResize
  <1> QED  BY <1>1, <1>2 DEF UpdateDisplayOutput

LEMMA VidInit == Init => VidTypes /\ VideoInv
  <1> SUFFICES ASSUME Init PROVE VidTypes /\ VideoInv
    OBVIOUS
  <1>1. NoRect \in Rects /\ NoRect.w = 0 /\ NoRect.h = 0 /\ NoSize \in [w : Nat, h : Nat] /\ NoSize.w = 0
    BY DEF NoRect, NoSize, Rect, Rects
  <1>2. Resting \in Doing
    BY <1>1 DEF Resting, Doing
  <1>3. resizing \in [Threads -> Doing]
    BY <1>2 DEF Init
  <1>4. /\ frame = NoSize /\ window = NoRect /\ render = NoRect /\ video = NoRect /\ place = NoRect
        /\ configured = FALSE /\ full = TRUE /\ unseen = FALSE /\ overlapped = FALSE
    BY DEF Init
  <1>5. VidTypes
    <2>1. configured \in BOOLEAN /\ full \in BOOLEAN /\ unseen \in BOOLEAN /\ overlapped \in BOOLEAN
      BY <1>4
    <2>2. render \in Rects /\ render.w >= 0 /\ render.h >= 0
      BY <1>1, <1>4
    <2>3. frame \in [w : Nat, h : Nat] /\ window \in Rects /\ video \in Rects /\ place \in Rects
      BY <1>1, <1>4
    <2> QED  BY <1>3, <2>1, <2>2, <2>3 DEF VidTypes
  <1>6. VideoInv
    BY <1>1, <1>4 DEF VideoInv
  <1> QED  BY <1>5, <1>6

LEMMA VidCalls ==
  ASSUME OutIInv, VidTypes, VideoInv,
         \/ \E f \in Frames : SetFrameSize(f)
         \/ \E r \in WindowRects : SetWindowSize(r)
  PROVE  VidTypes' /\ VideoInv'
  <1>1. PlayerFree => HasSurface \/ render.w = 0
    BY DEF PlayerFree, HasSurface, OutIInv, PhaseInv, NoRect, Rect
  <1>2. ASSUME NEW f \in Frames, SetFrameSize(f) PROVE VidTypes' /\ VideoInv'
    <2>1. /\ frame' = f /\ f \in [w : Nat, h : Nat] /\ "player" \in Threads
          /\ UNCHANGED <<window, render, video, place, configured, full>>
      BY <1>2, SizeAssumption DEF SetFrameSize, Threads
    <2>2. CASE BeginResize("player", f, window, render)
      BY <2>1, <2>2, VidBegun DEF VidTypes
    <2>3. CASE render.w = 0 /\ NoResize
      BY <2>1, <2>3 DEF VidTypes, VideoInv, NoResize
    <2> QED  BY <1>1, <1>2, <2>2, <2>3 DEF SetFrameSize, VidTypes, Rects
  <1>3. ASSUME NEW r \in WindowRects, SetWindowSize(r) PROVE VidTypes' /\ VideoInv'
    <2>1. /\ window' = r /\ r \in Rects /\ (WindowsHaveWidth => r.w > 0) /\ "player" \in Threads
          /\ UNCHANGED <<frame, render, video, place, configured>>
      BY <1>3, SizeAssumption DEF SetWindowSize, WindowsHaveWidth, Threads
    <2>2. CASE BeginResize("player", frame, r, render) /\ full' = FALSE
      BY <2>1, <2>2, VidBegun DEF VidTypes
    <2>3. CASE ~(WindowsHaveWidth /\ frame.w > 0 /\ render.w > 0) /\ NoResize /\ full' = full
      BY <2>1, <2>3 DEF VidTypes, VideoInv, NoResize
    <2>4. \/ BeginResize("player", frame, r, render) /\ full' = FALSE
          \/ ~(r.w > 0 /\ frame.w > 0 /\ HasSurface) /\ NoResize /\ full' = full
      BY <1>3 DEF SetWindowSize
    <2>5. PlayerFree  BY <1>3 DEF SetWindowSize
    <2>6. ~HasSurface => ~(render.w > 0)  BY <1>1, <2>5
    <2> QED  BY <2>1, <2>2, <2>3, <2>4, <2>6
  <1> QED  BY <1>2, <1>3

LEMMA VidResize == ASSUME VidTypes, VideoInv, Resize PROVE VidTypes' /\ VideoInv'
  <1> PICK t \in Threads : PlaceVideo(t) \/ StoreVideo(t)
    BY DEF Resize
  <1>1. /\ UNCHANGED <<frame, window, render, unseen, overlapped, configured, full>>
        /\ resizing[t].at \in {"read", "placed"}
    BY DEF PlaceVideo, StoreVideo, windowVars
  <1>2. Fits' = Fits
    BY <1>1
       DEF Fits, CenterRects, Destination, IsSmall, Wider, FullWidth, FullHeight, Centred,
           Truncated, Quotient, Least, Rect
  <1>3. ~Idle(t) /\ resizing[t] \in Doing
    BY <1>1 DEF Idle, Resting, VidTypes
  <1>4. ASSUME WindowsHaveWidth, frame.w > 0, render.w > 0, ~overlapped, ~unseen PROVE OnTheWay(t)
    BY <1>3, <1>4 DEF VideoInv, OnTheWay
  <1>5. CASE PlaceVideo(t)
    <2>1. /\ place' = resizing[t].result /\ video' = video
          /\ resizing' = [resizing EXCEPT ![t].at = "placed"] /\ resizing[t].result \in Rects
      BY <1>3, <1>5 DEF PlaceVideo, Doing
    <2>2. /\ resizing'[t].at = "placed" /\ resizing'[t].result = resizing[t].result
          /\ \A u \in Threads \ {t} : resizing'[u] = resizing[u]
          /\ resizing' \in [Threads -> Doing]
      BY <1>3, <2>1 DEF VidTypes, Doing
    <2>3. VidTypes'
      BY <1>1, <2>1, <2>2 DEF VidTypes
    <2>4. ~Idle(t)'
      BY <2>2 DEF Idle, Resting
    <2>5. OnTheWay(t) => OnTheWay(t)'
      BY <1>2, <2>1, <2>2 DEF OnTheWay, Idle, Resting
    <2> QED  BY <1>1, <1>4, <2>3, <2>4, <2>5 DEF VideoInv
  <1>6. CASE StoreVideo(t)
    <2>1. /\ video' = resizing[t].result /\ place' = place /\ resizing[t].at = "placed"
          /\ resizing' = [resizing EXCEPT ![t] = Resting] /\ resizing[t].result \in Rects
      BY <1>3, <1>6 DEF StoreVideo, Doing
    <2>2. Resting \in Doing
      BY DEF Resting, Doing, NoRect, Rect, Rects
    <2>3. /\ resizing'[t] = Resting
          /\ \A u \in Threads \ {t} : resizing'[u] = resizing[u]
          /\ resizing' \in [Threads -> Doing]
      BY <2>1, <2>2 DEF VidTypes
    <2>4. VidTypes'
      BY <1>1, <2>1, <2>3 DEF VidTypes
    <2>5. OnTheWay(t) => \A u \in Threads : Idle(u)'
      BY <2>3 DEF OnTheWay, Idle, Resting
    <2>6. OnTheWay(t) => video' \in Fits /\ place' \in Fits
      BY <2>1 DEF OnTheWay
    <2> QED  BY <1>1, <1>2, <1>4, <2>4, <2>5, <2>6 DEF VideoInv
  <1> QED  BY <1>5, <1>6

LEMMA VidDispatch == ASSUME OutIInv, VidTypes, VideoInv, Dispatch PROVE VidTypes' /\ VideoInv'
  <1>1. slots \in [Slots -> SlotType] /\ current \in Slots /\ configured \in BOOLEAN /\ full \in BOOLEAN
    BY DEF OutIInv, OutTypes, VidTypes
  <1>2. CASE Synced \/ GlobalAdded \/ CurrentChosen \/ GlobalRemoved
    BY <1>2, VidKept
       DEF Synced, GlobalAdded, CurrentChosen, GlobalRemoved, windowVars, pictureVars, VidTypes
  <1>3. CASE CurrentReplaced
    <2>1. OutIInv'
      BY <1>3, OutReplaced
    <2>2. slots \in [Slots -> SlotType] /\ current' \in Slots
      BY <1>1, <2>1 DEF OutIInv, OutTypes
    <2>3. UNCHANGED <<frame, window, configured, full, video, place>>
      BY <1>3 DEF CurrentReplaced, windowVars
    <2>4. CASE TakeOutput(slots[current'], configured)
      BY <1>1, <2>2, <2>3, <2>4, VidTaken DEF SlotType
    <2>5. CASE KeepRender
      BY <1>1, <2>3, <2>5, VidKept DEF KeepRender, NoResize
    <2> QED  BY <1>3, <2>4, <2>5 DEF CurrentReplaced
  <1>4. CASE OutputState
    <2>1. OutIInv'
      BY <1>4, OutState
    <2>2. slots' \in [Slots -> SlotType]
      BY <2>1 DEF OutIInv, OutTypes
    <2>3. UNCHANGED <<frame, window, configured, full, video, place>>
      BY <1>4 DEF OutputState, windowVars
    <2>4. CASE UpdateDisplayOutput(slots', Tail(events), configured)
      BY <1>1, <2>2, <2>3, <2>4, VidUpdated
    <2>5. CASE UNCHANGED <<update, render>> /\ NoResize
      BY <1>1, <2>3, <2>5, VidKept DEF NoResize
    <2> QED  BY <1>4, <2>4, <2>5 DEF OutputState
  <1>5. CASE ToplevelConfigured
    <2>1. UNCHANGED <<frame, window, configured, full, video, place>>
      BY <1>5 DEF ToplevelConfigured, windowVars
    <2>2. CASE KeepRender
      BY <1>1, <2>1, <2>2, VidKept DEF KeepRender, NoResize
    <2>3. CASE TakeOutput(slots[current], configured)
      BY <1>1, <2>1, <2>3, VidTaken DEF SlotType
    <2>4. CASE Head(events).size.w > 0 /\ Head(events).size.h > 0
               /\ SetRender(Rect(render.x, render.y, Head(events).size.w, Head(events).size.h), configured)
      <3>1. Head(events).size \in [w : Nat, h : Nat]
        BY <1>5, Handled, Kinds DEF ToplevelConfigured
      <3>2. Rect(render.x, render.y, Head(events).size.w, Head(events).size.h) \in Rects
        BY <3>1 DEF VidTypes, Rects, Rect
      <3> QED  BY <1>1, <2>1, <2>4, <3>2, VidRendered
    <2>5. Head(events).size \in [w : Nat, h : Nat]
      BY <1>5, Handled, Kinds DEF ToplevelConfigured
    <2> QED  BY <1>5, <2>2, <2>3, <2>4, <2>5 DEF ToplevelConfigured
  <1>6. CASE SurfaceConfigured
    BY <1>1, <1>6, VidUpdated DEF SurfaceConfigured
  <1> QED  BY <1>2, <1>3, <1>4, <1>5, <1>6 DEF Dispatch

LEMMA VidNext == OutIInv /\ VidTypes /\ VideoInv /\ [Next]_vars => VidTypes' /\ VideoInv'
  <1> SUFFICES ASSUME OutIInv, VidTypes, VideoInv, [Next]_vars PROVE VidTypes' /\ VideoInv'
    OBVIOUS
  <1>1. CASE UNCHANGED vars
    BY <1>1, VidKept DEF vars, windowVars, pictureVars, VidTypes
  <1>2. CASE Server \/ OpenDisplay \/ \E i \in Slots : SetDisplayOutput(i)
    BY <1>2, VidKept
       DEF Server, Plug, Unplug, ModeChanged, Reconfigure, OpenDisplay, SetDisplayOutput, windowVars,
           pictureVars, VidTypes
  <1> QED  BY <1>1, <1>2, VidCalls, VidResize, VidDispatch DEF Next, Player

THEOREM VideoInvariance == Spec => [](OutIInv /\ VidTypes /\ VideoInv)
  <1>1. OutIInv /\ VidTypes /\ VideoInv /\ [Next]_vars => (VidTypes /\ VideoInv)'
    BY VidNext
  <1> QED  BY <1>1, VidInit, OutInvariance, PTL DEF Spec

\* Every variable keeps its type; what videoCenterRect works out is a rectangle.
THEOREM OutputsTypeCorrect == Spec => []TypeOK
  <1>1. OutIInv /\ VidTypes => TypeOK
    <2> SUFFICES ASSUME OutIInv, VidTypes PROVE TypeOK
      OBVIOUS
    <2>1. \A i \in DOMAIN events : events[i].kind \in {"global", "remove", "state", "toplevel", "surface", "sync"}
      <3>1. events \in Seq(Happening)  BY DEF OutIInv, QueueInv, Queue
      <3> QED  BY <3>1, Kinds
    <2>2. {update, configured, full, unseen, overlapped, missed} \subseteq BOOLEAN
      BY DEF OutIInv, OutTypes, VidTypes
    <2>3. {window, render, video, place} \subseteq Rects
      BY DEF VidTypes
    <2> QED  BY <2>1, <2>2, <2>3 DEF OutIInv, OutTypes, VidTypes, Doing, TypeOK, SlotType
  <1> QED  BY <1>1, VideoInvariance, PTL

\* Whoever of the two threads worked it out last, the picture fits the frame, the
\* window and the render rectangle there are (resizeVideoSurface), unless two
\* resizes met or the window was not yet configured.
THEOREM PictureFollows == WindowsHaveWidth /\ Spec => []VideoFollows
  <1> SUFFICES ASSUME WindowsHaveWidth PROVE Spec => []VideoFollows
    OBVIOUS
  <1>1. VideoInv => VideoFollows
    BY DEF VideoInv, VideoFollows, Quiet, Fits
  <1> QED  BY <1>1, VideoInvariance, PTL

-----------------------------------------------------------------------------
(* WstOutput: the rectangle of the video, the window and who was told. *)

Stages   == Westeros!Update \cup Westeros!Bounds \cup Westeros!Requests
                \cup {"rest", "mode", "decide", "restore"}
Writing  == {"write", "first write"}
Computed == {"compute", "first compute"} \cup Writing

Working(t) == at[t] \in Computed
Restoring  == at["dispatch"] \in {"bounds", "ratio", "crop", "restore"}
Knows      == transform.denomX # 0 /\ transform.denomY # 0
Target     == Westeros!VideoPosition(wstWindow, override, transform)
\* The rectangle of the video, or the one it gets back at the end of a change of the pathway.
Lasting    == IF Restoring THEN saved ELSE wstVideo

WstTypes ==
    /\ at \in [Westeros!Threads -> Stages]
    /\ mine = [t \in Westeros!Threads |-> mine[t]]
    /\ connected \in BOOLEAN /\ override \in BOOLEAN /\ change \in BOOLEAN
    /\ spoiled \in BOOLEAN /\ overtaken \in BOOLEAN /\ stale \in BOOLEAN
    /\ at["player"] \notin {"mode", "crop", "restore"} /\ at["dispatch"] # "decide"

\* Without stale no two threads work on the rectangle at once, nor one during a restoring.
StaleInv ==
    ~stale => /\ at["dispatch"] \notin {"first compute", "first write"}
              /\ Working("player") => at["dispatch"] \in {"rest", "mode", "tell"}
              /\ Working("dispatch") => at["player"] \in {"rest", "bounds", "ratio", "tell", "decide"}

\* outputHandleMode writes a window the player did not set, or one of the two
\* histories tells that it did meanwhile.
ModeInv ==
    at["dispatch"] = "mode" => (~override \/ spoiled) /\ (~change /\ ~stale => ~override)

WindowInv ==
    /\ ~override => wstWindow = Westeros!Display /\ asked = Westeros!Display
    /\ ~spoiled => wstWindow = asked
    /\ ~connected => at["dispatch"] = "rest"

\* A thread keeps a rectangle only while it writes it or sends it.
MineInv == \A t \in Westeros!Threads : at[t] \notin Writing \cup Westeros!Requests => mine[t] = None

\* What is being sent to the compositor is the window, or overtaken tells; so it is
\* told of the window once no request is under way.
SendInv ==
    connected /\ ~overtaken =>
        /\ \A t \in Westeros!Threads : Westeros!Sending(t) => mine[t] = wstWindow
        /\ (\A t \in Westeros!Threads : at[t] \notin Westeros!Requests) => geometry = wstWindow

\* What was worked out is where the window and the transform put the video, and
\* so is the video once no thread works on it.
PositionInv ==
    Knows /\ ~change /\ ~stale =>
        /\ \A t \in Westeros!Threads : at[t] \in Writing => mine[t] = Target
        /\ (\A t \in Westeros!Threads : ~Working(t)) => Lasting = Target /\ told \in {Lasting, None}

WstIInv == WstTypes /\ StaleInv /\ ModeInv /\ WindowInv /\ PositionInv /\ MineInv /\ SendInv

LEMMA SameTarget == ASSUME UNCHANGED <<wstWindow, override, transform>> PROVE Target' = Target
  BY DEF Target, Westeros!VideoPosition, Westeros!Rect, Westeros!Quotient

LEMMA TwoThreads ==
  /\ Westeros!Threads = {"player", "dispatch"}
  /\ Westeros!Other("player") = "dispatch" /\ Westeros!Other("dispatch") = "player"
  /\ "player" \in Westeros!Threads /\ "dispatch" \in Westeros!Threads
  BY DEF Westeros!Threads, Westeros!Other

LEMMA WstInit == Westeros!Init => WstIInv
  <1> SUFFICES ASSUME Westeros!Init PROVE WstIInv
    OBVIOUS
  <1>1. /\ at = [t \in Westeros!Threads |-> "rest"] /\ mine = [t \in Westeros!Threads |-> None]
        /\ connected = FALSE /\ override = FALSE /\ change = FALSE /\ spoiled = FALSE
        /\ overtaken = FALSE /\ stale = FALSE /\ wstWindow = Westeros!Display /\ asked = Westeros!Display /\ transform = Westeros!NoScale
    BY DEF Westeros!Init
  <1>2. \A t \in Westeros!Threads : at[t] = "rest"
    BY <1>1
  <1>3. WstTypes
    BY <1>1, TwoThreads DEF WstTypes, Stages
  <1>4. ~Knows
    BY <1>1 DEF Knows, Westeros!NoScale
  <1> QED  BY <1>1, <1>2, <1>3, <1>4, TwoThreads
           DEF WstIInv, StaleInv, ModeInv, WindowInv, PositionInv, MineInv, SendInv, Working,
               Computed, Writing

\* A thread that neither writes nor sends may go on to any stage.
LEMMA SendsMove ==
  ASSUME WstTypes, MineInv, SendInv, NEW t \in Westeros!Threads, NEW a,
         at[t] \notin Writing \cup Westeros!Requests, at' = [at EXCEPT ![t] = a],
         UNCHANGED <<connected, mine, wstWindow, geometry, overtaken>>
  PROVE  MineInv' /\ SendInv'
  <1>1. at'[t] = a /\ mine[t] = None /\ \A u \in Westeros!Threads \ {t} : at'[u] = at[u]
    BY DEF WstTypes, MineInv
  <1>2. MineInv'
    BY <1>1 DEF MineInv
  <1>3. \A u \in Westeros!Threads : Westeros!Sending(u)' => Westeros!Sending(u)
    BY <1>1 DEF Westeros!Sending
  <1>4. at[t] \notin Westeros!Requests
    OBVIOUS
  <1>5. (\A u \in Westeros!Threads : at'[u] \notin Westeros!Requests)
          => \A u \in Westeros!Threads : at[u] \notin Westeros!Requests
    BY <1>1, <1>4
  <1> QED  BY <1>2, <1>3, <1>5 DEF SendInv

LEMMA SendsStay ==
  ASSUME MineInv, SendInv, UNCHANGED <<connected, at, mine, wstWindow, geometry, overtaken>>
  PROVE  MineInv' /\ SendInv'
  BY DEF MineInv, SendInv, Westeros!Sending

\* A step that leaves the rectangles, the window and what they depend on alone, and
\* moves threads only where that does not matter.
LEMMA WstQuiet ==
  ASSUME WstIInv,
         UNCHANGED <<connected, mine, wstWindow, override, change, transform, wstVideo, saved, told,
                     geometry, asked, spoiled, overtaken, stale>>,
         \/ at' = at
         \/ at' = [at EXCEPT !["player"] = "rest"] /\ at["player"] \in {"bounds", "decide"}
         \/ at' = [at EXCEPT !["player"] = "ratio"] /\ at["player"] = "bounds"
         \/ at' = [at EXCEPT !["dispatch"] = "ratio"] /\ at["dispatch"] = "bounds"
         \/ at' = [at EXCEPT !["dispatch"] = "crop"] /\ at["dispatch"] = "bounds"
         \/ at' = [at EXCEPT !["player"] = "bounds"] /\ at["player"] = "rest"
         \/ at' = [at EXCEPT !["dispatch"] = "mode"] /\ at["dispatch"] = "rest" /\ ~override /\ connected
  PROVE  WstIInv'
  <1> USE DEF WstIInv, Computed, Writing
  <1>1. /\ at' \in [Westeros!Threads -> Stages]
        /\ at'["player"] \notin {"mode", "crop", "restore"} /\ at'["dispatch"] # "decide"
        /\ \A t \in Westeros!Threads : (Working(t)' <=> Working(t)) /\ (Working(t) => at'[t] = at[t])
        /\ Restoring' <=> Restoring
        /\ at'["dispatch"] = "mode" => at["dispatch"] = "mode" \/ ~override
    BY TwoThreads DEF WstTypes, Stages, Westeros!Update, Westeros!Bounds, Westeros!Requests, Working,
       Restoring
  <1>2. StaleInv'
    BY TwoThreads DEF WstTypes, Working, StaleInv
  <1>3. WindowInv'
    BY TwoThreads DEF WstTypes, WindowInv
  <1>4. WstTypes' /\ ModeInv'
    BY <1>1 DEF WstTypes, ModeInv
  <1>5. Lasting' = Lasting /\ Knows' = Knows /\ Target' = Target
    BY <1>1, SameTarget DEF Lasting, Knows
  <1>6. PositionInv'
    <2> SUFFICES ASSUME Knows, ~change, ~stale PROVE
          /\ \A t \in Westeros!Threads : at'[t] \in Writing => mine[t] = Target
          /\ (\A t \in Westeros!Threads : ~Working(t)) => Lasting = Target /\ told \in {Lasting, None}
      BY <1>1, <1>5 DEF PositionInv
    <2> QED  BY <1>1 DEF PositionInv, Working
  <1>7. MineInv' /\ SendInv'
    <2>1. \/ at' = at
          \/ \E t \in Westeros!Threads, a \in Stages :
                at' = [at EXCEPT ![t] = a] /\ at[t] \in {"bounds", "decide", "rest"}
      BY TwoThreads DEF Stages, Westeros!Bounds, Westeros!Requests
    <2>2. \A t \in Westeros!Threads : at[t] \in {"bounds", "decide", "rest"}
                                         => at[t] \notin Writing \cup Westeros!Requests
      BY DEF Westeros!Requests
    <2>3. WstTypes /\ MineInv /\ SendInv
      OBVIOUS
    <2> HIDE DEF WstIInv
    <2> QED  BY <2>1, <2>2, <2>3, SendsMove, SendsStay
  <1> QED  BY <1>2, <1>3, <1>4, <1>6, <1>7

LEMMA WstEndBounds ==
  ASSUME WstIInv, NEW t \in Westeros!Threads, NEW next,
         (t = "player" /\ next = "rest") \/ (t = "dispatch" /\ next = "crop"),
         Westeros!EndBounds(t, next)
  PROVE  WstIInv'
  <1>1. /\ at[t] = "bounds" /\ UNCHANGED <<override, wstWindow>>
        /\ at' = [at EXCEPT ![t] = "ratio"] \/ at' = [at EXCEPT ![t] = next]
        /\ UNCHANGED <<connected, mine, change, transform, wstVideo, saved, told, geometry, asked,
                       spoiled, overtaken, stale>>
    BY DEF Westeros!EndBounds, Westeros!history, Westeros!settings
  <1> QED  BY <1>1, WstQuiet

LEMMA WstQuietSteps ==
  ASSUME WstIInv,
         \/ Westeros!Set \/ Westeros!PlayerBounds \/ Westeros!DispatchBounds \/ Westeros!OutputMode
         \/ \E z \in ZoomModes, global \in BOOLEAN : Westeros!SetZoomMode(z, global)
  PROVE  WstIInv'
  <1> USE DEF Westeros!history, Westeros!settings
  <1>1. CASE Westeros!Set
    BY <1>1, WstQuiet DEF Westeros!Set
  <1>2. CASE Westeros!PlayerBounds \/ Westeros!DispatchBounds
    BY <1>2, TwoThreads, WstEndBounds DEF Westeros!PlayerBounds, Westeros!DispatchBounds
  <1>3. CASE Westeros!OutputMode
    <2>1. at["dispatch"] = "rest" /\ at' = [at EXCEPT !["dispatch"] = "mode"] /\ ~override /\ connected
      BY <1>3 DEF Westeros!OutputMode, Westeros!Dispatches
    <2> QED  BY <1>3, <2>1, WstQuiet DEF Westeros!OutputMode
  <1>4. ASSUME NEW z \in ZoomModes, NEW global \in BOOLEAN, Westeros!SetZoomMode(z, global)
        PROVE WstIInv'
    BY <1>4, WstQuiet DEF Westeros!SetZoomMode
  <1> QED  BY <1>1, <1>2, <1>3, <1>4

\* A window of the player, and the end of the call, which has the rectangle worked
\* out or leaves the change to the next frame.
LEMMA WstSetWindow ==
  ASSUME WstIInv, NEW w, Westeros!SetWindowSize(w)
  PROVE  WstIInv'
  <1> USE DEF WstIInv, Computed, Writing
  <1>1. /\ at["player"] = "rest" /\ wstWindow' = w /\ override' = TRUE /\ asked' = w /\ change' = TRUE
        /\ spoiled' = (at["dispatch"] = "mode") /\ overtaken' = Westeros!Sending("dispatch")
        /\ UNCHANGED <<connected, mine, geometry, stale>>
        /\ connected => at' = [at EXCEPT !["player"] = "tell"]
        /\ ~connected => at' = [at EXCEPT !["player"] = "rest"]
    BY TwoThreads DEF Westeros!SetWindowSize, Westeros!Idle, Westeros!Overtakes
  <1>2. /\ at'["dispatch"] = at["dispatch"] /\ at'["player"] \in {"rest", "tell"}
        /\ connected => at'["player"] = "tell"
    BY <1>1, TwoThreads DEF WstTypes
  <1>3. WstTypes'
    <2>1. at' \in [Westeros!Threads -> Stages]
      BY <1>1, TwoThreads DEF WstTypes, Stages, Westeros!Requests
    <2>2. overtaken' \in BOOLEAN /\ spoiled' \in BOOLEAN
      BY <1>1 DEF Westeros!Sending
    <2> QED  BY <1>1, <1>2, <2>1, <2>2 DEF WstTypes
  <1>4. StaleInv' /\ ModeInv' /\ WindowInv'
    BY <1>1, <1>2, TwoThreads DEF WstTypes, StaleInv, ModeInv, WindowInv, Working
  <1>5. PositionInv'
    BY <1>1 DEF PositionInv
  <1>6. MineInv' /\ SendInv'
    <2>1. mine["player"] = None
      BY <1>1, TwoThreads DEF MineInv, Westeros!Requests
    <2>2. MineInv'
      BY <1>1, <1>2, <2>1, TwoThreads DEF MineInv
    <2>3. ~Westeros!Sending("player")' /\ (Westeros!Sending("dispatch")' <=> Westeros!Sending("dispatch"))
      BY <1>1, <1>2, <2>1 DEF Westeros!Sending
    <2>4. connected' => at'["player"] \in Westeros!Requests
      BY <1>1, <1>2 DEF Westeros!Requests
    <2> QED  BY <1>1, <2>2, <2>3, <2>4, TwoThreads DEF SendInv
  <1> QED  BY <1>3, <1>4, <1>5, <1>6

LEMMA WstDecide == ASSUME WstIInv, Westeros!Decide PROVE WstIInv'
  <1> USE DEF WstIInv, Computed, Writing
  <1>1. /\ at["player"] = "decide"
        /\ UNCHANGED <<connected, mine, wstWindow, override, transform, wstVideo, saved, told, geometry,
                       asked, spoiled, overtaken>>
        /\ \/ /\ change' = FALSE /\ at' = [at EXCEPT !["player"] = "compute"]
              /\ stale' = Westeros!Busy("dispatch")
           \/ /\ change' = change /\ at' = [at EXCEPT !["player"] = "rest"] /\ UNCHANGED stale
    <2> DEFINE follows == paused /\ connected /\ change /\ Westeros!Known(transform)
    <2>1. CASE follows
      BY <2>1, TwoThreads DEF Westeros!Decide, Westeros!Begin, Westeros!history, Westeros!settings
    <2>2. CASE ~follows
      BY <2>2 DEF Westeros!Decide, Westeros!history, Westeros!settings, WstTypes
    <2> QED  BY <2>1, <2>2
  <1>2. CASE change' = change /\ at' = [at EXCEPT !["player"] = "rest"] /\ UNCHANGED stale
    BY <1>1, <1>2, WstQuiet
  <1>3. CASE /\ change' = FALSE /\ at' = [at EXCEPT !["player"] = "compute"]
             /\ stale' = Westeros!Busy("dispatch")
    <2>1. WstTypes'
      BY <1>1, <1>3, TwoThreads DEF WstTypes, Stages, Westeros!Update, Westeros!Busy
    <2>2. at'["dispatch"] = at["dispatch"] /\ at'["player"] = "compute"
      BY <1>3, TwoThreads DEF WstTypes
    <2>3. StaleInv' /\ ModeInv' /\ WindowInv'
      BY <1>1, <1>3, <2>2, TwoThreads DEF WstTypes, StaleInv, ModeInv, WindowInv, Working, Westeros!Busy
    <2>4. PositionInv'
      BY <1>1, <1>3, <2>2, TwoThreads DEF PositionInv, Working, Westeros!Busy
    <2>5. MineInv' /\ SendInv'
      BY <1>1, <1>3, TwoThreads, SendsMove DEF Westeros!Requests
    <2> QED  BY <2>1, <2>3, <2>4, <2>5
  <1> QED  BY <1>1, <1>2, <1>3

LEMMA WstDisplayFrame == ASSUME WstIInv, Westeros!DisplayFrame PROVE WstIInv'
  <1> USE DEF WstIInv, Computed, Writing, Westeros!history, Westeros!settings
  <1>1. /\ at["player"] = "rest" /\ connected
        /\ UNCHANGED <<connected, mine, wstWindow, override, transform, wstVideo, saved, told, geometry,
                       asked, spoiled, overtaken>>
        /\ change' = FALSE
        /\ \/ change /\ at' = [at EXCEPT !["player"] = "first compute"] /\ stale' = Westeros!Busy("dispatch")
           \/ ~change /\ at' = [at EXCEPT !["player"] = "bounds"] /\ UNCHANGED stale
    BY TwoThreads DEF Westeros!DisplayFrame, Westeros!Idle, Westeros!Begin, Westeros!BeginBounds
  <1>2. CASE ~change
    BY <1>1, <1>2, WstQuiet DEF WstTypes
  <1>3. CASE change
    <2>1. WstTypes'
      BY <1>1, <1>3, TwoThreads DEF WstTypes, Stages, Westeros!Bounds, Westeros!Busy
    <2>2. /\ at'["dispatch"] = at["dispatch"] /\ at'["player"] = "first compute"
          /\ stale' = Westeros!Busy("dispatch")
      BY <1>1, <1>3, TwoThreads DEF WstTypes
    <2>3. StaleInv'
      BY <1>1, <2>2, TwoThreads DEF WstTypes, StaleInv, Working, Westeros!Busy
    <2>4. ModeInv' /\ WindowInv'
      BY <1>1, <1>3, TwoThreads DEF WstTypes, ModeInv, WindowInv, Westeros!Busy
    <2>5. PositionInv'
      BY <1>1, <2>2, TwoThreads DEF PositionInv, Working, Westeros!Busy
    <2>6. MineInv' /\ SendInv'
      BY <1>1, <1>3, TwoThreads, SendsMove DEF Westeros!Requests
    <2> QED  BY <2>1, <2>3, <2>4, <2>5, <2>6
  <1> QED  BY <1>2, <1>3

LEMMA WstConnects == ASSUME WstIInv, Westeros!Connect \/ Westeros!Disconnect PROVE WstIInv'
  <1> USE DEF WstIInv, Westeros!history, Westeros!settings
  <1>1. /\ UNCHANGED <<at, mine, wstWindow, override, change, transform, wstVideo, saved, asked,
                       spoiled, stale>>
        /\ told' \in {told, None} /\ connected' \in BOOLEAN
        /\ connected' => geometry' = wstWindow /\ overtaken' = FALSE
        /\ overtaken' \in BOOLEAN
        /\ at["player"] = "rest" /\ at["dispatch"] = "rest"
    <2>1. CASE Westeros!Connect
      BY <2>1 DEF Westeros!Connect, Westeros!Idle, WindowInv
    <2>2. CASE Westeros!Disconnect
      BY <2>2 DEF Westeros!Disconnect, Westeros!Idle, WstTypes
    <2> QED  BY <2>1, <2>2
  <1>2. WstTypes' /\ StaleInv' /\ ModeInv' /\ WindowInv'
    BY <1>1 DEF WstTypes, StaleInv, ModeInv, WindowInv, Working
  <1>3. Lasting' = Lasting /\ Knows' = Knows /\ Target' = Target
    BY <1>1, SameTarget DEF Lasting, Knows, Restoring
  <1>4. \A t \in Westeros!Threads : Working(t)' <=> Working(t)
    BY <1>1 DEF Working
  <1>5. PositionInv'
    BY <1>1, <1>3, <1>4 DEF PositionInv
  <1>6. MineInv' /\ SendInv'
    <2>1. \A t \in Westeros!Threads : ~Westeros!Sending(t)'
      BY <1>1, TwoThreads DEF Westeros!Sending, Westeros!Requests
    <2> QED  BY <1>1, <2>1 DEF MineInv, SendInv
  <1> QED  BY <1>2, <1>5, <1>6

LEMMA WstCompute ==
  ASSUME WstIInv, NEW t \in Westeros!Threads, Westeros!Compute(t)
  PROVE  WstIInv'
  <1> USE DEF WstIInv, Computed, Writing, Westeros!history, Westeros!settings
  <1>1. /\ UNCHANGED <<connected, wstWindow, override, change, transform, wstVideo, saved, told,
                       geometry, asked, spoiled, overtaken, stale>>
        /\ Knows => mine' = [mine EXCEPT ![t] = Target]
        /\ \E r : mine' = [mine EXCEPT ![t] = r]
        /\ \/ at[t] = "compute" /\ at' = [at EXCEPT ![t] = "write"]
           \/ at[t] = "first compute" /\ at' = [at EXCEPT ![t] = "first write"]
    BY DEF Westeros!Compute, Knows, Westeros!Known, Target
  <1>2. WstTypes'
    BY <1>1, TwoThreads DEF WstTypes, Stages, Westeros!Update, Westeros!Bounds
  <1>3. /\ at'[t] \in Writing /\ Working(t) /\ (at'[t] = "first write" => at[t] = "first compute")
        /\ \A u \in Westeros!Threads \ {t} : at'[u] = at[u] /\ mine'[u] = mine[u]
        /\ Knows => mine'[t] = Target
    BY <1>1 DEF WstTypes, Working
  <1>4. StaleInv' /\ ModeInv' /\ WindowInv'
    BY <1>1, <1>3, TwoThreads DEF StaleInv, ModeInv, WindowInv, Working
  <1>5. Knows' = Knows /\ Target' = Target
    BY <1>1, SameTarget DEF Knows
  <1>6. PositionInv'
    BY <1>1, <1>3, <1>5 DEF PositionInv, Working
  <1>7. MineInv' /\ SendInv'
    <2>1. at[t] \notin Westeros!Requests /\ at'[t] \notin Westeros!Requests
      BY <1>1, <1>3 DEF Westeros!Requests
    <2> QED  BY <1>1, <1>3, <2>1 DEF MineInv, SendInv, Westeros!Sending
  <1> QED  BY <1>2, <1>4, <1>6, <1>7

LEMMA WstWrite ==
  ASSUME WstIInv, NEW t \in Westeros!Threads, Westeros!Write(t)
  PROVE  WstIInv'
  <1> USE DEF WstIInv, Computed, Writing, Westeros!history, Westeros!settings
  <1>1. /\ UNCHANGED <<connected, wstWindow, override, change, transform, saved, geometry, asked,
                       spoiled, overtaken, stale>>
        /\ wstVideo' = mine[t] /\ told' = mine[t] /\ mine' = [mine EXCEPT ![t] = None]
        /\ \/ at[t] = "write" /\ at' = [at EXCEPT ![t] = "rest"]
           \/ at[t] = "first write" /\ at' = [at EXCEPT ![t] = "bounds"]
    BY DEF Westeros!Write
  <1>2. WstTypes'
    BY <1>1, TwoThreads DEF WstTypes, Stages, Westeros!Update, Westeros!Bounds
  <1>3. /\ at[t] \in Writing /\ Working(t) /\ ~Working(t)'
        /\ at'[t] \in {"rest", "bounds"} /\ (at'[t] = "bounds" <=> at[t] = "first write")
        /\ \A u \in Westeros!Threads \ {t} : at'[u] = at[u] /\ mine'[u] = mine[u]
    BY <1>1 DEF WstTypes, Working
  <1>4. StaleInv' /\ ModeInv' /\ WindowInv'
    BY <1>1, <1>3, TwoThreads DEF StaleInv, ModeInv, WindowInv, Working
  <1>5. Knows' = Knows /\ Target' = Target
    BY <1>1, SameTarget DEF Knows
  <1>6. ~stale => ~Restoring'
    BY <1>3, TwoThreads DEF StaleInv, Restoring, Working
  <1>7. PositionInv'
    BY <1>1, <1>3, <1>5, <1>6 DEF PositionInv, Lasting
  <1>8. MineInv' /\ SendInv'
    <2>1. at[t] \notin Westeros!Requests /\ at'[t] \notin Westeros!Requests /\ mine'[t] = None
      BY <1>1, <1>3 DEF Westeros!Requests, WstTypes
    <2> QED  BY <1>1, <1>3, <2>1 DEF MineInv, SendInv, Westeros!Sending
  <1> QED  BY <1>2, <1>4, <1>7, <1>8

LEMMA WstXform ==
  ASSUME WstIInv, NEW x, Westeros!XformChange(x)
  PROVE  WstIInv'
  <1> USE DEF WstIInv, Computed, Writing, Westeros!history, Westeros!settings
  <1>1. /\ UNCHANGED <<connected, mine, wstWindow, override, change, geometry, asked, spoiled,
                       overtaken>>
        /\ connected /\ at["dispatch"] = "rest" /\ at' = [at EXCEPT !["dispatch"] = "compute"]
        /\ stale' = Westeros!Busy("player")
    BY TwoThreads DEF Westeros!XformChange, Westeros!Dispatches, Westeros!Begin
  <1>2. WstTypes'
    BY <1>1, TwoThreads DEF WstTypes, Stages, Westeros!Update, Westeros!Busy
  <1>3. at'["player"] = at["player"] /\ at'["dispatch"] = "compute"
    BY <1>1, TwoThreads DEF WstTypes
  <1>4. StaleInv' /\ ModeInv' /\ WindowInv' /\ PositionInv'
    BY <1>1, <1>3, TwoThreads DEF StaleInv, ModeInv, WindowInv, PositionInv, Working,
       Westeros!Busy
  <1>5. MineInv' /\ SendInv'
    BY <1>1, TwoThreads, SendsMove DEF Westeros!Requests
  <1> QED  BY <1>2, <1>4, <1>5

LEMMA SameSize ==
  ASSUME NEW r \in Rects, NEW w, NEW h, r.w = w, r.h = h
  PROVE  [r EXCEPT !.w = w, !.h = h] = r
  BY DEF Rects

LEMMA WstModeWrites == ASSUME WstIInv, Westeros!OutputModeWrites PROVE WstIInv'
  <1> USE DEF WstIInv, Computed, Writing
  <1>1. /\ UNCHANGED <<connected, mine, override, change, transform, wstVideo, saved, told, geometry,
                       asked, spoiled, stale>>
        /\ wstWindow' = [wstWindow EXCEPT !.w = Westeros!Display.w, !.h = Westeros!Display.h]
        /\ overtaken' = Westeros!Sending("player")
        /\ at["dispatch"] = "mode" /\ at' = [at EXCEPT !["dispatch"] = "tell"]
    BY TwoThreads DEF Westeros!OutputModeWrites, Westeros!Overtakes
  <1>2. ~override => wstWindow' = wstWindow
    <2>1. Westeros!Display \in Rects
      BY DEF Westeros!Display, Westeros!Rect, Rects
    <2> QED  BY <1>1, <2>1, SameSize DEF WindowInv
  <1>3. WstTypes'
    <2>1. overtaken' \in BOOLEAN
      BY <1>1 DEF Westeros!Sending
    <2> QED  BY <1>1, <2>1, TwoThreads DEF WstTypes, Stages, Westeros!Requests
  <1>4. at'["player"] = at["player"] /\ at'["dispatch"] = "tell"
    BY <1>1, TwoThreads DEF WstTypes
  <1>5. StaleInv' /\ ModeInv' /\ WindowInv'
    BY <1>1, <1>2, <1>4, TwoThreads DEF StaleInv, ModeInv, WindowInv, Working
  <1>6. ASSUME ~change, ~stale PROVE Target' = Target /\ Knows' = Knows /\ Lasting' = Lasting
    BY <1>1, <1>2, <1>4, <1>6, SameTarget DEF ModeInv, Knows, Lasting, Restoring
  <1>7. PositionInv'
    BY <1>1, <1>4, <1>6, TwoThreads DEF PositionInv, Working
  <1>8. MineInv' /\ SendInv'
    <2>1. mine["dispatch"] = None
      BY <1>1, TwoThreads DEF MineInv, Westeros!Requests
    <2>2. MineInv'
      BY <1>1, <1>4, <2>1, TwoThreads DEF MineInv
    <2>3. ~Westeros!Sending("dispatch")' /\ (Westeros!Sending("player")' <=> Westeros!Sending("player"))
      BY <1>1, <1>4, <2>1 DEF Westeros!Sending
    <2>4. at'["dispatch"] \in Westeros!Requests
      BY <1>4 DEF Westeros!Requests
    <2> QED  BY <1>1, <2>2, <2>3, <2>4, TwoThreads DEF SendInv
  <1> QED  BY <1>3, <1>5, <1>7, <1>8

LEMMA WstStatus == ASSUME WstIInv, Westeros!ShellSurfaceStatus PROVE WstIInv'
  BY SendsStay DEF Westeros!ShellSurfaceStatus, Westeros!history, Westeros!settings, WstIInv, WstTypes,
         StaleInv, ModeInv, WindowInv, PositionInv, Working

LEMMA WstPathChange == ASSUME WstIInv, Westeros!VideoPathChange PROVE WstIInv'
  <1> USE DEF WstIInv, Computed, Writing, Westeros!history, Westeros!settings
  <1>1. /\ UNCHANGED <<connected, mine, wstWindow, override, transform, told, geometry, asked, spoiled,
                       overtaken>>
        /\ connected /\ at["dispatch"] = "rest" /\ saved' = wstVideo
    BY DEF Westeros!VideoPathChange, Westeros!Dispatches
  <1>0. \/ change /\ change' = FALSE /\ stale' = TRUE /\ at' = [at EXCEPT !["dispatch"] = "first compute"]
        \/ /\ stale' = (stale \/ Westeros!Busy("player")) /\ change' = change /\ (~change' => ~change)
           /\ \/ at' = [at EXCEPT !["dispatch"] = "bounds"]
              \/ at' = [at EXCEPT !["dispatch"] = "restore"]
    <2>1. CASE wstFrame.w > 0 /\ wstFrame.h > 0
      <3>1. CASE change
        BY <2>1, <3>1 DEF Westeros!VideoPathChange, Westeros!BeginBounds
      <3>2. CASE ~change
        BY <2>1, <3>2, TwoThreads DEF Westeros!VideoPathChange, Westeros!BeginBounds,
           Westeros!Meanwhile, WstTypes
      <3> QED  BY <3>1, <3>2
    <2>2. CASE ~(wstFrame.w > 0 /\ wstFrame.h > 0)
      BY <2>2, TwoThreads DEF Westeros!VideoPathChange, Westeros!Meanwhile
    <2> QED  BY <2>1, <2>2
  <1>2. WstTypes'
    BY <1>1, <1>0, TwoThreads DEF WstTypes, Stages, Westeros!Bounds, Westeros!Busy
  <1>3. /\ at'["player"] = at["player"] /\ at'["dispatch"] \in {"first compute", "bounds", "restore"}
        /\ ~stale' => at'["dispatch"] \in {"bounds", "restore"} /\ ~Westeros!Busy("player")
                       /\ ~stale /\ (~change' => ~change)
    BY <1>1, <1>0, TwoThreads DEF WstTypes
  <1>4. StaleInv' /\ ModeInv' /\ WindowInv'
    BY <1>1, <1>3, TwoThreads DEF StaleInv, ModeInv, WindowInv, Working, Westeros!Busy
  <1>5. ASSUME ~stale' PROVE Target' = Target /\ (Knows' <=> Knows) /\ Lasting' = Lasting
    BY <1>1, <1>3, <1>5, SameTarget DEF Knows, Lasting, Restoring
  <1>6. PositionInv'
    <2>1. ~stale' => \A t \in Westeros!Threads : ~Working(t)'
      BY <1>1, <1>3, TwoThreads DEF Working, Westeros!Busy
    <2>2. ~stale' => \A t \in Westeros!Threads : ~Working(t)
      BY <1>1, <1>3, TwoThreads DEF Working, Westeros!Busy
    <2>3. \A t \in Westeros!Threads : at'[t] \in Writing => Working(t)'
      BY DEF Working
    <2>4. ASSUME Knows', ~change', ~stale'
          PROVE  /\ \A t \in Westeros!Threads : ~(at'[t] \in Writing)
                 /\ Lasting' = Target' /\ told' \in {Lasting', None}
      <3>1. Knows  BY <1>5, <2>4
      <3>2. ~change /\ ~stale  BY <1>3, <2>4
      <3>3. Lasting = Target /\ told \in {Lasting, None}  BY <2>2, <2>4, <3>1, <3>2 DEF PositionInv
      <3> QED  BY <1>1, <1>5, <2>1, <2>3, <2>4, <3>3
    <2> QED  BY <2>4 DEF PositionInv
  <1>7. MineInv' /\ SendInv'
    BY <1>1, <1>0, TwoThreads, SendsMove DEF Westeros!Requests
  <1> QED  BY <1>2, <1>4, <1>6, <1>7

LEMMA WstRestore == ASSUME WstIInv, Westeros!Restore PROVE WstIInv'
  <1> USE DEF WstIInv, Computed, Writing, Westeros!history, Westeros!settings
  <1>1. /\ UNCHANGED <<connected, mine, wstWindow, override, change, transform, told, geometry, asked,
                       spoiled, overtaken, stale>>
        /\ wstVideo' = saved
        /\ at["dispatch"] = "restore" /\ at' = [at EXCEPT !["dispatch"] = "rest"]
    BY DEF Westeros!Restore
  <1>2. WstTypes'
    BY <1>1, TwoThreads DEF WstTypes, Stages
  <1>3. at'["player"] = at["player"] /\ at'["dispatch"] = "rest"
    BY <1>1, TwoThreads DEF WstTypes
  <1>4. StaleInv' /\ ModeInv' /\ WindowInv'
    BY <1>1, <1>3, TwoThreads DEF StaleInv, ModeInv, WindowInv, Working
  <1>5. Target' = Target /\ Knows' = Knows /\ Lasting' = Lasting
    BY <1>1, <1>3, SameTarget DEF Knows, Lasting, Restoring
  <1>6. PositionInv'
    BY <1>1, <1>3, <1>5, TwoThreads DEF PositionInv, Working
  <1>7. MineInv' /\ SendInv'
    BY <1>1, TwoThreads, SendsMove DEF Westeros!Requests
  <1> QED  BY <1>2, <1>4, <1>6, <1>7

\* A window read for a request, and the request sent.
LEMMA WstReads ==
  ASSUME WstIInv, NEW t \in Westeros!Threads, Westeros!ReadWindow(t)
  PROVE  WstIInv'
  <1> USE DEF WstIInv, Computed, Writing, Westeros!history, Westeros!settings
  <1>1. /\ UNCHANGED <<connected, at, wstWindow, override, change, transform, wstVideo, saved, told,
                       geometry, asked, spoiled, stale>>
        /\ at[t] \in Westeros!Requests /\ mine[t] = None /\ mine' = [mine EXCEPT ![t] = wstWindow]
        /\ overtaken' = (overtaken /\ Westeros!Sending(Westeros!Other(t)))
    BY DEF Westeros!ReadWindow
  <1>2. at[t] \notin Writing /\ mine'[t] = wstWindow
        /\ \A u \in Westeros!Threads \ {t} : mine'[u] = mine[u] /\ u = Westeros!Other(t)
    BY <1>1, TwoThreads DEF WstTypes, Westeros!Requests
  <1>3. WstTypes'
    BY <1>1, <1>2 DEF WstTypes, Westeros!Sending
  <1>4. StaleInv' /\ ModeInv' /\ WindowInv'
    BY <1>1 DEF StaleInv, ModeInv, WindowInv, Working
  <1>5. Target' = Target /\ Knows' = Knows /\ Lasting' = Lasting
    BY <1>1, SameTarget DEF Knows, Lasting, Restoring
  <1>6. PositionInv'
    BY <1>1, <1>2, <1>5 DEF PositionInv, Working
  <1>7. MineInv' /\ SendInv'
    <2>1. MineInv'
      BY <1>1, <1>2 DEF MineInv
    <2>2. \A u \in Westeros!Threads \ {t} : Westeros!Sending(u)' <=> Westeros!Sending(u)
      BY <1>1, <1>2 DEF Westeros!Sending
    <2> QED  BY <1>1, <1>2, <2>1, <2>2 DEF SendInv
  <1> QED  BY <1>3, <1>4, <1>6, <1>7

LEMMA WstSends ==
  ASSUME WstIInv, NEW t \in Westeros!Threads, Westeros!SendGeometry(t)
  PROVE  WstIInv'
  <1> USE DEF WstIInv, Computed, Writing, Westeros!history, Westeros!settings
  <1>1. /\ UNCHANGED <<connected, wstWindow, override, change, transform, wstVideo, saved, told,
                       asked, spoiled, overtaken, stale>>
        /\ Westeros!Sending(t) /\ geometry' = mine[t] /\ mine' = [mine EXCEPT ![t] = None]
        /\ at' = [at EXCEPT ![t] = Westeros!After[t][at[t]]]
    BY DEF Westeros!SendGeometry
  <1>2. /\ at[t] \in Westeros!Requests /\ mine'[t] = None
        /\ \A u \in Westeros!Threads \ {t} : mine'[u] = mine[u] /\ at'[u] = at[u]
    BY <1>1 DEF WstTypes, Westeros!Sending
  <1>3. \/ t = "player" /\ at[t] = "tell" /\ at'[t] = "decide"
        \/ t = "player" /\ at[t] = "ratio" /\ at'[t] = "rest"
        \/ t = "dispatch" /\ at[t] = "tell" /\ at'[t] = "rest"
        \/ t = "dispatch" /\ at[t] = "ratio" /\ at'[t] = "crop"
        \/ t = "dispatch" /\ at[t] = "crop" /\ at'[t] = "restore"
    <2>1. at'[t] = Westeros!After[t][at[t]]
      BY <1>1 DEF WstTypes
    <2>2. CASE t = "player"
      BY <1>2, <2>1, <2>2 DEF WstTypes, Westeros!After, Westeros!Requests
    <2>3. CASE t = "dispatch"
      BY <1>2, <2>1, <2>3 DEF Westeros!After, Westeros!Requests
    <2> QED  BY <2>2, <2>3, TwoThreads
  <1>4. WstTypes'
    <2>1. at' \in [Westeros!Threads -> Stages]
      <3>1. at'[t] \in Stages  BY <1>3 DEF Stages, Westeros!Requests
      <3>2. at' = [at EXCEPT ![t] = at'[t]]  BY <1>1 DEF WstTypes
      <3> QED  BY <3>1, <3>2 DEF WstTypes
    <2>2. at'["player"] \notin {"mode", "crop", "restore"} /\ at'["dispatch"] # "decide"
      BY <1>2, <1>3, TwoThreads DEF WstTypes
    <2> QED  BY <1>1, <2>1, <2>2 DEF WstTypes
  <1>5. /\ \A u \in Westeros!Threads : (Working(u)' <=> Working(u)) /\ (at'[u] \in Writing <=> at[u] \in Writing)
        /\ Restoring' <=> Restoring
    BY <1>2, <1>3, TwoThreads DEF Working, Restoring
  <1>6. StaleInv' /\ ModeInv' /\ WindowInv'
    <2>1. StaleInv'
      BY <1>1, <1>2, <1>3, <1>5, TwoThreads DEF StaleInv, Working
    <2>2. ModeInv' /\ WindowInv'
      BY <1>1, <1>2, <1>3, TwoThreads DEF ModeInv, WindowInv
    <2> QED  BY <2>1, <2>2
  <1>7. Target' = Target /\ Knows' = Knows /\ Lasting' = Lasting
    BY <1>1, <1>5, SameTarget DEF Knows, Lasting
  <1>8. PositionInv'
    BY <1>1, <1>2, <1>3, <1>5, <1>7 DEF PositionInv
  <1>9. MineInv' /\ SendInv'
    <2>1. MineInv'
      BY <1>2 DEF MineInv
    <2>2. ~Westeros!Sending(t)'
          /\ \A u \in Westeros!Threads \ {t} : Westeros!Sending(u)' <=> Westeros!Sending(u)
      BY <1>1, <1>2 DEF Westeros!Sending
    <2> QED  BY <1>1, <1>2, <2>1, <2>2 DEF SendInv
  <1> QED  BY <1>4, <1>6, <1>8, <1>9

LEMMA WstNext == WstIInv /\ [Westeros!Next]_Westeros!vars => WstIInv'
  <1> SUFFICES ASSUME WstIInv, [Westeros!Next]_Westeros!vars PROVE WstIInv'
    OBVIOUS
  <1>1. CASE UNCHANGED Westeros!vars
    BY <1>1, WstQuiet DEF Westeros!vars, Westeros!history, Westeros!settings
  <1>2. CASE Westeros!PlayerStep
    BY <1>2, WstQuietSteps, WstConnects, WstDisplayFrame, WstSetWindow, WstDecide DEF Westeros!PlayerStep
  <1>3. CASE Westeros!DispatchStep
    BY <1>3, WstQuietSteps, WstModeWrites, WstStatus, WstPathChange, WstRestore, WstXform
       DEF Westeros!DispatchStep
  <1> QED  BY <1>1, <1>2, <1>3, WstQuietSteps, WstCompute, WstWrite, WstReads, WstSends DEF Westeros!Next

\* The invariant holds in every behaviour of the westeros part.
THEOREM WstInvariance == Westeros!Spec => []WstIInv
  BY WstInit, WstNext, PTL DEF Westeros!Spec

\* Once no call is under way and no change is left to the next frame, the video is
\* where the window and the transform put it (updateVideoPosition), and the server
\* and the compositor know it (573, 254, 778, 894), the histories telling when calls
\* of the two threads crossed.
THEOREM VideoSettles == Westeros!Spec => []SettlesRight
  <1>1. WstIInv => SettlesRight
    <2> SUFFICES ASSUME WstIInv, \A t \in Westeros!Threads : at[t] = "rest", ~change, Knows
                 PROVE  /\ ~stale => /\ wstVideo = Target /\ told \in {wstVideo, None}
                        /\ ~spoiled => wstWindow = asked
                        /\ connected /\ ~overtaken => geometry = wstWindow
      BY DEF SettlesRight, Westeros!SettlesRight, Westeros!Settled, Westeros!Known, Knows, Target
    <2>1. (\A t \in Westeros!Threads : ~Working(t)) /\ Lasting = wstVideo
      BY TwoThreads DEF Working, Computed, Writing, Lasting, Restoring
    <2>2. \A t \in Westeros!Threads : at[t] \notin Westeros!Requests
      BY DEF Westeros!Requests
    <2> QED  BY <2>1, <2>2 DEF WstIInv, PositionInv, WindowInv, SendInv
  <1> QED  BY <1>1, WstInvariance, PTL

-----------------------------------------------------------------------------
(* The behaviours of MCWestonDisplay. *)

\* A behaviour of the composition is one of each part, the others idle.
THEOREM PlacesAreBehaviours == PartsSpec => Spec /\ Westeros!Spec
  <1>1. PartsInit => Init /\ Westeros!Init  BY DEF PartsInit
  <1>2. [PartsNext]_allVars => [Next]_vars /\ [Westeros!Next]_Westeros!vars
    BY DEF PartsNext, allVars, westerosVars, Westeros!vars, Westeros!settings, Westeros!history
  <1> QED  BY <1>1, <1>2, PTL DEF PartsSpec, Spec, Westeros!Spec

\* So all of this holds of outputs, windows and pictures together.
THEOREM PlacesAreRight ==
  PartsSpec => []CurrentIsPlugged /\ []RenderFollows /\ []SettlesRight /\ (WindowsHaveWidth => []VideoFollows)
  BY PlacesAreBehaviours, AnOutputIsCurrent, RenderRectangleFollows, VideoSettles, PictureFollows,
     PTL
-----------------------------------------------------------------------------
(* The pictures.  Facts is the module VideoGeometry_proofs, about the same request. *)

Facts == INSTANCE VideoGeometry_proofs

LEMMA SameAnswers ==
  /\ \A src, dst, rd, sc : Geometry!CenterRects(src, dst, rd, sc) = Facts!CenterRects(src, dst, rd, sc)
  /\ \A w, rd : Geometry!Destination(w, rd) = Facts!Destination(w, rd)
  /\ \A r : Geometry!VideoOf(r) = Facts!VideoOf(r)
  <1>1. \A src, dst, rd, sc : Geometry!CenterRects(src, dst, rd, sc) = Facts!CenterRects(src, dst, rd, sc)
    BY DEF Geometry!CenterRects, Geometry!IsSmall, Geometry!Centred, Geometry!Least,
           Geometry!Wider, Geometry!FullWidth, Geometry!FullHeight, Geometry!Truncated,
           Geometry!Rect, Geometry!Quotient, Facts!CenterRects, Facts!IsSmall, Facts!Centred,
           Facts!Least, Facts!Wider, Facts!FullWidth, Facts!FullHeight, Facts!Truncated,
           Facts!Rect, Facts!Quotient
  <1>2. \A w, rd : Geometry!Destination(w, rd) = Facts!Destination(w, rd)
    BY DEF Geometry!Destination, Geometry!Rect, Facts!Destination, Facts!Rect
  <1>3. \A r : Geometry!VideoOf(r) = Facts!VideoOf(r)
    BY DEF Geometry!VideoOf, Geometry!VideoPosition, Geometry!Rect, Geometry!Quotient,
           Facts!VideoOf, Facts!VideoPosition, Facts!Rect, Facts!Quotient
  <1> QED  BY <1>1, <1>2, <1>3

LEMMA SameBounds ==
  \A r, v : Geometry!BoundsOf(r, v) = Facts!BoundsOf(r, v)
  BY DEF Geometry!BoundsOf, Geometry!VideoBounds, Geometry!ZoomOf, Geometry!Content,
         Geometry!Display, Geometry!ZoomRects, Geometry!SameRatio, Geometry!Is16By9,
         Geometry!Distance, Geometry!FillsWidth, Geometry!Centred, Geometry!Wider,
         Geometry!FullWidth, Geometry!FullHeight, Geometry!Truncated, Geometry!Rect,
         Geometry!Quotient, Facts!BoundsOf, Facts!VideoBounds, Facts!ZoomOf, Facts!Content,
         Facts!Display, Facts!ZoomRects, Facts!SameRatio, Facts!Is16By9, Facts!Distance,
         Facts!FillsWidth, Facts!Centred, Facts!Wider, Facts!FullWidth, Facts!FullHeight,
         Facts!Truncated, Facts!Rect, Facts!Quotient

LEMMA SameCrop ==
  \A v, w, d : Geometry!TextureCrop(v, w, d) = Facts!TextureCrop(v, w, d)
  <1>1. \A v, vl, w, wl : Geometry!CropOf(v, vl, w, wl) = Facts!CropOf(v, vl, w, wl)
    BY DEF Geometry!CropOf, Geometry!Quotient, Facts!CropOf, Facts!Quotient
  <1>2. \A v, vl, w, wl : /\ Geometry!ShownX(v, vl, w, wl) = Facts!ShownX(v, vl, w, wl)
                          /\ Geometry!ShownY(v, vl, w, wl) = Facts!ShownY(v, vl, w, wl)
    BY DEF Geometry!ShownX, Geometry!ShownY, Geometry!Shown, Geometry!Start,
           Facts!ShownX, Facts!ShownY, Facts!Shown, Facts!Start
  <1> QED  BY <1>1, <1>2 DEF Geometry!TextureCrop, Geometry!Leaves, Geometry!Rect,
                             Facts!TextureCrop, Facts!Leaves, Facts!Rect

LEMMA SameRequests == Geometry!Requests = Facts!Requests
  BY DEF Geometry!Requests, Geometry!FrameSizes, Geometry!Size, Geometry!Windows,
         Geometry!Renders, Geometry!Display, Geometry!Rect, Geometry!Pixels, Geometry!Zooms,
         Geometry!Identity, Geometry!Corner, Facts!Requests, Facts!FrameSizes, Facts!Size,
         Facts!Windows, Facts!Renders, Facts!Display, Facts!Rect, Facts!Pixels, Facts!Zooms,
         Facts!Identity, Facts!Corner

LEMMA SameShows ==
  /\ WestonShowsWhole <=> Facts!WestonShowsWhole
  /\ ZoomKeepsShape <=> Facts!ZoomKeepsShape
  /\ TextureShowsOverlap <=> Facts!TextureShowsOverlap
  <1>1. WestonShowsWhole <=> Facts!WestonShowsWhole
    BY SameAnswers
       DEF WestonShowsWhole, Geometry!WestonShowsWhole, Geometry!Inside, Geometry!InMiddle,
           Geometry!HasShape, Geometry!IsSmall, Geometry!Distance, Facts!WestonShowsWhole,
           Facts!Inside, Facts!InMiddle, Facts!HasShape, Facts!IsSmall, Facts!Distance
  <1>2. ZoomKeepsShape <=> Facts!ZoomKeepsShape
    BY SameAnswers
       DEF ZoomKeepsShape, Geometry!ZoomKeepsShape, Geometry!Inside, Geometry!InMiddle,
           Geometry!HasShape, Geometry!Distance, Geometry!ZoomOf, Geometry!Content,
           Geometry!Display, Geometry!Rect, Facts!ZoomKeepsShape, Facts!Inside, Facts!InMiddle,
           Facts!HasShape, Facts!Distance, Facts!ZoomOf, Facts!Content, Facts!Display, Facts!Rect
  <1>3. TextureShowsOverlap <=> Facts!TextureShowsOverlap
    BY DEF TextureShowsOverlap, Geometry!TextureShowsOverlap, Geometry!Leaves, Geometry!Overlap,
           Geometry!NearTo, Geometry!Distance, Geometry!Least, Geometry!Display, Geometry!Rect,
           Facts!TextureShowsOverlap, Facts!Leaves, Facts!Overlap, Facts!NearTo, Facts!Distance,
           Facts!Least, Facts!Display, Facts!Rect
  <1> QED  BY <1>1, <1>2, <1>3

\* A behaviour of the composition makes at most one request.
LEMMA PartsAreRequests == PartsSpec => Facts!Spec
  <1>1. PartsInit => Facts!Init
    <2>1. AnyRequest \in Geometry!Requests
      <3>1. \E r : r \in Geometry!Requests
        <4> DEFINE r == [plugin |-> "weston", frame |-> Geometry!Size(0, 0), window |-> Geometry!Display,
                         render |-> Geometry!Display, scaling |-> TRUE]
        <4>1. r \in Geometry!Requests
          BY DEF Geometry!Requests, Geometry!Windows, Geometry!Renders, Geometry!Display
        <4> QED  BY <4>1
      <3> QED  BY <3>1 DEF AnyRequest
    <2> QED  BY <2>1, SameRequests DEF PartsInit, Geometry!Init, Facts!Init
  <1>2. [PartsNext]_allVars => [Facts!Next]_Facts!vars
    <2> SUFFICES ASSUME [PartsNext]_allVars PROVE [Facts!Next]_Facts!vars
      OBVIOUS
    <2>1. CASE UNCHANGED requestVars
      BY <2>1 DEF requestVars, Facts!vars
    <2>2. CASE Geometry!ResizeVideoSurface
      BY <2>2, SameAnswers DEF Geometry!ResizeVideoSurface, Facts!ResizeVideoSurface, Facts!Next
    <2>3. CASE Geometry!ShowFrame
      BY <2>3, SameAnswers, SameBounds, SameCrop
         DEF Geometry!ShowFrame, Geometry!Display, Geometry!Rect, Facts!ShowFrame, Facts!Next,
            Facts!Display, Facts!Rect
    <2> QED  BY <2>1, <2>2, <2>3 DEF PartsNext, Geometry!Next, allVars, requestVars
  <1> QED  BY <1>1, <1>2, PTL DEF PartsSpec, Facts!Spec

\* The picture of a frame, and its texture, are where they should be (videoCenterRect,
\* getVideoBounds, setTextureCrop).
THEOREM PicturesAreRight == PartsSpec => [](WestonShowsWhole /\ ZoomKeepsShape /\ TextureShowsOverlap)
  <1>1. Facts!Spec => [](Facts!WestonShowsWhole /\ Facts!ZoomKeepsShape /\ Facts!TextureShowsOverlap)
    BY CropAssumption, Facts!PicturesFit
  <1> QED  BY <1>1, SameShows, PartsAreRequests, PTL

\* The rectangle of videoCenterRect is in the destination, whole and in the middle.
THEOREM WestonPictureIsWhole == PartsSpec => []WestonShowsWhole
  BY PicturesAreRight, PTL

\* The rectangle of getVideoBounds keeps the shape the zoom mode asks for.
THEOREM ZoomedPictureKeepsShape == PartsSpec => []ZoomKeepsShape
  BY PicturesAreRight, PTL

\* A texture is cut (setTextureCrop) to what of the video is on the display.
THEOREM TextureIsOverlap == PartsSpec => []TextureShowsOverlap
  BY PicturesAreRight, PTL
=============================================================================
