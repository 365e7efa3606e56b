--------------------------- MODULE UfExtract_proofs ---------------------------
(***************************************************************************)
(* Theorems about UfExtract and UfBundler for any messages, sizes, runs    *)
(* and troubles: zips keep the limits, publish a message once, and lack    *)
(* none, and a row names the deployment.                                   *)
(***************************************************************************)
EXTENDS UfExtract, FiniteSetTheorems, TLAPS

-----------------------------------------------------------------------------
(* Induction over sets of messages, and recursion along their order.       *)

\* What holds of a set of messages when it holds of all its proper subsets,
\* holds of all of them.
LEMMA SubsetInduction ==
  ASSUME NEW G,
         \A T \in SUBSET Messages :
           (\A U \in SUBSET T : U # T => U \in G) => T \in G
  PROVE  SUBSET Messages \subseteq G
<1> DEFINE Others == {T \in SUBSET Messages : T \notin G}
<1>1. SUFFICES ASSUME Others # {} PROVE FALSE
  OBVIOUS
<1>2. FiniteSubsetsOf(Messages) = SUBSET Messages
  BY MessagesAssumption, FS_FiniteSubsetsOfFinite
<1>3. IsWellFoundedOn(StrictSubsetOrdering(Messages), SUBSET Messages)
  BY <1>2, FS_StrictSubsetOrderingWellFounded
<1>4. PICK T \in Others :
        \A U \in Others : ~ (<<U, T>> \in StrictSubsetOrdering(Messages))
  <2>1. Others \subseteq SUBSET Messages
    OBVIOUS
  <2> HIDE DEF Others
  <2>2. QED
    BY <1>1, <1>3, <2>1, WFMin
<1>5. \A U \in SUBSET T : U # T => U \in G
  BY <1>4 DEF StrictSubsetOrdering
<1>6. QED
  BY <1>4, <1>5

\* A set of messages has a greatest one.
LEMMA MaxIsGreatest ==
  ASSUME NEW T \in SUBSET Messages, T # {}
  PROVE  Max(T) \in T /\ \A m \in T : m <= Max(T)
<1> DEFINE G == {U \in SUBSET Messages :
                   U # {} => \E x \in U : \A y \in U : x >= y}
<1>1. ASSUME NEW U \in SUBSET Messages,
             \A V \in SUBSET U : V # U => V \in G, U # {}
      PROVE  \E x \in U : \A y \in U : x >= y
  <2>1. PICK m \in U : TRUE
    BY <1>1
  <2>2. CASE U = {m}
    BY <2>2, MessagesAssumption
  <2>3. CASE U # {m}
    <3>1. U \ {m} \in G /\ U \ {m} # {}
      BY <1>1, <2>1, <2>3
    <3>2. PICK x \in U \ {m} : \A y \in U \ {m} : x >= y
      BY <3>1
    <3>3. CASE x >= m
      BY <3>2, <3>3
    <3>4. CASE ~ (x >= m)
      BY <2>1, <3>2, <3>4, MessagesAssumption
    <3>5. QED
      BY <3>3, <3>4
  <2>4. QED
    BY <2>2, <2>3
<1>2. SUBSET Messages \subseteq G
  <2>1. \A U \in SUBSET Messages :
          (\A V \in SUBSET U : V # U => V \in G) => U \in G
    BY <1>1
  <2> HIDE DEF G
  <2>2. QED
    BY <2>1, SubsetInduction
<1>3. \E x \in T : \A y \in T : x >= y
  BY <1>2
<1>4. QED
  BY <1>3, MessagesAssumption DEF Max

\* g is defined by recursion along the order of the messages.
Recurs(g, b, D) ==
  \A T \in SUBSET Messages :
    g[T] = IF T = {} THEN b ELSE D[<<g[T \ {Max(T)}], Max(T)>>]

\* Such a function exists.
LEMMA Recursion ==
  ASSUME NEW X, NEW b \in X, NEW D \in [X \X Messages -> X]
  PROVE  \E g \in [SUBSET Messages -> X] : Recurs(g, b, D)
<1> DEFINE Solves(g, T) ==
             /\ g \in [SUBSET T -> X]
             /\ \A U \in SUBSET T :
                  g[U] = IF U = {} THEN b ELSE D[<<g[U \ {Max(U)}], Max(U)>>]
           G == {T \in SUBSET Messages : \E g : Solves(g, T)}
<1>1. ASSUME NEW T \in SUBSET Messages,
             \A U \in SUBSET T : U # T => U \in G
      PROVE  \E g : Solves(g, T)
  <2>1. CASE T = {}
    <3>1. Solves([U \in SUBSET T |-> b], T)
      BY <2>1
    <3>2. QED
      BY <3>1
  <2>2. CASE T # {}
    <3> DEFINE m == Max(T)
               R == T \ {m}
    <3>1. m \in T /\ m \in Messages
      BY <2>2, MaxIsGreatest
    <3>2. PICK h : Solves(h, R)
      <4>1. R \in SUBSET T /\ R # T
        BY <3>1
      <4>2. R \in G
        <5> HIDE DEF G, R
        <5>1. QED
          BY <1>1, <4>1
      <4>3. QED
        BY <4>2
    <3> DEFINE g == [U \in SUBSET T |->
                       IF m \in U THEN D[<<h[U \ {m}], m>>] ELSE h[U]]
    <3>3. g \in [SUBSET T -> X]
      <4>1. \A U \in SUBSET T : m \in U => U \ {m} \in SUBSET R
        OBVIOUS
      <4>2. \A U \in SUBSET T : m \notin U => U \in SUBSET R
        OBVIOUS
      <4>3. QED
        BY <3>1, <3>2, <4>1, <4>2
    <3>4. ASSUME NEW U \in SUBSET T
          PROVE  g[U] = IF U = {} THEN b ELSE D[<<g[U \ {Max(U)}], Max(U)>>]
      <4>1. CASE m \in U
        <5>1. Max(U) \in U /\ \A x \in U : x <= Max(U)
          BY <4>1, MaxIsGreatest
        <5>2. Max(U) = m
          <6>1. m <= Max(U) /\ Max(U) <= m
            BY <4>1, <5>1, <2>2, MaxIsGreatest
          <6>2. m \in Nat /\ Max(U) \in Nat
            BY <3>1, <5>1, MessagesAssumption
          <6> HIDE DEF m
          <6>3. QED
            BY <6>1, <6>2
        <5>3. g[U] = D[<<h[U \ {m}], m>>] /\ g[U \ {m}] = h[U \ {m}]
          BY <4>1
        <5> HIDE DEF g, m
        <5>4. QED
          BY <4>1, <5>2, <5>3
      <4>2. CASE m \notin U
        <5>1. U \in SUBSET R /\ U \ {Max(U)} \in SUBSET R
          BY <4>2
        <5>2. g[U] = h[U] /\ g[U \ {Max(U)}] = h[U \ {Max(U)}]
          BY <4>2
        <5> HIDE DEF g, m, R
        <5>3. QED
          BY <3>2, <5>1, <5>2
      <4>3. QED
        BY <4>1, <4>2
    <3>5. Solves(g, T)
      BY <3>3, <3>4
    <3>6. QED
      BY <3>5
  <2>3. QED
    BY <2>1, <2>2
<1>2. SUBSET Messages \subseteq G
  <2>1. \A T \in SUBSET Messages :
          (\A U \in SUBSET T : U # T => U \in G) => T \in G
    BY <1>1
  <2> HIDE DEF G
  <2>2. QED
    BY <2>1, SubsetInduction
<1>3. PICK g : Solves(g, Messages)
  BY <1>2
<1>4. QED
  BY <1>3 DEF Recurs

\* InOrder is what its definition says, and lists messages of the set.
LEMMA InOrderUnfolds ==
  InOrder = [T \in SUBSET Messages |->
               IF T = {} THEN <<>>
               ELSE Append(InOrder[T \ {Max(T)}], Max(T))]
<1> DEFINE X == Seq(Messages)
           D == [p \in X \X Messages |-> Append(p[1], p[2])]
<1>1. D \in [X \X Messages -> X] /\ <<>> \in X
  OBVIOUS
<1>2. PICK g \in [SUBSET Messages -> X] : Recurs(g, <<>>, D)
  <2> HIDE DEF X, D
  <2>1. QED
    BY <1>1, Recursion
<1>3. \A T \in SUBSET Messages : T # {} =>
        D[<<g[T \ {Max(T)}], Max(T)>>] = Append(g[T \ {Max(T)}], Max(T))
  BY MaxIsGreatest
<1>4. g = [T \in SUBSET Messages |->
             IF T = {} THEN <<>> ELSE Append(g[T \ {Max(T)}], Max(T))]
  <2> HIDE DEF D
  <2>1. QED
    BY <1>2, <1>3 DEF Recurs
<1>5. QED
  BY <1>4 DEF InOrder

LEMMA InOrderLists ==
  ASSUME NEW T \in SUBSET Messages
  PROVE  InOrder[T] \in Seq(T)
<1> DEFINE G == {U \in SUBSET Messages : InOrder[U] \in Seq(U)}
<1>1. ASSUME NEW U \in SUBSET Messages,
             \A V \in SUBSET U : V # U => V \in G
      PROVE  InOrder[U] \in Seq(U)
  <2>1. CASE U = {}
    BY <2>1, InOrderUnfolds
  <2>2. CASE U # {}
    <3>1. Max(U) \in U
      BY <2>2, MaxIsGreatest
    <3>2. InOrder[U \ {Max(U)}] \in Seq(U \ {Max(U)})
      BY <1>1, <3>1
    <3>3. InOrder[U] = Append(InOrder[U \ {Max(U)}], Max(U))
      BY <2>2, InOrderUnfolds
    <3>4. InOrder[U \ {Max(U)}] \in Seq(U)
      BY <3>2
    <3>5. QED
      BY <3>1, <3>3, <3>4
  <2>3. QED
    BY <2>1, <2>2
<1>2. SUBSET Messages \subseteq G
  <2>1. \A U \in SUBSET Messages :
          (\A V \in SUBSET U : V # U => V \in G) => U \in G
    BY <1>1
  <2> HIDE DEF G
  <2>2. QED
    BY <2>1, SubsetInduction
<1>3. QED
  BY <1>2

\* Bytes is what its definition says, for the sizes there are.
LEMMA BytesUnfolds ==
  ASSUME size \in [Messages -> Nat]
  PROVE  Bytes = [T \in SUBSET Messages |->
                    IF T = {} THEN 0
                    ELSE Bytes[T \ {Max(T)}] + size[Max(T)]]
<1> DEFINE D == [p \in Nat \X Messages |-> p[1] + size[p[2]]]
<1>1. D \in [Nat \X Messages -> Nat] /\ 0 \in Nat
  OBVIOUS
<1>2. PICK g \in [SUBSET Messages -> Nat] : Recurs(g, 0, D)
  <2> HIDE DEF D
  <2>1. QED
    BY <1>1, Recursion
<1>3. \A T \in SUBSET Messages : T # {} =>
        D[<<g[T \ {Max(T)}], Max(T)>>] = g[T \ {Max(T)}] + size[Max(T)]
  BY MaxIsGreatest
<1>4. g = [T \in SUBSET Messages |->
             IF T = {} THEN 0 ELSE g[T \ {Max(T)}] + size[Max(T)]]
  <2> HIDE DEF D
  <2>1. QED
    BY <1>2, <1>3 DEF Recurs
<1>5. QED
  BY <1>4 DEF Bytes

LEMMA BytesType ==
  ASSUME size \in [Messages -> Nat], NEW T \in SUBSET Messages
  PROVE  Bytes[T] \in Nat
<1> DEFINE G == {U \in SUBSET Messages : Bytes[U] \in Nat}
<1>1. ASSUME NEW U \in SUBSET Messages,
             \A V \in SUBSET U : V # U => V \in G
      PROVE  Bytes[U] \in Nat
  <2>1. CASE U = {}
    BY <2>1, BytesUnfolds
  <2>2. CASE U # {}
    <3>1. Max(U) \in U
      BY <2>2, MaxIsGreatest
    <3>2. Bytes[U \ {Max(U)}] \in Nat
      BY <1>1, <3>1
    <3>3. QED
      BY <2>2, <3>1, <3>2, BytesUnfolds
  <2>3. QED
    BY <2>1, <2>2
<1>2. SUBSET Messages \subseteq G
  <2>1. \A U \in SUBSET Messages :
          (\A V \in SUBSET U : V # U => V \in G) => U \in G
    BY <1>1
  <2> HIDE DEF G
  <2>2. QED
    BY <2>1, SubsetInduction
<1>3. QED
  BY <1>2

\* The order in which bytes are summed up does not matter.
LEMMA BytesWithout ==
  ASSUME size \in [Messages -> Nat], NEW T \in SUBSET Messages, NEW x \in T
  PROVE  Bytes[T] = Bytes[T \ {x}] + size[x]
<1> DEFINE G == {U \in SUBSET Messages :
                   \A y \in U : Bytes[U] = Bytes[U \ {y}] + size[y]}
<1>1. ASSUME NEW U \in SUBSET Messages,
             \A V \in SUBSET U : V # U => V \in G, NEW y \in U
      PROVE  Bytes[U] = Bytes[U \ {y}] + size[y]
  <2> DEFINE m == Max(U)
             V == U \ {m}
             W == U \ {y}
  <2>1. m \in U /\ \A z \in U : z <= m
    BY MaxIsGreatest
  <2>2. Bytes[U] = Bytes[V] + size[m]
    BY BytesUnfolds
  <2>3. CASE y = m
    BY <2>2, <2>3
  <2>4. CASE y # m
    <3>1. Bytes[V] = Bytes[V \ {y}] + size[y]
      <4>1. V \in SUBSET U /\ V # U /\ y \in V
        BY <2>1, <2>4
      <4>2. V \in G
        <5> HIDE DEF G, V
        <5>1. QED
          BY <1>1, <4>1
      <4>3. QED
        BY <4>1, <4>2
    <3>2. Max(W) = m
      <4>1. m \in W /\ W \in SUBSET Messages
        BY <2>1, <2>4
      <4>2. Max(W) \in W /\ m <= Max(W)
        <5> HIDE DEF W, m
        <5>1. QED
          BY <4>1, MaxIsGreatest
      <4>3. Max(W) <= m
        BY <2>1, <4>2
      <4>4. m \in Nat /\ Max(W) \in Nat
        BY <2>1, <4>2, MessagesAssumption
      <4> HIDE DEF W, m
      <4>5. QED
        BY <4>2, <4>3, <4>4
    <3>3. Bytes[W] = Bytes[W \ {m}] + size[m]
      <4>1. W \in SUBSET Messages /\ W # {}
        BY <2>1, <2>4
      <4> HIDE DEF W, m
      <4>2. QED
        BY <3>2, <4>1, BytesUnfolds
    <3>4. W \ {m} = V \ {y} /\ V \ {y} \in SUBSET Messages
      OBVIOUS
    <3>5. Bytes[V \ {y}] \in Nat /\ size[y] \in Nat /\ size[m] \in Nat
      <4>1. y \in Messages /\ m \in Messages
        BY <2>1
      <4> HIDE DEF V, m
      <4>2. QED
        BY <3>4, <4>1, BytesType
    <3>6. Bytes[U] = Bytes[W] + size[y]
      <4> HIDE DEF V, W, m
      <4>1. Bytes[W] = Bytes[V \ {y}] + size[m]
        BY <3>3, <3>4
      <4>2. \A a, b, c \in Nat : (a + b) + c = (a + c) + b
        OBVIOUS
      <4>3. QED
        BY <2>2, <3>1, <3>5, <4>1, <4>2
    <3>7. QED
      BY <3>6
  <2>5. QED
    BY <2>3, <2>4
<1>2. SUBSET Messages \subseteq G
  <2>1. \A U \in SUBSET Messages :
          (\A V \in SUBSET U : V # U => V \in G) => U \in G
    BY <1>1
  <2> HIDE DEF G
  <2>2. QED
    BY <2>1, SubsetInduction
<1>3. QED
  BY <1>2

\* Fewer messages have no more bytes.
LEMMA BytesGrow ==
  ASSUME size \in [Messages -> Nat],
         NEW T \in SUBSET Messages, NEW S \in SUBSET T
  PROVE  Bytes[S] <= Bytes[T]
<1> DEFINE G == {U \in SUBSET Messages :
                   \A V \in SUBSET U : Bytes[V] <= Bytes[U]}
<1>1. ASSUME NEW U \in SUBSET Messages,
             \A V \in SUBSET U : V # U => V \in G, NEW V \in SUBSET U
      PROVE  Bytes[V] <= Bytes[U]
  <2>1. CASE V = U
    <3>1. Bytes[U] \in Nat
      BY BytesType
    <3>2. QED
      BY <2>1, <3>1
  <2>2. CASE V # U
    <3>1. PICK x \in U : x \notin V
      BY <2>2
    <3>2. Bytes[U] = Bytes[U \ {x}] + size[x]
      BY BytesWithout
    <3>3. Bytes[V] <= Bytes[U \ {x}]
      <4>1. U \ {x} \in G
        <5> HIDE DEF G
        <5>1. QED
          BY <1>1
      <4>2. QED
        BY <3>1, <4>1
    <3>4. Bytes[V] \in Nat /\ Bytes[U \ {x}] \in Nat /\ size[x] \in Nat
      BY BytesType
    <3>5. QED
      BY <3>2, <3>3, <3>4
  <2>3. QED
    BY <2>1, <2>2
<1>2. SUBSET Messages \subseteq G
  <2>1. \A U \in SUBSET Messages :
          (\A V \in SUBSET U : V # U => V \in G) => U \in G
    BY <1>1
  <2> HIDE DEF G
  <2>2. QED
    BY <2>1, SubsetInduction
<1>3. QED
  BY <1>2

-----------------------------------------------------------------------------
(* What the partition of some messages is.                                 *)

Fits(messages) == Bytes[messages] <= MaxBytes \/ \E m \in messages : messages = {m}

Bundles == [uuid : Uuids \cup {Null, Empty}, language : Languages,
            messages : SUBSET Messages]

Placement == [full : Seq(Bundles), open : [Languages -> SUBSET Messages],
              seen : Seq(Languages)]

\* A bundle of some messages of one language that is not too large.
Proper(b, messages) ==
  /\ b.uuid = Null /\ b.messages \subseteq messages /\ Fits(b.messages)
  /\ \A m \in b.messages : Language[m] = b.language

\* No two of the bundles share a message.
Apart(bundles) ==
  \A i, j \in DOMAIN bundles :
    i # j => bundles[i].messages \cap bundles[j].messages = {}

Tidy(p, messages) ==
  /\ p \in Placement
  /\ \A l \in Languages : Proper(Bundle(Null, l, p.open[l]), messages)
  /\ \A i \in DOMAIN p.full : Proper(p.full[i], messages)
  /\ \A i \in DOMAIN p.full : \A l \in Languages :
       p.full[i].messages \cap p.open[l] = {}
  /\ Apart(p.full)
  /\ \A i, j \in DOMAIN p.seen : i # j => p.seen[i] # p.seen[j]

\* What Append does, in terms the provers use.
LEMMA Appended ==
  ASSUME NEW S, NEW s \in Seq(S), NEW x \in S
  PROVE  /\ Append(s, x) \in Seq(S) /\ DOMAIN s = 1 .. Len(s)
         /\ DOMAIN Append(s, x) = 1 .. Len(s) + 1
         /\ \A i \in 1 .. Len(s) : Append(s, x)[i] = s[i]
         /\ Append(s, x)[Len(s) + 1] = x /\ Len(s) \in Nat
         /\ \A i \in DOMAIN Append(s, x) :
              \/ i \in DOMAIN s /\ Append(s, x)[i] = s[i]
              \/ i = Len(s) + 1 /\ i \notin DOMAIN s /\ Append(s, x)[i] = x
  OBVIOUS

LEMMA PlaceType ==
  ASSUME NEW p \in Placement, NEW m \in Messages
  PROVE  Place(p, m) \in Placement
<1> DEFINE l == Language[m]
           full == Append(p.full, Bundle(Null, l, p.open[l]))
<1>1. l \in Languages /\ p.open[l] \in SUBSET Messages
  BY DataAssumption DEF Placement
<1>2. Bundle(Null, l, p.open[l]) \in Bundles
  BY <1>1 DEF Bundle, Bundles
<1>3. full \in Seq(Bundles)
  BY <1>2 DEF Placement
<1>4. Append(p.seen, l) \in Seq(Languages)
  BY <1>1 DEF Placement
<1>5. /\ [p EXCEPT !.full = full, !.open[l] = {m}] \in Placement
      /\ [p EXCEPT !.open[l] = @ \cup {m},
                   !.seen = IF Contains(@, l) THEN @ ELSE Append(@, l)]
           \in Placement
  <2> HIDE DEF full, l
  <2>1. QED
    BY <1>1, <1>3, <1>4 DEF Placement
<1>6. QED
  BY <1>5 DEF Place

\* A new message joins the open bundle of its language, or begins another.
LEMMA PlaceTidy ==
  ASSUME size \in [Messages -> Nat],
         NEW T \in SUBSET Messages, NEW m \in Messages \ T,
         NEW p, Tidy(p, T)
  PROVE  Tidy(Place(p, m), T \cup {m})
<1> DEFINE l == Language[m]
           b == Bundle(Null, l, p.open[l])
           q == Place(p, m)
           N == T \cup {m}
<1>1. /\ p \in Placement /\ l \in Languages /\ q \in Placement
      /\ p.open \in [Languages -> SUBSET Messages]
  BY DataAssumption, PlaceType DEF Tidy, Placement
<1>2. b \in Bundles /\ Proper(b, T) /\ b.messages = p.open[l]
  BY <1>1 DEF Tidy, Bundle, Bundles
<1>3. \A c \in Bundles : Proper(c, T) => Proper(c, N) /\ m \notin c.messages
  BY DEF Proper
<1>4. CASE p.open[l] # {} /\ Bytes[p.open[l]] + size[m] > MaxBytes
  <2>1. /\ q.full = Append(p.full, b) /\ q.seen = p.seen
        /\ q.open = [p.open EXCEPT ![l] = {m}]
    BY <1>1, <1>4 DEF Place, Placement
  <2> HIDE DEF q, b, l
  <2>2. Proper(Bundle(Null, l, {m}), N)
    BY DEF Proper, Fits, Bundle, l
  <2>3. \A k \in Languages : Proper(Bundle(Null, k, q.open[k]), N)
    BY <1>1, <2>1, <2>2 DEF Tidy, Proper, Bundle
  <2>4. p.full \in Seq(Bundles) /\ DOMAIN p.full = 1 .. Len(p.full)
    BY <1>1 DEF Placement
  <2>5. \A i \in DOMAIN q.full :
          \/ i \in DOMAIN p.full /\ q.full[i] = p.full[i]
          \/ i = Len(p.full) + 1 /\ i \notin DOMAIN p.full /\ q.full[i] = b
    BY <1>2, <2>1, <2>4, Appended
  <2>6. \A i \in DOMAIN p.full :
          /\ p.full[i] \in Bundles /\ Proper(p.full[i], T)
          /\ \A k \in Languages : p.full[i].messages \cap p.open[k] = {}
    BY <2>4 DEF Tidy
  <2>7. \A i \in DOMAIN q.full : Proper(q.full[i], N)
    BY <1>2, <1>3, <2>5, <2>6
  <2>8. \A i \in DOMAIN q.full : \A k \in Languages :
          q.full[i].messages \cap q.open[k] = {}
    <3>1. \A k \in Languages : k # l => b.messages \cap p.open[k] = {}
      BY <1>1, <1>2 DEF Tidy, Proper, Bundle
    <3>2. QED
      BY <1>1, <1>2, <1>3, <2>1, <2>5, <2>6, <3>1
  <2>9. Apart(q.full)
    BY <1>1, <1>2, <2>5, <2>6 DEF Tidy, Apart
  <2>10. QED
    BY <1>1, <2>1, <2>3, <2>7, <2>8, <2>9 DEF Tidy, q
<1>5. CASE ~ (p.open[l] # {} /\ Bytes[p.open[l]] + size[m] > MaxBytes)
  <2>1. /\ q.full = p.full
        /\ q.seen = IF Contains(p.seen, l) THEN p.seen ELSE Append(p.seen, l)
        /\ q.open = [p.open EXCEPT ![l] = @ \cup {m}]
    BY <1>1, <1>5 DEF Place, Placement
  <2>2. Fits(p.open[l] \cup {m})
    <3>1. CASE p.open[l] = {}
      BY <3>1 DEF Fits
    <3>2. CASE p.open[l] # {}
      <4>1. p.open[l] \in SUBSET T /\ p.open[l] \cup {m} \in SUBSET Messages
        BY <1>1, <1>2 DEF Proper
      <4>2. (p.open[l] \cup {m}) \ {m} = p.open[l]
        BY <4>1
      <4>3. Bytes[p.open[l] \cup {m}] = Bytes[p.open[l]] + size[m]
        BY <4>1, <4>2, BytesWithout
      <4>4. Bytes[p.open[l]] \in Nat /\ size[m] \in Nat /\ MaxBytes \in Nat
        BY <4>1, BytesType, BundlerBounds
      <4>5. QED
        BY <1>5, <3>2, <4>3, <4>4 DEF Fits
    <3>3. QED
      BY <3>1, <3>2
  <2> HIDE DEF q, b
  <2>3. \A k \in Languages : Proper(Bundle(Null, k, q.open[k]), N)
    BY <1>1, <2>1, <2>2 DEF Tidy, Proper, Bundle
  <2>4. \A i \in DOMAIN q.full : Proper(q.full[i], N) /\ m \notin q.full[i].messages
    BY <1>1, <2>1 DEF Tidy, Proper
  <2>5. \A i \in DOMAIN q.full : \A k \in Languages :
          q.full[i].messages \cap q.open[k] = {}
    BY <1>1, <2>1, <2>4 DEF Tidy
  <2>6. \A i, j \in DOMAIN q.seen : i # j => q.seen[i] # q.seen[j]
    <3>1. p.seen \in Seq(Languages)
      BY <1>1 DEF Placement
    <3>2. CASE Contains(p.seen, l)
      BY <2>1, <3>2 DEF Tidy
    <3>3. CASE ~ Contains(p.seen, l)
      <4>1. \A i \in DOMAIN p.seen : p.seen[i] # l
        BY <3>1, <3>3 DEF Contains
      <4>2. \A i \in DOMAIN q.seen :
              \/ i \in DOMAIN p.seen /\ q.seen[i] = p.seen[i]
              \/ i = Len(p.seen) + 1 /\ q.seen[i] = l
        <5>1. q.seen = Append(p.seen, l)
          BY <2>1, <3>3
        <5>2. QED
          BY <1>1, <3>1, <5>1, Appended
      <4>3. QED
        BY <4>1, <4>2 DEF Tidy
    <3>4. QED
      BY <3>2, <3>3
  <2>7. QED
    BY <1>1, <2>1, <2>3, <2>4, <2>5, <2>6 DEF Tidy, q
<1>6. QED
  BY <1>4, <1>5

\* Placed is what its definition says.
LEMMA PlacedUnfolds ==
  ASSUME size \in [Messages -> Nat]
  PROVE  Placed = [T \in SUBSET Messages |->
                     IF T = {} THEN NonePlaced
                     ELSE Place(Placed[T \ {Max(T)}], Max(T))]
<1> DEFINE D == [q \in Placement \X Messages |-> Place(q[1], q[2])]
<1>1. D \in [Placement \X Messages -> Placement]
  BY PlaceType
<1>2. NonePlaced \in Placement
  BY DEF NonePlaced, Placement
<1>3. PICK g \in [SUBSET Messages -> Placement] : Recurs(g, NonePlaced, D)
  <2> HIDE DEF D
  <2>1. QED
    BY <1>1, <1>2, Recursion
<1>4. \A T \in SUBSET Messages : T # {} =>
        D[<<g[T \ {Max(T)}], Max(T)>>] = Place(g[T \ {Max(T)}], Max(T))
  BY MaxIsGreatest
<1>5. g = [T \in SUBSET Messages |->
             IF T = {} THEN NonePlaced ELSE Place(g[T \ {Max(T)}], Max(T))]
  <2> HIDE DEF D
  <2>1. QED
    BY <1>3, <1>4 DEF Recurs
<1>6. QED
  BY <1>5 DEF Placed

LEMMA PlacedTidy ==
  ASSUME size \in [Messages -> Nat], NEW T \in SUBSET Messages
  PROVE  Tidy(Placed[T], T)
<1> DEFINE G == {U \in SUBSET Messages : Tidy(Placed[U], U)}
<1>1. ASSUME NEW U \in SUBSET Messages,
             \A V \in SUBSET U : V # U => V \in G
      PROVE  Tidy(Placed[U], U)
  <2>1. CASE U = {}
    <3>1. Placed[U] = NonePlaced
      BY <2>1, PlacedUnfolds
    <3>2. Bytes[{}] = 0
      BY BytesUnfolds
    <3>3. Fits({})
      BY <3>2, BundlerBounds DEF Fits
    <3>4. \A l \in Languages : NonePlaced.open[l] = {}
      BY DEF NonePlaced
    <3>5. NonePlaced.full = <<>> /\ NonePlaced.seen = <<>>
          /\ NonePlaced \in Placement
      BY DEF NonePlaced, Placement
    <3>6. \A l \in Languages : Proper(Bundle(Null, l, NonePlaced.open[l]), U)
      BY <3>3, <3>4 DEF Proper, Bundle
    <3>7. DOMAIN NonePlaced.full = {} /\ DOMAIN NonePlaced.seen = {}
      BY <3>5
    <3>8. QED
      BY <3>1, <3>5, <3>6, <3>7 DEF Tidy, Apart
  <2>2. CASE U # {}
    <3> DEFINE m == Max(U)
               V == U \ {m}
    <3>1. m \in U
      BY <2>2, MaxIsGreatest
    <3>2. V \in SUBSET U /\ V # U /\ V \in SUBSET Messages
          /\ m \in Messages \ V /\ U = V \cup {m}
      BY <3>1
    <3>3. Placed[U] = Place(Placed[V], m)
      BY <2>2, PlacedUnfolds
    <3>4. Tidy(Placed[V], V)
      <4> HIDE DEF V, m
      <4>1. QED
        BY <1>1, <3>2
    <3> HIDE DEF V, m
    <3>5. QED
      BY <3>2, <3>3, <3>4, PlaceTidy
  <2>3. QED
    BY <2>1, <2>2
<1>2. SUBSET Messages \subseteq G
  <2>1. \A U \in SUBSET Messages :
          (\A V \in SUBSET U : V # U => V \in G) => U \in G
    BY <1>1
  <2> HIDE DEF G
  <2>2. QED
    BY <2>1, SubsetInduction
<1>3. QED
  BY <1>2

\* A partition: proper bundles, which share no message.
LEMMA PartitionSound ==
  ASSUME size \in [Messages -> Nat], NEW T \in SUBSET Messages
  PROVE  /\ Partition(T) \in Seq(Bundles)
         /\ \A i \in DOMAIN Partition(T) : Proper(Partition(T)[i], T)
         /\ Apart(Partition(T))
<1> DEFINE p == Placed[T]
           o == [i \in DOMAIN p.seen |->
                   Bundle(Null, p.seen[i], p.open[p.seen[i]])]
           b == p.full \o o
<1>1. Tidy(p, T)
  BY PlacedTidy
<1>2. Partition(T) = b
  BY DEF Partition
<1> HIDE DEF p
<1>3. /\ p.full \in Seq(Bundles) /\ p.seen \in Seq(Languages)
      /\ p.open \in [Languages -> SUBSET Messages]
  BY <1>1 DEF Tidy, Placement
<1>4. \A i \in DOMAIN p.seen : p.seen[i] \in Languages
  BY <1>3
<1>5. \A i \in DOMAIN p.seen :
        /\ o[i] \in Bundles /\ Proper(o[i], T)
        /\ o[i].messages = p.open[p.seen[i]]
  BY <1>1, <1>3, <1>4 DEF Tidy, Bundle, Bundles
<1>6. o \in Seq(Bundles) /\ DOMAIN o = DOMAIN p.seen
  <2>1. DOMAIN p.seen = 1 .. Len(p.seen) /\ Len(p.seen) \in Nat
    BY <1>3
  <2>2. DOMAIN o = DOMAIN p.seen /\ o = [i \in DOMAIN p.seen |-> o[i]]
    OBVIOUS
  <2> HIDE DEF o
  <2>3. \A i \in 1 .. Len(p.seen) : o[i] \in Bundles
    BY <1>5, <2>1
  <2>4. o \in [1 .. Len(p.seen) -> Bundles]
    BY <2>1, <2>2, <2>3
  <2>5. QED
    BY <2>1, <2>2, <2>4
<1>7. \A i, j \in DOMAIN o : i # j => o[i].messages \cap o[j].messages = {}
  <2>1. ASSUME NEW i \in DOMAIN o, NEW j \in DOMAIN o, i # j
        PROVE  o[i].messages \cap o[j].messages = {}
    <3>1. p.seen[i] # p.seen[j] /\ p.seen[i] \in Languages /\ p.seen[j] \in Languages
      BY <1>1, <1>4, <1>6, <2>1 DEF Tidy
    <3>2. \A l \in Languages : \A m \in p.open[l] : Language[m] = l
      BY <1>1 DEF Tidy, Proper, Bundle
    <3>3. o[i].messages = p.open[p.seen[i]] /\ o[j].messages = p.open[p.seen[j]]
      BY <1>5, <1>6
    <3> HIDE DEF o
    <3>4. QED
      BY <3>1, <3>2, <3>3
  <2>2. QED
    BY <2>1
<1>8. \A i \in DOMAIN p.full : \A j \in DOMAIN o :
        p.full[i].messages \cap o[j].messages = {}
  BY <1>1, <1>4, <1>5, <1>6 DEF Tidy
<1> HIDE DEF o
<1>9. /\ b \in Seq(Bundles)
      /\ \A i \in DOMAIN b :
           \/ i \in DOMAIN p.full /\ b[i] = p.full[i]
           \/ /\ i - Len(p.full) \in DOMAIN o /\ b[i] = o[i - Len(p.full)]
              /\ i \notin DOMAIN p.full
  <2>1. \A x, y \in Seq(Bundles) :
          /\ x \o y \in Seq(Bundles)
          /\ \A i \in DOMAIN (x \o y) :
               \/ i \in DOMAIN x /\ (x \o y)[i] = x[i]
               \/ /\ i - Len(x) \in DOMAIN y /\ (x \o y)[i] = y[i - Len(x)]
                  /\ i \notin DOMAIN x
    OBVIOUS
  <2>2. QED
    BY <1>3, <1>6, <2>1
<1>10. \A i \in DOMAIN b : Proper(b[i], T)
  BY <1>1, <1>5, <1>6, <1>9 DEF Tidy
<1>11. Apart(b)
  <2>1. ASSUME NEW i \in DOMAIN b, NEW j \in DOMAIN b, i # j
        PROVE  b[i].messages \cap b[j].messages = {}
    <3>1. i \in Nat /\ j \in Nat /\ Len(p.full) \in Nat
      BY <1>3, <1>9
    <3>2. i - Len(p.full) # j - Len(p.full)
      BY <2>1, <3>1
    <3> HIDE DEF b
    <3>3. QED
      BY <1>1, <1>7, <1>8, <1>9, <2>1, <3>2 DEF Tidy, Apart
  <2>2. QED
    BY <2>1 DEF Apart
<1>12. QED
  BY <1>2, <1>9, <1>10, <1>11

-----------------------------------------------------------------------------
(* The inductive invariant.                                                *)

RunStates == [phase : {"idle", "read", "publish"}, options : SUBSET Options,
              bundles : Seq(Bundles)]

Extracts == [phase : {"idle", "file", "export"}, files : SUBSET Recordings,
             file : Recordings \cup {NoFile},
             props : SUBSET (Recordings \X {Right, "None"}), aborted : BOOLEAN]

BundlerTypes ==
  /\ size \in [Messages -> Nat]
  /\ rows \in [Messages -> Row \cup {NoRow}]
  /\ stored \subseteq Messages /\ zips \subseteq Bundles
  /\ copies \subseteq Messages /\ excused \subseteq Messages
  /\ run \in [Runs -> RunStates]
  /\ \A r \in Runs : run[r].phase # "idle" => run[r].bundles # <<>>
  /\ drawn \in 0 .. MaxDrawn /\ troubles \in 0 .. MaxTroubles

ExtractTypes ==
  /\ sidecar \in [Recordings -> Numbers]
  /\ saved \subseteq Recordings \X {Right, "None"}
  /\ extract \in Extracts
  /\ extract.phase = "export" =>
       extract.file \in Recordings /\ sidecar[extract.file] # NotYet

\* Where a recording has the number "None", extract_uf met it early.
NumbersInv ==
  /\ \A m \in Messages : rows[m] # NoRow /\ rows[m].number # Right => m \in early
  /\ \A m \in Recordings : sidecar[m] = "None" => m \in early
  /\ \A m \in Recordings : <<m, "None">> \in saved \cup extract.props => m \in early

\* The messages that uf_messages says a bundle has.
InBundle(u) == {m \in Found : rows[m].bundle = u}

\* The bundles that are published as zips, or are about to be.
Outgoing ==
  zips \cup {b \in Bundles :
               \E r \in Runs : /\ run[r].phase = "publish"
                               /\ WantsZips(run[r].options)
                               /\ \E i \in DOMAIN run[r].bundles :
                                    run[r].bundles[i] = b}

\* A bundle that lacks none of its messages, keeps the limits, and whose
\* messages have no other bundle.
Sound(b) ==
  /\ b.uuid \in Uuids /\ b.uuid <= drawn
  /\ InBundle(b.uuid) \subseteq b.messages
  /\ \A m \in b.messages \ excused : rows[m] # NoRow /\ rows[m].bundle = b.uuid
  /\ \A m \in b.messages : Language[m] = b.language
  /\ Fits(b.messages)

OutgoingInv == \A b \in Outgoing : b.uuid = Empty \/ Sound(b)

RowsInv ==
  /\ \A m \in Messages :
       rows[m] # NoRow /\ rows[m].bundle \in Uuids => rows[m].bundle <= drawn
  /\ \A u \in Uuids : /\ Fits(InBundle(u))
                      /\ \A m, n \in InBundle(u) : Language[m] = Language[n]

\* What a run has read: proper bundles, of messages that have no bundle.
ReadWell(r) ==
  /\ \A i \in DOMAIN run[r].bundles : Proper(run[r].bundles[i], Messages)
  /\ Apart(run[r].bundles)
  /\ \A m \in MessagesOf(run[r].bundles) :
       rows[m] # NoRow /\ (m \in excused \/ rows[m].bundle \in {Null, Empty})

ReadInv ==
  /\ \A r \in Runs : run[r].phase = "read" => ReadWell(r)
  /\ \A r, q \in Runs :
       run[r].phase = "read" /\ run[q].phase = "read" /\ r # q =>
         MessagesOf(run[r].bundles) \cap MessagesOf(run[q].bundles) \subseteq excused

BundlesInv == OutgoingInv /\ RowsInv /\ ReadInv

IInv == BundlerTypes /\ ExtractTypes /\ NumbersInv /\ BundlesInv

\* The bytes of a set of messages never change.
LEMMA SameBytes ==
  ASSUME size' = size
  PROVE  Bytes' = Bytes
BY DEF Bytes

\* What only_zip finds recorded: bundles with all the messages they have.
LEMMA RecordedSound ==
  ASSUME BundlerTypes, NEW uuids \in SUBSET (Uuids \cup {Empty})
  PROVE  /\ Recorded(uuids) \in Seq(Bundles)
         /\ \A i \in DOMAIN Recorded(uuids) :
              /\ Recorded(uuids)[i].uuid \in uuids
              /\ Recorded(uuids)[i].messages = InBundle(Recorded(uuids)[i].uuid)
              /\ \E m \in InBundle(Recorded(uuids)[i].uuid) :
                   Recorded(uuids)[i].language = Language[m]
<1> DEFINE Of(m) == {n \in Found : rows[n].bundle = rows[m].bundle}
           first == {m \in Found : /\ rows[m].bundle \in uuids
                                   /\ \A n \in Of(m) : m <= n}
           s == InOrder[first]
           o == [i \in DOMAIN s |->
                   Bundle(rows[s[i]].bundle, Language[s[i]], Of(s[i]))]
<1>1. Recorded(uuids) = o
  BY DEF Recorded
<1>2. first \in SUBSET Found /\ Found \in SUBSET Messages
  BY DEF Found
<1>3. s \in Seq(first)
  <2> HIDE DEF first
  <2>1. QED
    BY <1>2, InOrderLists
<1>4. \A i \in DOMAIN s : s[i] \in first
  <2> HIDE DEF first, s
  <2>1. QED
    BY <1>3
<1>5. ASSUME NEW i \in DOMAIN s
      PROVE  /\ o[i] \in Bundles /\ o[i].uuid \in uuids
             /\ o[i].messages = InBundle(o[i].uuid)
             /\ \E m \in InBundle(o[i].uuid) : o[i].language = Language[m]
  <2> DEFINE m == s[i]
  <2>1. m \in Found /\ rows[m].bundle \in uuids /\ m \in Messages
    BY <1>2, <1>4
  <2>2. o[i] = Bundle(rows[m].bundle, Language[m], Of(m))
    OBVIOUS
  <2> HIDE DEF s, o, m
  <2>3. Of(m) = InBundle(rows[m].bundle) /\ m \in Of(m) /\ Of(m) \in SUBSET Messages
    BY <2>1, <1>2 DEF InBundle
  <2>4. QED
    BY <2>1, <2>2, <2>3, DataAssumption DEF Bundle, Bundles
<1>6. o \in Seq(Bundles) /\ DOMAIN o = DOMAIN s
  <2>1. DOMAIN s = 1 .. Len(s) /\ Len(s) \in Nat
    BY <1>3
  <2>2. DOMAIN o = DOMAIN s /\ o = [i \in DOMAIN s |-> o[i]]
    OBVIOUS
  <2> HIDE DEF o, s
  <2>3. o \in [1 .. Len(s) -> Bundles]
    BY <1>5, <2>1, <2>2
  <2>4. QED
    BY <2>1, <2>2, <2>3
<1> HIDE DEF o
<1>7. QED
  BY <1>1, <1>5, <1>6

\* The messages of some bundles are messages.
LEMMA MessagesOfType ==
  ASSUME NEW bs \in Seq(Bundles)
  PROVE  MessagesOf(bs) \subseteq Messages
<1>1. \A i \in DOMAIN bs : bs[i] \in Bundles
  OBVIOUS
<1>2. \A i \in DOMAIN bs : bs[i].messages \subseteq Messages
  BY <1>1 DEF Bundles
<1>3. QED
  BY <1>2 DEF MessagesOf

\* Numbered gives as many bundles.
LEMMA NumberedLength ==
  ASSUME NEW bs \in Seq(Bundles)
  PROVE  Len(Numbered(bs)) = Len(bs)
<1>1. DOMAIN bs = 1 .. Len(bs) /\ Len(bs) \in Nat
  OBVIOUS
<1>2. Numbered(bs) = [i \in 1 .. Len(bs) |-> Numbered(bs)[i]]
  BY <1>1 DEF Numbered
<1>3. QED
  BY <1>1, <1>2

\* Numbered gives each bundle a uuid of its own, and changes nothing else.
LEMMA NumberedSound ==
  ASSUME BundlerTypes, NEW bs \in Seq(Bundles), drawn + Len(bs) <= MaxDrawn
  PROVE  /\ Numbered(bs) \in Seq(Bundles) /\ DOMAIN Numbered(bs) = DOMAIN bs
         /\ MessagesOf(Numbered(bs)) = MessagesOf(bs)
         /\ drawn + Len(bs) \in Nat /\ drawn <= drawn + Len(bs)
         /\ bs # <<>> => Numbered(bs) # <<>>
         /\ \A i \in DOMAIN bs :
              /\ i \in Nat /\ i > 0
              /\ drawn + i \in Uuids /\ drawn + i <= drawn + Len(bs)
              /\ Numbered(bs)[i].uuid = drawn + i
              /\ Numbered(bs)[i].messages = bs[i].messages
              /\ Numbered(bs)[i].language = bs[i].language
<1> DEFINE o == Numbered(bs)
<1>1. /\ DOMAIN bs = 1 .. Len(bs) /\ Len(bs) \in Nat
      /\ drawn \in Nat /\ MaxDrawn \in Nat
  BY BundlerBounds DEF BundlerTypes
<1>2. \A i \in DOMAIN bs : /\ i \in Nat /\ i > 0
                           /\ drawn + i \in Uuids /\ drawn + i <= drawn + Len(bs)
  BY <1>1 DEF Uuids
<1>3. DOMAIN o = DOMAIN bs /\ o = [i \in DOMAIN bs |-> o[i]]
  BY DEF Numbered
<1>4. \A i \in DOMAIN bs :
        /\ o[i] \in Bundles /\ o[i].uuid = drawn + i
        /\ o[i].messages = bs[i].messages /\ o[i].language = bs[i].language
  <2>1. ASSUME NEW i \in DOMAIN bs
        PROVE  o[i] = [bs[i] EXCEPT !.uuid = drawn + i] /\ bs[i] \in Bundles
    BY <2>1 DEF Numbered
  <2>2. QED
    BY <1>2, <2>1 DEF Bundles
<1> HIDE DEF o
<1>5. o \in Seq(Bundles)
  <2>1. o \in [1 .. Len(bs) -> Bundles]
    BY <1>1, <1>3, <1>4
  <2>2. QED
    BY <1>1, <1>3, <2>1
<1>6. MessagesOf(o) = MessagesOf(bs)
  BY <1>3, <1>4 DEF MessagesOf
<1>7. bs # <<>> => o # <<>>
  <2>1. bs # <<>> => 1 \in DOMAIN bs
    BY <1>1
  <2>2. QED
    BY <1>3, <2>1
<1>8. QED
  BY <1>1, <1>2, <1>3, <1>4, <1>5, <1>6, <1>7 DEF o

\* What Record does to the rows and to what is excused.
RecordedWell(r) ==
  LET bs == run[r].bundles IN
  /\ drawn' = drawn + Len(bs) /\ drawn' <= MaxDrawn
  /\ excused \subseteq excused' /\ excused' \subseteq Messages
  /\ rows' \in [Messages -> Row \cup {NoRow}]
  /\ \A m \in Messages \ MessagesOf(bs) : rows'[m] = rows[m]
  /\ \/ rows' = rows /\ MessagesOf(bs) \subseteq excused'
     \/ \A i \in DOMAIN bs : \A m \in bs[i].messages :
          /\ rows'[m] # NoRow /\ rows'[m].bundle = drawn + i
          /\ rows'[m].number = rows[m].number

LEMMA RecordGoesWell ==
  ASSUME BundlerTypes, ReadInv, NEW r \in Runs, Record(r)
  PROVE  RecordedWell(r)
<1> DEFINE bs == run[r].bundles
           o == Numbered(bs)
           Chosen(m) == CHOOSE b \in ToSet(o) : m \in b.messages
<1>1. /\ bs \in Seq(Bundles) /\ ReadWell(r)
      /\ rows \in [Messages -> Row \cup {NoRow}]
      /\ excused \subseteq Messages
  BY DEF BundlerTypes, ReadInv, Record, RunStates
<1>2. drawn' = drawn + Len(bs) /\ drawn' <= MaxDrawn
  <2>1. drawn' = drawn + Len(o) /\ drawn' <= MaxDrawn
    BY DEF Record
  <2>2. Len(o) = Len(bs)
    BY <1>1, NumberedLength
  <2>3. QED
    BY <2>1, <2>2
<1>3. /\ DOMAIN o = DOMAIN bs /\ MessagesOf(o) = MessagesOf(bs)
      /\ \A i \in DOMAIN bs : /\ drawn + i \in Uuids /\ o[i].uuid = drawn + i
                              /\ o[i].messages = bs[i].messages
  BY <1>1, <1>2, NumberedSound
<1>4. MessagesOf(bs) \subseteq Messages
  BY <1>1, MessagesOfType
<1>5. CASE excused' = excused \cup MessagesOf(o) /\ UNCHANGED rows
  BY <1>1, <1>2, <1>3, <1>4, <1>5 DEF RecordedWell
<1>6. CASE /\ rows' = [m \in Messages |->
                         IF m \in MessagesOf(o)
                         THEN [rows[m] EXCEPT !.bundle = Chosen(m).uuid]
                         ELSE rows[m]]
           /\ excused' = excused
  <2>1. ASSUME NEW i \in DOMAIN bs, NEW m \in bs[i].messages
        PROVE  /\ m \in MessagesOf(bs) /\ m \in Messages
               /\ rows[m] \in Row /\ Chosen(m) = o[i]
    <3>1. m \in MessagesOf(bs) /\ m \in Messages
      BY <1>4 DEF MessagesOf
    <3>2. rows[m] \in Row
      BY <1>1, <3>1 DEF ReadWell
    <3>3. o[i] \in ToSet(o) /\ m \in o[i].messages
      BY <1>3 DEF ToSet
    <3>4. Chosen(m) \in ToSet(o) /\ m \in Chosen(m).messages
      BY <3>3
    <3>5. PICK j \in DOMAIN o : Chosen(m) = o[j]
      BY <3>4 DEF ToSet
    <3>6. j \in DOMAIN bs /\ m \in bs[j].messages
      BY <1>3, <3>4, <3>5
    <3>7. i = j
      BY <1>1, <3>6 DEF ReadWell, Apart
    <3>8. QED
      BY <3>1, <3>2, <3>5, <3>7
  <2> HIDE DEF Chosen, o
  <2>2. ASSUME NEW i \in DOMAIN bs, NEW m \in bs[i].messages
        PROVE  /\ rows'[m] \in Row /\ rows'[m].bundle = drawn + i
               /\ rows'[m].number = rows[m].number
    <3>1. rows'[m] = [rows[m] EXCEPT !.bundle = drawn + i]
      BY <1>3, <1>6, <2>1
    <3>2. QED
      BY <1>3, <2>1, <3>1 DEF Row
  <2>3. \A m \in Messages \ MessagesOf(bs) : rows'[m] = rows[m]
    BY <1>3, <1>6
  <2>4. rows' \in [Messages -> Row \cup {NoRow}]
    <3>1. \A m \in Messages : rows'[m] \in Row \cup {NoRow}
      <4>1. \A m \in MessagesOf(bs) : \E i \in DOMAIN bs : m \in bs[i].messages
        BY DEF MessagesOf
      <4>2. QED
        BY <1>1, <2>2, <2>3, <4>1
    <3>2. QED
      BY <1>6, <3>1
  <2>5. QED
    BY <1>1, <1>2, <1>6, <2>2, <2>3, <2>4, RowAssumption DEF RecordedWell
<1>7. QED
  BY <1>5, <1>6 DEF Record

\* A run ends, or goes on with the rest of its bundles.
Onward(r) ==
  /\ run' \in [Runs -> RunStates]
  /\ \A q \in Runs : run'[q].phase # "idle" => run'[q].bundles # <<>>
  /\ \A q \in Runs \ {r} : run'[q] = run[q]
  /\ run'[r].phase # "idle" =>
       /\ run[r].phase = "publish" /\ run'[r].phase = "publish"
       /\ run'[r].options = run[r].options
       /\ \A i \in DOMAIN run'[r].bundles : \E j \in DOMAIN run[r].bundles :
            run'[r].bundles[i] = run[r].bundles[j]

LEMMA GoesOnward ==
  ASSUME BundlerTypes, NEW r \in Runs,
         \/ run[r].phase # "idle" /\ Stop(r)
         \/ run[r].phase = "publish" /\ Continue(r)
  PROVE  Onward(r)
<1> DEFINE bs == run[r].bundles
<1>1. /\ run \in [Runs -> RunStates] /\ run[r] \in RunStates
      /\ bs \in Seq(Bundles) /\ bs # <<>>
      /\ \A q \in Runs : run[q].phase # "idle" => run[q].bundles # <<>>
  BY DEF BundlerTypes, RunStates
<1>2. Idle \in RunStates /\ Idle.phase = "idle"
  BY DEF Idle, RunStates
<1>3. CASE run' = [run EXCEPT ![r] = Idle]
  BY <1>1, <1>2, <1>3 DEF Onward
<1>4. CASE /\ run' = [run EXCEPT ![r].bundles = Tail(bs)] /\ Tail(bs) # <<>>
           /\ run[r].phase = "publish"
  <2>1. /\ Tail(bs) \in Seq(Bundles)
        /\ \A i \in DOMAIN Tail(bs) : i + 1 \in DOMAIN bs /\ Tail(bs)[i] = bs[i + 1]
    BY <1>1
  <2>2. run'[r] = [run[r] EXCEPT !.bundles = Tail(bs)]
    BY <1>1, <1>4
  <2>3. /\ run'[r].bundles = Tail(bs) /\ run'[r] \in RunStates
        /\ run[r].phase = "publish" /\ run'[r].phase = "publish"
        /\ run'[r].options = run[r].options
    BY <1>1, <1>4, <2>1, <2>2 DEF RunStates
  <2> DEFINE t == Tail(bs)
  <2>4. \A i \in DOMAIN t : \E j \in DOMAIN bs : t[i] = bs[j]
    BY <2>1
  <2>5. \A q \in Runs \ {r} : run'[q] = run[q]
    BY <1>1, <1>4
  <2>6. run' \in [Runs -> RunStates]
    BY <1>1, <1>4, <2>3, <2>5
  <2> HIDE DEF t
  <2>7. run'[r].bundles = t /\ t # <<>>
    BY <1>4, <2>3 DEF t
  <2> HIDE DEF bs
  <2>8. QED
    BY <1>1, <2>3, <2>4, <2>5, <2>6, <2>7 DEF Onward, bs
<1>5. QED
  BY <1>3, <1>4 DEF Stop, Continue

\* Inserted leaves the rows there are, and adds some without a bundle.
LEMMA InsertedSound ==
  ASSUME BundlerTypes, NEW props \in SUBSET (Recordings \X {Right, "None"})
  PROVE  /\ Inserted(props) \in [Messages -> Row \cup {NoRow}]
         /\ \A m \in Messages :
              \/ Inserted(props)[m] = rows[m]
              \/ /\ rows[m] = NoRow /\ Inserted(props)[m] \in Row
                 /\ Inserted(props)[m].bundle = Empty
                 /\ m \in Recordings
                 /\ <<m, Inserted(props)[m].number>> \in props
<1> DEFINE Given(m) == CHOOSE p \in props : p[1] = m
<1>1. ASSUME NEW m \in Messages, rows[m] = NoRow, \E p \in props : p[1] = m
      PROVE  /\ Inserted(props)[m] = [number |-> Given(m)[2], bundle |-> Empty]
             /\ Given(m) \in props /\ Given(m)[1] = m
  BY <1>1 DEF Inserted
<1>2. \A m \in Messages :
        ~ (rows[m] = NoRow /\ \E p \in props : p[1] = m)
        => Inserted(props)[m] = rows[m]
  BY DEF Inserted
<1> HIDE DEF Given
<1>3. ASSUME NEW m \in Messages, rows[m] = NoRow, \E p \in props : p[1] = m
      PROVE  /\ Inserted(props)[m] \in Row /\ Inserted(props)[m].bundle = Empty
             /\ m \in Recordings /\ <<m, Inserted(props)[m].number>> \in props
  <2> DEFINE p == Given(m)
  <2>1. p \in Recordings \X {Right, "None"}
    BY <1>1, <1>3
  <2> HIDE DEF p
  <2>2. PICK k \in Recordings, n \in {Right, "None"} : p = <<k, n>>
    BY <2>1
  <2>3. Given(m) = <<k, n>>
    BY <2>2 DEF p
  <2>4. k = m /\ Inserted(props)[m] = [number |-> n, bundle |-> Empty]
    BY <1>1, <1>3, <2>3
  <2>5. <<m, n>> \in props
    BY <1>1, <1>3, <2>3, <2>4
  <2>6. QED
    BY <2>4, <2>5 DEF Row
<1>4. Inserted(props) = [m \in Messages |-> Inserted(props)[m]]
  BY DEF Inserted
<1>5. \A m \in Messages : Inserted(props)[m] \in Row \cup {NoRow}
  BY <1>2, <1>3 DEF BundlerTypes
<1>6. QED
  BY <1>2, <1>3, <1>4, <1>5

\* What Begin leaves in the run, and to excuse.
BegunWell(r) ==
  LET bs == run'[r].bundles IN
  /\ run[r].phase = "idle" /\ run'[r].phase \in {"read", "publish"}
  /\ run' \in [Runs -> RunStates] /\ bs # <<>>
  /\ \A q \in Runs \ {r} : run'[q] = run[q]
  /\ excused \subseteq excused' /\ excused' \subseteq Messages
  /\ UNCHANGED <<size, rows, stored, zips, copies, drawn>>
  /\ run'[r].phase = "read" =>
       /\ \A i \in DOMAIN bs : Proper(bs[i], Messages)
       /\ Apart(bs)
       /\ \A m \in MessagesOf(bs) :
            rows[m] # NoRow /\ (m \in excused' \/ rows[m].bundle \in {Null, Empty})
       /\ \A q \in Runs : run[q].phase = "read" =>
            MessagesOf(bs) \cap MessagesOf(run[q].bundles) \subseteq excused'
  /\ run'[r].phase = "publish" /\ WantsZips(run'[r].options) =>
       \A i \in DOMAIN bs :
         /\ bs[i].uuid \in Uuids \cup {Empty}
         /\ bs[i].messages = InBundle(bs[i].uuid)
         /\ \E m \in InBundle(bs[i].uuid) : bs[i].language = Language[m]

LEMMA BeginsWell ==
  ASSUME BundlerTypes, NEW r \in Runs, NEW o \in SUBSET Options,
         NEW uuids \in SUBSET (Uuids \cup {Empty}), Begin(r, o, uuids)
  PROVE  BegunWell(r)
<1> DEFINE bs == IF "only_zip" \in o THEN Recorded(uuids) ELSE Partition(Kept(o))
           direct == o \cap {"only_zip", "unzipped"} # {}
           again == IF "rebundle" \in o THEN Kept(o)
                    ELSE MessagesOf(bs) \cap BeingBundled
           s == [phase |-> IF direct THEN "publish" ELSE "read",
                 options |-> o, bundles |-> bs]
<1>1. /\ run[r].phase = "idle" /\ bs # <<>>
      /\ run' = [run EXCEPT ![r] = s]
      /\ excused' = IF direct THEN excused ELSE excused \cup again
      /\ UNCHANGED <<size, rows, stored, zips, copies, drawn>>
  BY DEF Begin
<1>2. Kept(o) \in SUBSET Messages
  BY DEF Kept, Found
<1>3. bs \in Seq(Bundles)
  BY <1>2, PartitionSound, RecordedSound DEF BundlerTypes
<1>4. MessagesOf(bs) \subseteq Messages
  <2> HIDE DEF bs
  <2>1. QED
    BY <1>3, MessagesOfType
<1>5. s \in RunStates
  <2> HIDE DEF bs
  <2>1. QED
    BY <1>3 DEF RunStates
<1>6. CASE direct
  <2>1. WantsZips(o) => "only_zip" \in o
    BY <1>6 DEF WantsZips
  <2>2. WantsZips(o) => \A i \in DOMAIN bs :
          /\ bs[i].uuid \in Uuids \cup {Empty}
          /\ bs[i].messages = InBundle(bs[i].uuid)
          /\ \E m \in InBundle(bs[i].uuid) : bs[i].language = Language[m]
    BY <2>1, RecordedSound
  <2> HIDE DEF bs, direct
  <2>3. /\ run'[r].phase = "publish" /\ run'[r].options = o
        /\ run'[r].bundles = bs
    BY <1>1, <1>6 DEF BundlerTypes
  <2>4. QED
    BY <1>1, <1>5, <1>6, <2>2, <2>3 DEF BegunWell, BundlerTypes
<1>7. CASE ~ direct
  <2>1. "only_zip" \notin o
    BY <1>7
  <2>2. bs = Partition(Kept(o)) /\ size \in [Messages -> Nat]
    BY <2>1 DEF BundlerTypes
  <2>3. (\A i \in DOMAIN bs : Proper(bs[i], Kept(o))) /\ Apart(bs)
    <3> HIDE DEF bs
    <3>1. QED
      BY <1>2, <2>2, PartitionSound
  <2> HIDE DEF bs, direct
  <2>4. /\ run'[r].phase = "read" /\ run'[r].options = o
        /\ run'[r].bundles = bs
    BY <1>1, <1>7 DEF BundlerTypes
  <2>5. \A i \in DOMAIN bs : Proper(bs[i], Messages)
    BY <1>2, <2>3 DEF Proper
  <2>6. MessagesOf(bs) \subseteq Kept(o)
    BY <2>3 DEF MessagesOf, Proper
  <2>7. excused' = excused \cup again
    BY <1>1, <1>7
  <2>8. \A m \in MessagesOf(bs) :
          rows[m] # NoRow /\ (m \in excused' \/ rows[m].bundle \in {Null, Empty})
    BY <2>6, <2>7 DEF Kept, Found
  <2>9. \A q \in Runs : run[q].phase = "read" =>
          MessagesOf(bs) \cap MessagesOf(run[q].bundles) \subseteq excused'
    <3>1. \A q \in Runs : run[q].phase = "read" =>
            MessagesOf(run[q].bundles) \subseteq BeingBundled
      BY DEF BeingBundled
    <3>2. QED
      BY <2>6, <2>7, <3>1
  <2>10. excused' \subseteq Messages
    BY <1>2, <1>4, <2>7 DEF BundlerTypes
  <2>11. QED
    BY <1>1, <1>5, <1>7, <2>3, <2>4, <2>5, <2>7, <2>8, <2>9, <2>10
       DEF BegunWell, BundlerTypes
<1>8. QED
  BY <1>6, <1>7

\* Record leaves a run idle, or about to publish the bundles it numbered.
LEMMA RecordPublishes ==
  ASSUME BundlerTypes, NEW r \in Runs, Record(r)
  PROVE  /\ run[r].phase = "read" /\ run' \in [Runs -> RunStates]
         /\ \A q \in Runs : run'[q].phase # "idle" => run'[q].bundles # <<>>
         /\ \A q \in Runs \ {r} : run'[q] = run[q]
         /\ run'[r].phase # "idle" =>
              /\ run'[r].phase = "publish"
              /\ run'[r].bundles = Numbered(run[r].bundles)
<1> DEFINE bs == run[r].bundles
           o == Numbered(bs)
<1>1. /\ run \in [Runs -> RunStates] /\ run[r] \in RunStates
      /\ bs \in Seq(Bundles) /\ bs # <<>> /\ run[r].phase = "read"
      /\ \A q \in Runs : run[q].phase # "idle" => run[q].bundles # <<>>
  BY DEF BundlerTypes, RunStates, Record
<1>2. drawn + Len(bs) <= MaxDrawn
  BY <1>1, NumberedLength DEF Record
<1>3. o \in Seq(Bundles) /\ o # <<>>
  BY <1>1, <1>2, NumberedSound
<1> HIDE DEF o
<1>4. Idle \in RunStates /\ Idle.phase = "idle"
  BY DEF Idle, RunStates
<1>5. CASE run' = [run EXCEPT ![r] = Idle]
  BY <1>1, <1>4, <1>5
<1>6. CASE run' = [run EXCEPT ![r] = [@ EXCEPT !.phase = "publish", !.bundles = o]]
  <2>1. run'[r] = [run[r] EXCEPT !.phase = "publish", !.bundles = o]
    BY <1>1, <1>6
  <2>2. /\ run'[r] \in RunStates /\ run'[r].phase = "publish"
        /\ run'[r].bundles = o
    BY <1>1, <1>3, <2>1 DEF RunStates
  <2>3. QED
    BY <1>1, <1>3, <1>6, <2>2 DEF o
<1>7. QED
  BY <1>5, <1>6 DEF Record, Publish, o

LEMMA TroublesBounded ==
  ASSUME BundlerTypes, Trouble \/ UNCHANGED troubles
  PROVE  troubles' \in 0 .. MaxTroubles
BY BundlerBounds DEF BundlerTypes, Trouble

-----------------------------------------------------------------------------
(* Types.                                                                  *)

LEMMA InitTypes ==
  Init => BundlerTypes /\ ExtractTypes
<1> SUFFICES ASSUME Init PROVE BundlerTypes /\ ExtractTypes
  OBVIOUS
<1>1. Idle \in RunStates /\ Idle.phase = "idle"
  BY DEF Idle, RunStates
<1>2. size \in [Messages -> Nat] /\ drawn = 0 /\ troubles = 0
  BY DataAssumption DEF Init, BundlerInit
<1>3. rows \in [Messages -> Row \cup {NoRow}]
  BY DEF Init, Row
<1>4. run \in [Runs -> RunStates] /\ \A r \in Runs : run[r].phase = "idle"
  BY <1>1 DEF Init, BundlerInit
<1>5. BundlerTypes
  BY <1>2, <1>3, <1>4, BundlerBounds, RecordingsAssumption
     DEF Init, BundlerInit, BundlerTypes
<1>6. ExtractTypes
  BY RecordingsAssumption DEF Init, ExtractTypes, Extracts, NotRunning, Numbers
<1>7. QED
  BY <1>5, <1>6

\* The steps of the bundle commands.
LEMMA BundlerStepTypes ==
  ASSUME BundlerTypes, ReadInv, BundlerNext
  PROVE  BundlerTypes'
<1>1. ASSUME NEW r \in Runs, NEW o \in SUBSET Options,
             NEW uuids \in SUBSET (Uuids \cup {Empty}), Begin(r, o, uuids)
      PROVE  BundlerTypes'
  <2>1. BegunWell(r)
    BY <1>1, BeginsWell
  <2>2. troubles' \in 0 .. MaxTroubles
    BY <1>1, TroublesBounded DEF Begin
  <2>3. \A q \in Runs : run'[q].phase # "idle" => run'[q].bundles # <<>>
    BY <2>1 DEF BegunWell, BundlerTypes
  <2>4. QED
    BY <2>1, <2>2, <2>3 DEF BegunWell, BundlerTypes
<1>2. ASSUME NEW r \in Runs, Record(r)
      PROVE  BundlerTypes'
  <2>1. RecordedWell(r)
    BY <1>2, RecordGoesWell
  <2>2. troubles' \in 0 .. MaxTroubles
    BY <1>2, TroublesBounded DEF Record
  <2>3. /\ run' \in [Runs -> RunStates]
        /\ \A q \in Runs : run'[q].phase # "idle" => run'[q].bundles # <<>>
    BY <1>2, RecordPublishes
  <2>4. drawn' \in 0 .. MaxDrawn
    <3>1. run[r].bundles \in Seq(Bundles)
      BY DEF BundlerTypes, RunStates
    <3>2. Len(run[r].bundles) \in Nat /\ drawn \in Nat
      BY <3>1 DEF BundlerTypes
    <3>3. QED
      BY <2>1, <3>2, BundlerBounds DEF RecordedWell
  <2>5. QED
    BY <1>2, <2>1, <2>2, <2>3, <2>4 DEF RecordedWell, BundlerTypes, Record
<1>3. ASSUME NEW r \in Runs, ZipNext(r)
      PROVE  BundlerTypes'
  <2>1. Onward(r)
    BY <1>3, GoesOnward DEF ZipNext
  <2>2. troubles' \in 0 .. MaxTroubles
    BY <1>3, TroublesBounded DEF ZipNext
  <2>3. Head(run[r].bundles) \in Bundles
    <3>1. run[r].bundles \in Seq(Bundles) /\ run[r].bundles # <<>>
      BY <1>3 DEF BundlerTypes, RunStates, ZipNext
    <3>2. QED
      BY <3>1
  <2>4. QED
    BY <1>3, <2>1, <2>2, <2>3 DEF ZipNext, Onward, BundlerTypes
<1>4. ASSUME NEW r \in Runs, Copy(r)
      PROVE  BundlerTypes'
  <2>1. Onward(r)
    BY <1>4, GoesOnward DEF Copy
  <2>2. Head(run[r].bundles).messages \subseteq Messages
    <3>1. run[r].bundles \in Seq(Bundles) /\ run[r].bundles # <<>>
      BY <1>4 DEF BundlerTypes, RunStates, Copy
    <3>2. Head(run[r].bundles) \in Bundles
      BY <3>1
    <3>3. QED
      BY <3>2 DEF Bundles
  <2>3. copies' \subseteq Messages
    BY <1>4, <2>2 DEF Copy, BundlerTypes
  <2>4. QED
    BY <1>4, <2>1, <2>3 DEF Copy, Onward, BundlerTypes
<1>5. ASSUME NEW r \in Runs, Crash(r)
      PROVE  BundlerTypes'
  <2>1. Onward(r)
    BY <1>5, GoesOnward DEF Crash
  <2>2. troubles' \in 0 .. MaxTroubles
    BY <1>5, TroublesBounded DEF Crash
  <2>3. QED
    BY <1>5, <2>1, <2>2 DEF Crash, Onward, BundlerTypes
<1>6. \A r \in Runs :
        /\ Begin(r, {}, {}) => BundlerTypes'
        /\ \A o \in Commands \ {{}} :
             Begin(r, o, Uuids \cup {Empty}) => BundlerTypes'
        /\ \A u \in Uuids : Begin(r, {"only_zip"}, {u}) => BundlerTypes'
  <2>1. Commands \subseteq SUBSET Options /\ {"only_zip"} \in SUBSET Options
    BY DEF Commands, Options
  <2>2. QED
    BY <1>1, <2>1
<1>7. QED
  BY <1>2, <1>3, <1>4, <1>5, <1>6 DEF BundlerNext

LEMMA NextFileTypes ==
  ASSUME ExtractTypes, NEW props \in SUBSET (Recordings \X {Right, "None"}),
         NextFile(props)
  PROVE  /\ extract' \in Extracts /\ extract'.phase = "file"
         /\ extract'.props = extract.props \cup props
<1>1. extract.props \cup props \in SUBSET (Recordings \X {Right, "None"})
  BY DEF ExtractTypes, Extracts
<1>2. extract' = [extract EXCEPT !.phase = "file", !.file = NoFile,
                                 !.props = extract.props \cup props]
  BY DEF NextFile
<1> DEFINE all == extract.props \cup props
<1> HIDE DEF all
<1>3. QED
  BY <1>1, <1>2 DEF all, ExtractTypes, Extracts

\* The steps of the utility's other commands, and of the surroundings, leave
\* the bundle commands alone.
LEMMA OtherStepTypes ==
  ASSUME BundlerTypes, ExtractTypes, [Next]_vars,
         ~ (BundlerNext /\ UNCHANGED extraction)
  PROVE  BundlerTypes' /\ ExtractTypes'
<1>1. CASE UNCHANGED vars
  BY <1>1 DEF vars, BundlerTypes, ExtractTypes
<1>2. CASE StartExtract
  BY <1>2 DEF StartExtract, NotRunning, Extracts, bundler, BundlerTypes,
              ExtractTypes
<1>3. CASE CrashExtract
  BY <1>3, TroublesBounded
     DEF CrashExtract, NotRunning, Extracts, bundler, BundlerTypes, ExtractTypes
<1>4. ASSUME NEW m \in Recordings, Sidecar(m)
      PROVE  BundlerTypes' /\ ExtractTypes'
  <2>1. NumberOf(m) \in {Right, "None"} /\ NumberOf(m) # NotYet
    BY DEF NumberOf, ExtractTypes, Numbers, NotYet, Right
  <2>2. sidecar' \in [Recordings -> Numbers] /\ sidecar'[m] = NumberOf(m)
    BY <1>4, <2>1 DEF Sidecar, ExtractTypes, Numbers
  <2>3. PICK a \in BOOLEAN, f \in Recordings \cup {NoFile}, p \in {"file", "export"} :
          /\ extract' = [extract EXCEPT !.files = @ \ {m}, !.aborted = a,
                                        !.file = f, !.phase = p]
          /\ p = "export" => f = m
    <3>1. extract.aborted \in BOOLEAN
      BY DEF ExtractTypes, Extracts
    <3>2. QED
      BY <1>4, <3>1 DEF Sidecar
  <2>4. extract' \in Extracts /\ (extract'.phase = "export" => extract'.file = m)
    BY <2>3 DEF ExtractTypes, Extracts
  <2>5. troubles' \in 0 .. MaxTroubles
    BY <1>4, TroublesBounded DEF Sidecar
  <2>6. QED
    BY <1>4, <2>1, <2>2, <2>4, <2>5
       DEF Sidecar, bundler, BundlerTypes, ExtractTypes
<1>5. ASSUME NEW m \in Recordings, LeaveOut(m)
      PROVE  BundlerTypes' /\ ExtractTypes'
  <2>1. troubles' \in 0 .. MaxTroubles
    BY <1>5, TroublesBounded DEF LeaveOut, QueryThrows
  <2>2. extract' \in Extracts /\ extract'.phase = "file"
    BY <1>5 DEF LeaveOut, QueryThrows, ExtractTypes, Extracts
  <2>3. QED
    BY <1>5, <2>1, <2>2 DEF LeaveOut, bundler, BundlerTypes, ExtractTypes
<1>6. CASE Export
  <2> DEFINE m == extract.file
  <2>1. m \in Recordings /\ sidecar[m] \in {Right, "None"}
    BY <1>6 DEF Export, ExtractTypes, Numbers
  <2>2. troubles' \in 0 .. MaxTroubles
    BY <1>6, TroublesBounded DEF Export
  <2>3. saved' \subseteq Recordings \X {Right, "None"}
    BY <1>6, <2>1 DEF Export, ExtractTypes
  <2>4. extract' \in Extracts /\ extract'.phase # "export"
    <3>1. NotRunning \in Extracts /\ NotRunning.phase = "idle"
      BY DEF NotRunning, Extracts
    <3>2. {<<m, sidecar[m]>>} \in SUBSET (Recordings \X {Right, "None"})
      BY <2>1
    <3>3. \/ NextFile({<<m, sidecar[m]>>}) \/ NextFile({})
          \/ extract' = NotRunning
      BY <1>6 DEF Export
    <3> HIDE DEF m
    <3>4. QED
      BY <3>1, <3>2, <3>3, NextFileTypes
  <2>5. QED
    BY <1>6, <2>2, <2>3, <2>4 DEF Export, bundler, BundlerTypes, ExtractTypes
<1>7. CASE Commit
  <2>1. extract.props \in SUBSET (Recordings \X {Right, "None"})
    BY DEF ExtractTypes, Extracts
  <2>2. Inserted(extract.props) \in [Messages -> Row \cup {NoRow}]
    BY <2>1, InsertedSound
  <2>3. troubles' \in 0 .. MaxTroubles
    BY <1>7, TroublesBounded DEF Commit
  <2>4. QED
    BY <1>7, <2>2, <2>3
       DEF Commit, NotRunning, Extracts, bundler, BundlerTypes, ExtractTypes
<1>8. CASE Import
  <2>1. Inserted(saved) \in [Messages -> Row \cup {NoRow}]
    BY InsertedSound DEF ExtractTypes
  <2>2. QED
    BY <1>8, <2>1 DEF Import, bundler, extraction, BundlerTypes, ExtractTypes
<1>9. CASE UploadAudio
  <2>1. stored' \subseteq Messages
    BY <1>9, RecordingsAssumption DEF UploadAudio, BundlerTypes
  <2>2. QED
    BY <1>9, <2>1
       DEF UploadAudio, bundler, extraction, BundlerTypes, ExtractTypes
<1>10. CASE Deploy
  BY <1>10 DEF Deploy, bundler, BundlerTypes, ExtractTypes
<1>11. ASSUME NEW m \in Imported, ImportAgain(m)
       PROVE  BundlerTypes' /\ ExtractTypes'
  <2>1. m \in Messages /\ troubles' \in 0 .. MaxTroubles
    BY <1>11, TroublesBounded, RecordingsAssumption DEF ImportAgain
  <2>2. rows' \in [Messages -> Row \cup {NoRow}]
    <3>1. [number |-> Right, bundle |-> Null] \in Row
      BY DEF Row
    <3>2. QED
      BY <1>11, <3>1 DEF ImportAgain, BundlerTypes
  <2>3. QED
    BY <1>11, <2>1, <2>2 DEF ImportAgain, BundlerTypes, ExtractTypes
<1>12. QED
  BY <1>1, <1>2, <1>3, <1>4, <1>5, <1>6, <1>7, <1>8, <1>9, <1>10, <1>11 DEF Next

-----------------------------------------------------------------------------
(* Deployment numbers.                                                     *)

LEMMA InitNumbers ==
  Init => NumbersInv
<1> SUFFICES ASSUME Init PROVE NumbersInv
  OBVIOUS
<1>1. \A m \in Messages : rows[m] = NoRow \/ rows[m].number = Right
  BY DEF Init
<1>2. \A m \in Recordings : sidecar[m] # "None"
  BY RecordingsAssumption DEF Init, NotYet, Right
<1>3. saved = {} /\ extract.props = {}
  BY DEF Init, NotRunning
<1>4. QED
  BY <1>1, <1>2, <1>3 DEF NumbersInv

LEMMA NextNumbers ==
  ASSUME BundlerTypes, ExtractTypes, ReadInv, NumbersInv, [Next]_vars
  PROVE  NumbersInv'
<1>1. CASE UNCHANGED vars
  BY <1>1 DEF vars, NumbersInv
<1>2. CASE StartExtract \/ CrashExtract
  <2>1. extract'.props = {}
    <3>1. [NotRunning EXCEPT !.phase = "file", !.files = Recordings].props = {}
      BY DEF NotRunning
    <3>2. NotRunning.props = {}
      BY DEF NotRunning
    <3>3. QED
      BY <1>2, <3>1, <3>2 DEF StartExtract, CrashExtract
  <2>2. UNCHANGED <<rows, sidecar, saved, early>>
    BY <1>2 DEF StartExtract, CrashExtract
  <2>3. QED
    BY <2>1, <2>2 DEF NumbersInv
<1>3. ASSUME NEW m \in Recordings, Sidecar(m)
      PROVE  NumbersInv'
  <2>1. early \subseteq early' /\ (NumberOf(m) = "None" => m \in early')
    BY <1>3 DEF Sidecar, NumberOf, NumbersInv, NotYet, Right
  <2>2. \A k \in Recordings : sidecar'[k] = "None" => k \in early'
    BY <1>3, <2>1 DEF Sidecar, NumbersInv, ExtractTypes
  <2>3. extract'.props = extract.props
    BY <1>3 DEF Sidecar, ExtractTypes, Extracts
  <2>4. QED
    BY <1>3, <2>1, <2>2, <2>3 DEF Sidecar, NumbersInv
<1>4. ASSUME NEW m \in Recordings, LeaveOut(m)
      PROVE  NumbersInv'
  <2>1. extract'.props = extract.props
    BY <1>4 DEF LeaveOut, ExtractTypes, Extracts
  <2>2. QED
    BY <1>4, <2>1 DEF LeaveOut, NumbersInv
<1>5. CASE Export
  <2> DEFINE m == extract.file
             new == <<m, sidecar[m]>>
  <2>1. m \in Recordings
    BY <1>5 DEF Export, ExtractTypes
  <2>2. saved' \cup extract'.props \subseteq saved \cup extract.props \cup {new}
    <3>1. \/ saved' = saved \cup {new} /\ NextFile({new})
          \/ saved' = saved /\ (NextFile({}) \/ extract' = NotRunning)
      BY <1>5 DEF Export
    <3>2. NotRunning.props = {}
      BY DEF NotRunning
    <3>3. {new} \in SUBSET (Recordings \X {Right, "None"})
      BY <1>5, <2>1 DEF Export, ExtractTypes, Numbers
    <3> HIDE DEF new
    <3>4. QED
      BY <3>1, <3>2, <3>3, NextFileTypes
  <2>3. \A k \in Recordings :
          <<k, "None">> \in saved \cup extract.props \cup {new} => k \in early
    BY <2>1 DEF NumbersInv
  <2> HIDE DEF new
  <2>4. \A k \in Recordings : <<k, "None">> \in saved' \cup extract'.props => k \in early
    BY <2>2, <2>3
  <2>5. QED
    BY <1>5, <2>4 DEF Export, NumbersInv
<1>6. ASSUME NEW props \in SUBSET (Recordings \X {Right, "None"}),
             props \subseteq saved \cup extract.props, rows' = Inserted(props),
             UNCHANGED <<sidecar, saved, early>>,
             extract' \in {extract, NotRunning}
      PROVE  NumbersInv'
  <2>1. \A k \in Messages :
          \/ Inserted(props)[k] = rows[k]
          \/ k \in Recordings /\ <<k, Inserted(props)[k].number>> \in props
    BY InsertedSound
  <2>2. \A k \in Messages :
          Inserted(props)[k] \in Row \cup {NoRow}
    BY InsertedSound
  <2>3. \A k \in Messages :
          rows'[k] # NoRow /\ rows'[k].number # Right => k \in early
    BY <1>6, <2>1, <2>2 DEF NumbersInv, Row
  <2>4. QED
    BY <1>6, <2>3 DEF NumbersInv, NotRunning
<1>7. CASE Commit
  <2>1. extract.props \in SUBSET (Recordings \X {Right, "None"})
    BY DEF ExtractTypes, Extracts
  <2>2. CASE rows' = Inserted(extract.props)
    BY <1>6, <1>7, <2>1, <2>2 DEF Commit
  <2>3. CASE UNCHANGED rows
    BY <1>7, <2>3 DEF Commit, NotRunning, NumbersInv
  <2>4. QED
    BY <1>7, <2>2, <2>3 DEF Commit
<1>8. CASE Import
  BY <1>6, <1>8 DEF Import, extraction, ExtractTypes
<1>9. CASE UploadAudio \/ Deploy
  BY <1>9 DEF UploadAudio, Deploy, extraction, NumbersInv
<1>10. ASSUME NEW m \in Imported, ImportAgain(m)
       PROVE  NumbersInv'
  BY <1>10 DEF ImportAgain, NumbersInv, BundlerTypes
<1>11. CASE BundlerNext /\ UNCHANGED extraction
  <2>1. ASSUME NEW m \in Messages, rows'[m] # NoRow, rows'[m].number # Right
        PROVE  rows[m] # NoRow /\ rows[m].number # Right
    <3>1. CASE rows' = rows
      BY <2>1, <3>1
    <3>2. ASSUME NEW r \in Runs, Record(r)
          PROVE  rows[m] # NoRow /\ rows[m].number # Right
      <4>1. RecordedWell(r) /\ ReadWell(r)
        BY <3>2, RecordGoesWell DEF ReadInv, Record
      <4>2. CASE m \notin MessagesOf(run[r].bundles)
        BY <2>1, <4>1, <4>2 DEF RecordedWell
      <4>3. CASE m \in MessagesOf(run[r].bundles)
        <5>1. rows[m] # NoRow
          BY <4>1, <4>3 DEF ReadWell
        <5>2. PICK i \in DOMAIN run[r].bundles : m \in run[r].bundles[i].messages
          BY <4>3 DEF MessagesOf
        <5>3. rows'[m].number = rows[m].number
          BY <4>1, <5>2 DEF RecordedWell
        <5>4. QED
          BY <2>1, <5>1, <5>3
      <4>4. QED
        BY <4>2, <4>3
    <3>3. rows' = rows \/ \E r \in Runs : Record(r)
      BY <1>11 DEF BundlerNext, Begin, ZipNext, Copy, Crash
    <3>4. QED
      BY <3>1, <3>2, <3>3
  <2>2. QED
    BY <1>11, <2>1 DEF extraction, NumbersInv
<1>12. QED
  BY <1>1, <1>2, <1>3, <1>4, <1>5, <1>7, <1>8, <1>9, <1>10, <1>11 DEF Next

-----------------------------------------------------------------------------
(* Bundles.                                                                *)

\* A step that leaves alone the rows that bundles rely on: it gives a row no
\* bundle or a new one, and takes one away only from a message it excuses.
Harmless ==
  /\ size' = size /\ excused \subseteq excused'
  /\ drawn' \in Nat /\ drawn <= drawn'
  /\ \A m \in Messages :
       \/ rows'[m] = rows[m]
       \/ /\ rows[m] = NoRow \/ m \in excused' \/ rows[m].bundle \in {Null, Empty}
          /\ rows'[m] # NoRow
          /\ \/ rows'[m].bundle \in {Null, Empty}
             \/ /\ rows'[m].bundle \in Uuids
                /\ rows'[m].bundle > drawn /\ rows'[m].bundle <= drawn'

LEMMA SameFits ==
  ASSUME size' = size
  PROVE  \A S : Fits(S)' = Fits(S)
BY SameBytes DEF Fits

LEMMA FitsSubset ==
  ASSUME size \in [Messages -> Nat], NEW T \in SUBSET Messages, Fits(T),
         NEW S \in SUBSET T
  PROVE  Fits(S)
<1>1. /\ Bytes[S] \in Nat /\ Bytes[T] \in Nat /\ MaxBytes \in Nat
      /\ Bytes[S] <= Bytes[T]
  BY BytesGrow, BytesType, BundlerBounds
<1>2. CASE Bytes[T] <= MaxBytes
  BY <1>1, <1>2 DEF Fits
<1>3. CASE \E m \in T : T = {m}
  <2>1. CASE S = {}
    <3>1. Bytes[S] = 0
      BY <2>1, BytesUnfolds
    <3>2. QED
      BY <1>1, <3>1 DEF Fits
  <2>2. CASE S # {}
    BY <1>3, <2>2 DEF Fits
  <2>3. QED
    BY <2>1, <2>2
<1>4. QED
  BY <1>2, <1>3 DEF Fits

\* A bundle that was drawn gains no messages.
LEMMA InBundleShrinks ==
  ASSUME BundlerTypes, Harmless, NEW u \in Uuids, u <= drawn \/ drawn' < u
  PROVE  InBundle(u)' \subseteq InBundle(u)
<1> SUFFICES ASSUME NEW m \in InBundle(u)' PROVE m \in InBundle(u)
  OBVIOUS
<1>1. /\ m \in Messages /\ rows'[m] # NoRow /\ rows'[m].number = Right
      /\ rows'[m].bundle = u
  BY DEF InBundle, Found
<1>2. drawn \in Nat /\ u \in Nat
  BY BundlerBounds DEF BundlerTypes, Uuids
<1>3. rows'[m] = rows[m]
  BY <1>1, <1>2, RowAssumption DEF Harmless
<1>4. QED
  BY <1>1, <1>3 DEF InBundle, Found

LEMMA SoundStays ==
  ASSUME BundlerTypes, Harmless, NEW b \in Bundles, Sound(b)
  PROVE  Sound(b)'
<1> DEFINE u == b.uuid
<1>1. u \in Uuids /\ u <= drawn /\ u \in Nat /\ drawn \in Nat
  BY DEF Sound, Uuids, BundlerTypes
<1>2. InBundle(u)' \subseteq b.messages
  BY <1>1, InBundleShrinks DEF Sound
<1>3. u <= drawn'
  BY <1>1 DEF Harmless
<1>4. Fits(b.messages)'
  BY SameFits DEF Harmless, Sound
<1>5. \A m \in b.messages \ excused' : rows'[m] # NoRow /\ rows'[m].bundle = u
  <2>1. b.messages \subseteq Messages
    BY DEF Bundles
  <2>2. QED
    BY <1>1, <2>1, RowAssumption DEF Harmless, Sound
<1>6. QED
  BY <1>1, <1>2, <1>3, <1>4, <1>5 DEF Sound

LEMMA RowsStay ==
  ASSUME BundlerTypes, RowsInv, Harmless,
         \A u \in Uuids : drawn < u /\ u <= drawn' =>
           /\ Fits(InBundle(u)')
           /\ \A m, n \in InBundle(u)' : Language[m] = Language[n]
  PROVE  RowsInv'
<1>1. \A m \in Messages :
        rows'[m] # NoRow /\ rows'[m].bundle \in Uuids => rows'[m].bundle <= drawn'
  <2>1. drawn \in Nat /\ \A u \in Uuids : u \in Nat
    BY DEF BundlerTypes, Uuids
  <2>2. QED
    BY <2>1, RowAssumption DEF Harmless, RowsInv
<1>2. ASSUME NEW u \in Uuids
      PROVE  /\ Fits(InBundle(u)')
             /\ \A m, n \in InBundle(u)' : Language[m] = Language[n]
  <2>1. drawn \in Nat /\ drawn' \in Nat /\ u \in Nat
    BY DEF BundlerTypes, Harmless, Uuids
  <2>2. CASE drawn < u /\ u <= drawn'
    BY <2>2
  <2>3. CASE u <= drawn \/ drawn' < u
    <3>1. InBundle(u)' \subseteq InBundle(u)
      BY <2>3, InBundleShrinks
    <3>2. InBundle(u) \in SUBSET Messages
      BY DEF InBundle, Found
    <3>3. Fits(InBundle(u)')
      BY <3>1, <3>2, FitsSubset DEF RowsInv, BundlerTypes
    <3>4. QED
      BY <3>1, <3>3 DEF RowsInv
  <2>4. QED
    BY <2>1, <2>2, <2>3
<1>3. \A u \in Uuids : Fits(InBundle(u))'
  BY <1>2, SameFits DEF Harmless
<1>4. QED
  BY <1>1, <1>2, <1>3 DEF RowsInv

LEMMA ReadStays ==
  ASSUME BundlerTypes, Harmless, NEW r \in Runs, ReadWell(r), run'[r] = run[r],
         \A m \in MessagesOf(run[r].bundles) \ excused' :
           rows'[m] = rows[m] \/ rows'[m].bundle \in {Null, Empty}
  PROVE  ReadWell(r)'
<1> DEFINE bs == run[r].bundles
<1>1. MessagesOf(bs) \subseteq Messages
  BY MessagesOfType DEF BundlerTypes, RunStates
<1>2. \A i \in DOMAIN bs : Proper(bs[i], Messages)'
  BY SameFits DEF ReadWell, Proper, Harmless
<1>3. \A m \in MessagesOf(bs) :
        rows'[m] # NoRow /\ (m \in excused' \/ rows'[m].bundle \in {Null, Empty})
  BY <1>1 DEF ReadWell, Harmless
<1>4. QED
  BY <1>2, <1>3 DEF ReadWell, Apart, MessagesOf

\* Steps that leave the runs and the zips, and draw no uuid.
LEMMA RunsAlone ==
  ASSUME BundlerTypes, OutgoingInv, RowsInv, ReadInv, Harmless,
         UNCHANGED <<zips, run, drawn>>
  PROVE  OutgoingInv' /\ RowsInv' /\ ReadInv'
<1>1. drawn \in Nat /\ \A u \in Uuids : u \in Nat
  BY DEF BundlerTypes, Uuids
<1>2. RowsInv'
  BY <1>1, RowsStay
<1>3. Outgoing' = Outgoing /\ Outgoing \subseteq Bundles
  BY DEF Outgoing, BundlerTypes
<1>4. OutgoingInv'
  BY <1>3, SoundStays DEF OutgoingInv
<1>5. ASSUME NEW r \in Runs, run[r].phase = "read"
      PROVE  ReadWell(r)'
  <2>1. MessagesOf(run[r].bundles) \subseteq Messages
    BY MessagesOfType DEF BundlerTypes, RunStates
  <2>2. \A m \in Messages : rows'[m] = rows[m] \/ rows'[m].bundle \in {Null, Empty}
    BY <1>1 DEF Harmless
  <2>3. QED
    BY <1>5, <2>1, <2>2, ReadStays DEF ReadInv
<1>6. ReadInv'
  BY <1>5 DEF ReadInv, Harmless, MessagesOf
<1>7. QED
  BY <1>2, <1>4, <1>6

LEMMA BeginKeeps ==
  ASSUME BundlerTypes, OutgoingInv, RowsInv, ReadInv,
         NEW r \in Runs, BegunWell(r)
  PROVE  OutgoingInv' /\ RowsInv' /\ ReadInv'
<1> DEFINE bs == run'[r].bundles
<1>1. drawn \in Nat /\ \A u \in Uuids : u \in Nat
  BY DEF BundlerTypes, Uuids
<1>2. Harmless
  BY <1>1 DEF BegunWell, Harmless
<1>3. RowsInv'
  BY <1>1, <1>2, RowsStay DEF BegunWell
<1>4. bs \in Seq(Bundles)
  BY DEF BegunWell, RunStates
<1>5. ASSUME NEW b \in Outgoing'
      PROVE  (b.uuid = Empty \/ Sound(b))'
  <2>1. b \in Bundles
    BY DEF Outgoing, BegunWell, BundlerTypes
  <2>2. CASE b \in Outgoing
    BY <1>2, <2>1, <2>2, SoundStays DEF OutgoingInv
  <2>3. CASE b \notin Outgoing
    <3>1. PICK q \in Runs : /\ run'[q].phase = "publish"
                            /\ WantsZips(run'[q].options)
                            /\ \E i \in DOMAIN run'[q].bundles :
                                 run'[q].bundles[i] = b
      BY <2>3 DEF Outgoing, BegunWell
    <3>2. q = r
      BY <2>1, <2>3, <3>1 DEF Outgoing, BegunWell
    <3>3. PICK i \in DOMAIN bs : bs[i] = b
      BY <3>1, <3>2
    <3>4. /\ b.uuid \in Uuids \cup {Empty} /\ b.messages = InBundle(b.uuid)
          /\ \E m \in InBundle(b.uuid) : b.language = Language[m]
      BY <3>1, <3>2, <3>3 DEF BegunWell
    <3>5. CASE b.uuid \in Uuids
      <4>1. \A m \in b.messages : Language[m] = b.language
        BY <3>4, <3>5 DEF RowsInv
      <4>2. Fits(b.messages)
        BY <3>4, <3>5 DEF RowsInv
      <4>3. \A m \in b.messages : rows[m] # NoRow /\ rows[m].bundle = b.uuid
        BY <3>4 DEF InBundle, Found
      <4>4. b.uuid <= drawn
        <5>1. PICK m \in b.messages : m \in Messages
          BY <3>4 DEF InBundle, Found
        <5>2. QED
          BY <3>5, <4>3, <5>1 DEF RowsInv
      <4>5. Sound(b)
        BY <3>4, <3>5, <4>1, <4>2, <4>3, <4>4 DEF Sound
      <4>6. QED
        BY <1>2, <2>1, <4>5, SoundStays
    <3>6. QED
      BY <3>4, <3>5
  <2>4. QED
    BY <2>2, <2>3
<1>6. ASSUME NEW q \in Runs, run'[q].phase = "read"
      PROVE  ReadWell(q)'
  <2>1. CASE q = r
    <3>1. (\A i \in DOMAIN run[r].bundles : Proper(run[r].bundles[i], Messages))'
      BY <1>6, <2>1, SameFits DEF BegunWell, Proper
    <3>2. Apart(run[r].bundles)'
      BY <1>6, <2>1 DEF BegunWell, Apart
    <3>3. QED
      BY <1>6, <2>1, <3>1, <3>2 DEF BegunWell, ReadWell, MessagesOf
  <2>2. CASE q # r
    <3>1. run'[q] = run[q] /\ ReadWell(q)
      BY <1>6, <2>2 DEF BegunWell, ReadInv
    <3>2. QED
      BY <1>2, <3>1, ReadStays DEF BegunWell
  <2>3. QED
    BY <2>1, <2>2
<1>7. ASSUME NEW p \in Runs, NEW q \in Runs, p # q,
             run'[p].phase = "read", run'[q].phase = "read"
      PROVE  MessagesOf(run'[p].bundles) \cap MessagesOf(run'[q].bundles)
               \subseteq excused'
  BY <1>7 DEF BegunWell, ReadInv
<1>8. QED
  BY <1>3, <1>5, <1>6, <1>7 DEF OutgoingInv, ReadInv, MessagesOf

\* A run that publishes, or ends.
LEMMA OnwardKeeps ==
  ASSUME BundlerTypes, OutgoingInv, RowsInv, ReadInv,
         NEW r \in Runs, Onward(r), UNCHANGED <<size, rows, drawn, excused>>,
         \/ zips' = zips
         \/ /\ run[r].phase = "publish" /\ WantsZips(run[r].options)
            /\ zips' = zips \cup {Head(run[r].bundles)}
  PROVE  OutgoingInv' /\ RowsInv' /\ ReadInv'
<1>1. drawn \in Nat /\ \A u \in Uuids : u \in Nat
  BY DEF BundlerTypes, Uuids
<1>2. Harmless
  BY <1>1 DEF Harmless
<1>3. RowsInv'
  BY <1>1, <1>2, RowsStay
<1>4. Outgoing' \subseteq Outgoing /\ Outgoing \subseteq Bundles
  <2>1. zips \subseteq Bundles
    BY DEF BundlerTypes
  <2>2. zips' \subseteq Outgoing
    <3>1. CASE zips' = zips
      BY <3>1 DEF Outgoing
    <3>2. CASE /\ run[r].phase = "publish" /\ WantsZips(run[r].options)
               /\ zips' = zips \cup {Head(run[r].bundles)}
      <4>1. run[r].bundles \in Seq(Bundles) /\ run[r].bundles # <<>>
        BY <3>2 DEF BundlerTypes, RunStates
      <4>2. /\ 1 \in DOMAIN run[r].bundles /\ Head(run[r].bundles) \in Bundles
            /\ Head(run[r].bundles) = run[r].bundles[1]
        BY <4>1
      <4>3. QED
        BY <3>2, <4>2 DEF Outgoing
    <3>3. QED
      BY <3>1, <3>2
  <2>3. ASSUME NEW b \in Bundles, NEW q \in Runs, run'[q].phase = "publish",
               WantsZips(run'[q].options),
               NEW i \in DOMAIN run'[q].bundles, run'[q].bundles[i] = b
        PROVE  b \in Outgoing
    BY <2>3 DEF Onward, Outgoing
  <2>4. QED
    BY <2>1, <2>2, <2>3 DEF Outgoing
<1>5. OutgoingInv'
  BY <1>2, <1>4, SoundStays DEF OutgoingInv
<1>6. \A q \in Runs : run'[q].phase = "read" =>
        run[q].phase = "read" /\ run'[q] = run[q]
  BY DEF Onward
<1>7. \A q \in Runs : run'[q].phase = "read" => ReadWell(q)'
  BY <1>2, <1>6, ReadStays DEF ReadInv
<1>8. QED
  BY <1>3, <1>5, <1>6, <1>7 DEF ReadInv, MessagesOf

\* The bundles that a run records are new, and have all their rows.
LEMMA RecordKeeps ==
  ASSUME BundlerTypes, OutgoingInv, RowsInv, ReadInv, NEW r \in Runs, Record(r)
  PROVE  OutgoingInv' /\ RowsInv' /\ ReadInv'
<1> DEFINE bs == run[r].bundles
           o == Numbered(bs)
<1>1. /\ drawn \in Nat /\ drawn' \in Nat /\ drawn' = drawn + Len(bs)
      /\ Len(bs) \in Nat /\ DOMAIN bs = 1 .. Len(bs) /\ bs \in Seq(Bundles)
      /\ \A u \in Uuids : u \in Nat
  <2>1. bs \in Seq(Bundles) /\ RecordedWell(r)
    BY RecordGoesWell DEF BundlerTypes, RunStates
  <2>2. Len(bs) \in Nat /\ DOMAIN bs = 1 .. Len(bs)
    BY <2>1
  <2>3. QED
    BY <2>1, <2>2 DEF BundlerTypes, RecordedWell, Uuids
<1>2. /\ drawn' <= MaxDrawn /\ excused \subseteq excused'
      /\ \A m \in Messages \ MessagesOf(bs) : rows'[m] = rows[m]
      /\ \/ rows' = rows /\ MessagesOf(bs) \subseteq excused'
         \/ \A i \in DOMAIN bs : \A m \in bs[i].messages :
              rows'[m] # NoRow /\ rows'[m].bundle = drawn + i
  BY RecordGoesWell DEF RecordedWell
<1>3. UNCHANGED <<size, zips>> /\ run[r].phase = "read" /\ ReadWell(r)
  BY DEF Record, ReadInv
<1>4. /\ DOMAIN o = DOMAIN bs
      /\ \A i \in DOMAIN bs : /\ i \in Nat /\ i > 0
                              /\ drawn + i \in Uuids /\ drawn + i <= drawn'
                              /\ o[i].uuid = drawn + i
                              /\ o[i].messages = bs[i].messages
                              /\ o[i].language = bs[i].language
  BY <1>1, <1>2, NumberedSound
<1>5. /\ \A q \in Runs \ {r} : run'[q] = run[q]
      /\ run'[r].phase # "idle" =>
           run'[r].phase = "publish" /\ run'[r].bundles = o
  BY RecordPublishes
<1>6. \A m \in MessagesOf(bs) : \E i \in DOMAIN bs : m \in bs[i].messages
  BY DEF MessagesOf
<1>7. MessagesOf(bs) \subseteq Messages
  BY <1>1, MessagesOfType
<1>8. \A i \in DOMAIN bs :
        /\ bs[i].messages \subseteq MessagesOf(bs) /\ Fits(bs[i].messages)
        /\ \A m \in bs[i].messages : Language[m] = bs[i].language
  BY <1>3 DEF ReadWell, Proper, MessagesOf
<1>9. \A m \in MessagesOf(bs) :
        rows[m] # NoRow /\ (m \in excused \/ rows[m].bundle \in {Null, Empty})
  BY <1>3 DEF ReadWell
<1> HIDE DEF bs, o
<1>10. Harmless
  <2>1. ASSUME NEW m \in MessagesOf(bs)
        PROVE  \/ rows'[m] = rows[m]
               \/ /\ m \in excused' \/ rows[m].bundle \in {Null, Empty}
                  /\ rows'[m] # NoRow /\ rows'[m].bundle \in Uuids
                  /\ rows'[m].bundle > drawn /\ rows'[m].bundle <= drawn'
    <3>1. CASE rows' = rows
      BY <3>1
    <3>2. CASE \A i \in DOMAIN bs : \A k \in bs[i].messages :
                 rows'[k] # NoRow /\ rows'[k].bundle = drawn + i
      <4>1. PICK i \in DOMAIN bs : m \in bs[i].messages
        BY <1>6
      <4>2. /\ rows'[m] # NoRow /\ rows'[m].bundle = drawn + i
            /\ drawn + i \in Uuids /\ drawn + i <= drawn'
            /\ i \in Nat /\ i > 0
        BY <1>4, <3>2, <4>1
      <4>3. drawn + i > drawn
        BY <1>1, <4>2
      <4>4. QED
        BY <1>2, <1>9, <4>2, <4>3
    <3>3. QED
      BY <1>2, <3>1, <3>2
  <2>2. drawn <= drawn'
    BY <1>1
  <2>3. QED
    BY <1>1, <1>2, <1>3, <2>1, <2>2 DEF Harmless
<1>11. ASSUME NEW i \in DOMAIN bs, NEW u \in Uuids, u = drawn + i
       PROVE  InBundle(u)' \subseteq bs[i].messages
  <2>1. SUFFICES ASSUME NEW m \in InBundle(u)'
                 PROVE  m \in bs[i].messages
    OBVIOUS
  <2>2. m \in Messages /\ rows'[m] # NoRow /\ rows'[m].bundle = u
    BY DEF InBundle, Found
  <2>3. u > drawn
    BY <1>1, <1>4, <1>11
  <2>4. rows'[m] # rows[m]
    BY <1>1, <1>11, <2>2, <2>3 DEF RowsInv
  <2>5. PICK j \in DOMAIN bs : m \in bs[j].messages
    BY <1>2, <1>6, <2>2, <2>4
  <2>6. drawn + i = drawn + j /\ i \in Nat /\ j \in Nat
    BY <1>2, <1>4, <1>11, <2>2, <2>4, <2>5
  <2>7. i = j
    BY <1>1, <2>6
  <2>8. QED
    BY <2>5, <2>7
<1>12. RowsInv'
  <2>1. ASSUME NEW u \in Uuids, drawn < u, u <= drawn'
        PROVE  /\ Fits(InBundle(u)')
               /\ \A m, n \in InBundle(u)' : Language[m] = Language[n]
    <3>1. PICK i \in DOMAIN bs : u = drawn + i
      <4>1. u - drawn \in DOMAIN bs /\ u = drawn + (u - drawn)
        BY <1>1, <2>1
      <4>2. QED
        BY <4>1
    <3>2. InBundle(u)' \subseteq bs[i].messages
      BY <1>11, <3>1
    <3>3. bs[i].messages \in SUBSET Messages
      BY <1>7, <1>8
    <3>4. Fits(InBundle(u)')
      BY <1>8, <3>2, <3>3, FitsSubset DEF BundlerTypes
    <3>5. QED
      BY <1>8, <3>2, <3>4
  <2>2. QED
    BY <1>10, <2>1, RowsStay
<1>13. ASSUME NEW i \in DOMAIN bs, NEW b \in Bundles, b = o[i]
       PROVE  Sound(b)'
  <2>1. /\ b.uuid \in Uuids /\ b.uuid <= drawn' /\ b.uuid = drawn + i
        /\ b.messages = bs[i].messages /\ b.language = bs[i].language
    BY <1>4, <1>13
  <2>2. InBundle(b.uuid)' \subseteq b.messages
    BY <1>11, <2>1
  <2>3. \A m \in b.messages \ excused' :
          rows'[m] # NoRow /\ rows'[m].bundle = b.uuid
    BY <1>2, <1>8, <2>1
  <2>4. Fits(b.messages)'
    BY <1>3, <1>8, <2>1, SameFits
  <2>5. \A m \in b.messages : Language[m] = b.language
    BY <1>8, <2>1
  <2>6. QED
    BY <2>1, <2>2, <2>3, <2>4, <2>5 DEF Sound
<1>14. OutgoingInv'
  <2>1. ASSUME NEW b \in Outgoing'
        PROVE  (b.uuid = Empty \/ Sound(b))'
    <3>1. b \in Bundles
      BY <1>3 DEF Outgoing, BundlerTypes
    <3>2. CASE b \in Outgoing
      BY <1>10, <3>1, <3>2, SoundStays DEF OutgoingInv
    <3>3. CASE b \notin Outgoing
      <4>1. PICK q \in Runs : /\ run'[q].phase = "publish"
                              /\ WantsZips(run'[q].options)
                              /\ \E i \in DOMAIN run'[q].bundles :
                                   run'[q].bundles[i] = b
        BY <1>3, <3>3 DEF Outgoing
      <4>2. q = r
        BY <1>5, <3>1, <3>3, <4>1 DEF Outgoing
      <4>3. \E i \in DOMAIN o : o[i] = b
        BY <1>5, <4>1, <4>2
      <4>4. QED
        BY <1>4, <1>13, <3>1, <4>3
    <3>4. QED
      BY <3>2, <3>3
  <2>2. QED
    BY <2>1 DEF OutgoingInv
<1>15. ASSUME NEW q \in Runs, run'[q].phase = "read"
       PROVE  q # r /\ run'[q] = run[q] /\ ReadWell(q)'
  <2>1. q # r /\ run'[q] = run[q]
    BY <1>5, <1>15
  <2>2. MessagesOf(run[q].bundles) \cap MessagesOf(bs) \subseteq excused
    BY <1>3, <1>15, <2>1 DEF ReadInv, bs
  <2>3. MessagesOf(run[q].bundles) \subseteq Messages
    BY MessagesOfType DEF BundlerTypes, RunStates
  <2>4. \A m \in MessagesOf(run[q].bundles) \ excused' : rows'[m] = rows[m]
    BY <1>2, <2>2, <2>3
  <2>5. ReadWell(q)
    BY <1>15, <2>1 DEF ReadInv
  <2>6. QED
    BY <1>10, <2>1, <2>4, <2>5, ReadStays
<1>16. ReadInv'
  BY <1>2, <1>15 DEF ReadInv, MessagesOf
<1>17. QED
  BY <1>12, <1>14, <1>16

-----------------------------------------------------------------------------
(* The invariant, and what follows from it.                                *)

LEMMA InitBundles ==
  ASSUME Init
  PROVE  BundlesInv
<1>1. BundlerTypes
  BY InitTypes
<1>2. \A m \in Messages : rows[m] = NoRow \/ rows[m].bundle = Null
  BY DEF Init
<1>3. \A r \in Runs : run[r].phase = "idle"
  BY DEF Init, BundlerInit, Idle
<1>4. Outgoing = {}
  BY <1>3 DEF Init, BundlerInit, Outgoing
<1>5. \A u \in Uuids : InBundle(u) = {}
  BY <1>2, RowAssumption DEF InBundle, Found
<1>6. Fits({})
  <2>1. Bytes[{}] = 0
    BY <1>1, BytesUnfolds DEF BundlerTypes
  <2>2. QED
    BY <2>1, BundlerBounds DEF Fits
<1>7. RowsInv
  BY <1>2, <1>5, <1>6, RowAssumption DEF RowsInv
<1>8. QED
  BY <1>3, <1>4, <1>7 DEF BundlesInv, OutgoingInv, ReadInv

LEMMA BundlerKeeps ==
  ASSUME BundlerTypes, BundlesInv, BundlerNext
  PROVE  BundlesInv'
<1> USE DEF BundlesInv
<1>1. ASSUME NEW r \in Runs, NEW o \in SUBSET Options,
             NEW uuids \in SUBSET (Uuids \cup {Empty}), Begin(r, o, uuids)
      PROVE  BundlesInv'
  <2>1. BegunWell(r)
    BY <1>1, BeginsWell
  <2>2. QED
    BY <2>1, BeginKeeps
<1>2. ASSUME NEW r \in Runs, Record(r)
      PROVE  BundlesInv'
  BY <1>2, RecordKeeps
<1>3. ASSUME NEW r \in Runs, ZipNext(r)
      PROVE  BundlesInv'
  <2>1. Onward(r)
    BY <1>3, GoesOnward DEF ZipNext
  <2>2. QED
    BY <1>3, <2>1, OnwardKeeps DEF ZipNext
<1>4. ASSUME NEW r \in Runs, Copy(r)
      PROVE  BundlesInv'
  <2>1. Onward(r)
    BY <1>4, GoesOnward DEF Copy
  <2>2. QED
    BY <1>4, <2>1, OnwardKeeps DEF Copy
<1>5. ASSUME NEW r \in Runs, Crash(r)
      PROVE  BundlesInv'
  <2>1. Onward(r)
    BY <1>5, GoesOnward DEF Crash
  <2>2. QED
    BY <1>5, <2>1, OnwardKeeps DEF Crash
<1>6. \A r \in Runs :
        /\ Begin(r, {}, {}) => BundlesInv'
        /\ \A o \in Commands \ {{}} :
             Begin(r, o, Uuids \cup {Empty}) => BundlesInv'
        /\ \A u \in Uuids : Begin(r, {"only_zip"}, {u}) => BundlesInv'
  <2>1. Commands \subseteq SUBSET Options /\ {"only_zip"} \in SUBSET Options
    BY DEF Commands, Options
  <2>2. QED
    BY <1>1, <2>1
<1>7. QED
  BY <1>2, <1>3, <1>4, <1>5, <1>6 DEF BundlerNext

LEMMA OtherStepsKeep ==
  ASSUME BundlerTypes, ExtractTypes, BundlesInv, [Next]_vars,
         ~ (BundlerNext /\ UNCHANGED extraction)
  PROVE  BundlesInv'
<1>1. drawn \in Nat
  BY DEF BundlerTypes
<1>2. ASSUME UNCHANGED <<rows, bundler>>
      PROVE  BundlesInv'
  <2>1. Harmless
    BY <1>1, <1>2 DEF Harmless, bundler
  <2>2. QED
    BY <1>2, <2>1, RunsAlone DEF BundlesInv, bundler
<1>3. ASSUME NEW props \in SUBSET (Recordings \X {Right, "None"}),
             rows' = Inserted(props), UNCHANGED bundler
      PROVE  BundlesInv'
  <2>1. \A m \in Messages :
          \/ rows'[m] = rows[m]
          \/ rows[m] = NoRow /\ rows'[m] \in Row /\ rows'[m].bundle = Empty
    BY <1>3, InsertedSound
  <2>2. Harmless
    BY <1>1, <1>3, <2>1, RowAssumption DEF Harmless, bundler
  <2>3. QED
    BY <1>3, <2>2, RunsAlone DEF BundlesInv, bundler
<1>4. CASE Commit
  <2>1. extract.props \in SUBSET (Recordings \X {Right, "None"})
    BY DEF ExtractTypes, Extracts
  <2>2. QED
    BY <1>2, <1>3, <1>4, <2>1 DEF Commit
<1>5. CASE Import
  BY <1>3, <1>5 DEF Import, ExtractTypes
<1>6. ASSUME NEW m \in Imported, ImportAgain(m)
      PROVE  BundlesInv'
  <2>1. m \in Messages /\ [number |-> Right, bundle |-> Null] \in Row
    BY RecordingsAssumption DEF Row
  <2>2. /\ rows'[m] # NoRow /\ rows'[m].bundle = Null /\ m \in excused'
        /\ \A k \in Messages \ {m} : rows'[k] = rows[k]
    BY <1>6, <2>1, RowAssumption DEF ImportAgain, BundlerTypes
  <2>3. Harmless
    BY <1>1, <1>6, <2>2 DEF Harmless, ImportAgain
  <2>4. QED
    BY <1>6, <2>3, RunsAlone DEF BundlesInv, ImportAgain
<1>7. ASSUME ~ Commit, ~ Import, ~ \E m \in Imported : ImportAgain(m)
      PROVE  UNCHANGED <<rows, bundler>>
  BY <1>7 DEF Next, vars, bundler, StartExtract, CrashExtract, Sidecar, LeaveOut,
              Export, UploadAudio, Deploy
<1>8. QED
  BY <1>2, <1>4, <1>5, <1>6, <1>7

LEMMA InitIInv ==
  Init => IInv
BY InitTypes, InitNumbers, InitBundles DEF IInv

LEMMA NextIInv ==
  ASSUME IInv, [Next]_vars
  PROVE  IInv'
<1>1. BundlerTypes' /\ ExtractTypes'
  <2>1. CASE BundlerNext /\ UNCHANGED extraction
    BY <2>1, BundlerStepTypes DEF IInv, BundlesInv, ExtractTypes, extraction
  <2>2. CASE ~ (BundlerNext /\ UNCHANGED extraction)
    BY <2>2, OtherStepTypes DEF IInv
  <2>3. QED
    BY <2>1, <2>2
<1>2. NumbersInv'
  BY NextNumbers DEF IInv, BundlesInv
<1>3. BundlesInv'
  BY BundlerKeeps, OtherStepsKeep DEF IInv
<1>4. QED
  BY <1>1, <1>2, <1>3 DEF IInv

LEMMA Invariance ==
  Spec => []IInv
<1>1. IInv /\ [Next]_vars => IInv'
  BY NextIInv
<1>2. QED
  BY InitIInv, <1>1, PTL DEF Spec

\* Every variable has its type: what is recorded, saved and published are rows,
\* properties and bundles of messages, whatever fails.
THEOREM TypeCorrect ==
  Spec => []TypeOK
<1>1. ASSUME IInv PROVE TypeOK
  <2>1. ASSUME NEW z \in zips
        PROVE  /\ z.uuid \in Uuids \cup {Empty}
               /\ z.language \in Languages /\ z.messages \subseteq Messages
    <3>1. z \in Bundles /\ z \in Outgoing
      BY <1>1 DEF IInv, BundlerTypes, Outgoing
    <3>2. QED
      BY <1>1, <3>1 DEF IInv, BundlesInv, OutgoingInv, Sound, Bundles
  <2>2. \A r \in Runs : run[r].phase \in {"idle", "read", "publish"}
    BY <1>1 DEF IInv, BundlerTypes, RunStates
  <2>3. extract.phase \in {"idle", "file", "export"}
    BY <1>1 DEF IInv, ExtractTypes, Extracts
  <2>4. QED
    BY <1>1, <2>1, <2>2, <2>3 DEF IInv, BundlerTypes, ExtractTypes, TypeOK
<1>2. QED
  BY Invariance, <1>1, PTL

\* A row names no deployment only if extract_uf met its recording before the
\* deployment was known.
THEOREM NumbersRight ==
  Spec => []WrongNumberOnlyIfEarly
<1>1. IInv => WrongNumberOnlyIfEarly
  BY DEF IInv, NumbersInv, WrongNumberOnlyIfEarly
<1>2. QED
  BY Invariance, <1>1, PTL

\* Zips are of one language, and no larger than the maximum or one message,
\* however often their bundles were read again.
THEOREM LimitsKept ==
  Spec => []ZipsKeepLimits
<1>1. IInv => ZipsKeepLimits
  BY DEF IInv, BundlesInv, OutgoingInv, Outgoing, Sound, Fits, ZipsKeepLimits
<1>2. QED
  BY Invariance, <1>1, PTL

\* Two bundles publish a message only where runs overlap, fail or are told to.
THEOREM PublishedOnlyOnce ==
  Spec => []PublishedOnce
<1>1. IInv => PublishedOnce
  BY DEF IInv, BundlesInv, OutgoingInv, Outgoing, Sound, PublishedOnce
<1>2. QED
  BY Invariance, <1>1, PTL

\* A zip lacks none of the messages that have its bundle.
THEOREM NoneLacking ==
  Spec => []ZipHasItsRows
<1>1. IInv => ZipHasItsRows
  BY DEF IInv, BundlesInv, OutgoingInv, Outgoing, Sound, InBundle, ZipHasItsRows
<1>2. QED
  BY Invariance, <1>1, PTL
=============================================================================
