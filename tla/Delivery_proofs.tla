--------------------------- MODULE Delivery_proofs ---------------------------
(***************************************************************************)
(* What the clients of the upstreams report (Upstreams: ProviderCall,      *)
(* WebConversation, CodexImages) is what the upstream did, however often   *)
(* they ask again and whatever is lost on the way, and the queue that      *)
(* hands the jobs to the workers (JobQueue) keeps its types.               *)
(***************************************************************************)
EXTENDS Upstreams, JobQueue, TLAPS, FiniteSetTheorems, WellFoundedInduction, SequenceTheorems

-----------------------------------------------------------------------------
(* What the operators on sequences do.                                     *)

\* A set of numbers has a smallest one: induction, in the form of a minimal counterexample.
LEMMA Least ==
  ASSUME NEW T \in SUBSET Nat, T # {}
  PROVE  \E n \in T : \A m \in T : n <= m
<1> DEFINE R == OpToRel(<, Nat)
<1>1. IsWellFoundedOn(R, Nat) BY NatLessThanWellFounded
<1>2. \A x, y \in Nat : x < y => <<x, y>> \in R BY DEF OpToRel
<1> HIDE DEF R
<1>3. PICK n \in T : \A m \in T : ~(<<m, n>> \in R) BY <1>1, WFMin
<1>4. ASSUME NEW m \in T PROVE n <= m
  <2>1. m \in Nat /\ n \in Nat OBVIOUS
  <2>2. m < n => <<m, n>> \in R BY <1>2, <2>1
  <2>3. ~(m < n) BY <1>3, <2>2
  <2> QED BY <2>1, <2>3
<1> QED BY <1>4

\* The function in the definition of FlattenSeq.
Flattens(g, s, n, S) ==
  /\ g \in [1..n -> Seq(S)]
  /\ \A i \in 1..n : g[i] = IF i = 1 THEN s[1] ELSE g[i - 1] \o s[i]

LEMMA FlattenExists ==
  ASSUME NEW S, NEW s \in Seq(Seq(S)), s # <<>>
  PROVE  \E g : Flattens(g, s, Len(s), S)
<1> DEFINE T == {n \in 1..Len(s) : ~\E g : Flattens(g, s, n, S)}
<1>0. Len(s) \in Nat \ {0} /\ T \subseteq Nat OBVIOUS
<1> SUFFICES ASSUME T # {} PROVE FALSE BY <1>0
<1>1. PICK n \in T : \A m \in T : n <= m BY <1>0, Least
<1>2. n \in 1..Len(s) /\ ~\E g : Flattens(g, s, n, S) BY <1>1
<1>3. CASE n = 1
  <2> DEFINE h == [i \in 1..1 |-> s[1]]
  <2>1. Flattens(h, s, 1, S) BY <1>0 DEF Flattens
  <2> QED BY <1>2, <1>3, <2>1
<1>4. CASE n # 1
  <2>0. n - 1 \in 1..Len(s) BY <1>0, <1>2, <1>4
  <2>1. n - 1 \notin T
    <3> SUFFICES ASSUME n - 1 \in T PROVE FALSE OBVIOUS
    <3>1. n <= n - 1 BY <1>1
    <3> QED BY <1>2, <3>1
  <2>2. PICK g : Flattens(g, s, n - 1, S) BY <2>0, <2>1
  <2> DEFINE h == [i \in 1..n |-> IF i = n THEN g[n - 1] \o s[n] ELSE g[i]]
  <2>3. g \in [1..(n - 1) -> Seq(S)] /\ s[n] \in Seq(S) /\ g[n - 1] \in Seq(S)
    BY <1>2, <1>4, <2>2 DEF Flattens
  <2>4. h \in [1..n -> Seq(S)]
    <3> SUFFICES ASSUME NEW i \in 1..n PROVE (IF i = n THEN g[n - 1] \o s[n] ELSE g[i]) \in Seq(S)
      OBVIOUS
    <3> QED BY <1>2, <2>3
  <2>5. ASSUME NEW i \in 1..n PROVE h[i] = IF i = 1 THEN s[1] ELSE h[i - 1] \o s[i]
    <3>1. CASE i = n
      <4>1. n - 1 \in 1..n /\ n - 1 # n BY <1>2, <1>4
      <4>2. n \in 1..n BY <1>2
      <4>3. h[n - 1] = g[n - 1] BY <4>1
      <4>4. h[n] = g[n - 1] \o s[n] BY <4>2
      <4> HIDE DEF h
      <4> QED BY <1>4, <3>1, <4>3, <4>4
    <3>2. CASE i # n
      <4>1. i \in 1..(n - 1) /\ h[i] = g[i] BY <1>2, <3>2
      <4>2. i # 1 => i - 1 \in 1..n /\ i - 1 # n /\ h[i - 1] = g[i - 1] BY <4>1, <1>2
      <4> QED BY <2>2, <4>1, <4>2 DEF Flattens
    <3> QED BY <3>1, <3>2
  <2>6. Flattens(h, s, n, S)
    <3> HIDE DEF h
    <3> QED BY <2>4, <2>5 DEF Flattens
  <2> QED BY <1>2, <2>6
<1> QED BY <1>3, <1>4

LEMMA FlattenFunction ==
  ASSUME NEW S, NEW s \in Seq(Seq(S)), s # <<>>
  PROVE  \E g : Flattens(g, s, Len(s), S) /\ FlattenSeq(s) = g[Len(s)]
<1>0. Len(s) \in Nat \ {0} OBVIOUS
<1>1. PICK h : Flattens(h, s, Len(s), S) BY FlattenExists
<1> DEFINE F(g) == [i \in 1..Len(s) |-> IF i = 1 THEN s[i] ELSE g[i - 1] \o s[i]]
           g == CHOOSE g : g = F(g)
<1>2. h = F(h) BY <1>1 DEF Flattens
<1>3. g = F(g) BY <1>2
<1>4. FlattenSeq(s) = g[Len(s)] BY <1>0 DEF FlattenSeq
<1> HIDE DEF g
<1>5. \A i \in 1..Len(s) : g[i] = IF i = 1 THEN s[1] ELSE g[i - 1] \o s[i] BY <1>3
<1>6. \A i \in 1..Len(s) : g[i] \in Seq(S)
  <2> DEFINE T == {i \in 1..Len(s) : g[i] \notin Seq(S)}
  <2> SUFFICES ASSUME T # {} PROVE FALSE OBVIOUS
  <2>1. T \in SUBSET Nat OBVIOUS
  <2>2. PICK n \in T : \A m \in T : n <= m BY <2>1, Least
  <2>3. n \in 1..Len(s) /\ g[n] \notin Seq(S) BY <2>2
  <2>4. n # 1 => n - 1 \in 1..Len(s) /\ n - 1 \notin T BY <2>2, <2>3
  <2>5. n # 1 => g[n - 1] \in Seq(S) BY <2>4
  <2>6. s[1] \in Seq(S) /\ s[n] \in Seq(S) BY <1>0, <2>3
  <2> HIDE DEF T
  <2>7. CASE n = 1 BY <1>5, <2>3, <2>6, <2>7
  <2>8. CASE n # 1
    <3>1. g[n] = g[n - 1] \o s[n] BY <1>5, <2>3, <2>8
    <3> QED BY <2>3, <2>5, <2>6, <2>8, <3>1
  <2> QED BY <2>7, <2>8
<1>7. Flattens(g, s, Len(s), S)
  <2>1. g \in [1..Len(s) -> Seq(S)] BY <1>3, <1>6
  <2> QED BY <1>5, <2>1 DEF Flattens
<1> QED BY <1>4, <1>7

\* Two of these functions agree as far as their sequences do.
SameUpTo(f, g, n) == \A i \in 1..n : f[i] = g[i]

LEMMA FlattenSame ==
  ASSUME NEW S, NEW s, NEW t, NEW n \in Nat, NEW m \in Nat, NEW g, NEW h,
         Flattens(g, s, n, S), Flattens(h, t, m, S), n <= m, SameUpTo(s, t, n)
  PROVE  SameUpTo(g, h, n)
<1> DEFINE T == {i \in 1..n : g[i] # h[i]}
<1> SUFFICES ASSUME T # {} PROVE FALSE BY DEF SameUpTo
<1>1. T \in SUBSET Nat OBVIOUS
<1>2. PICK i \in T : \A j \in T : i <= j BY <1>1, Least
<1>3. i \in 1..n /\ i \in 1..m /\ h[i] # g[i] BY <1>2
<1>4. CASE i = 1 BY <1>3, <1>4 DEF Flattens, SameUpTo
<1>5. CASE i # 1
  <2>1. i - 1 \in 1..n BY <1>3, <1>5
  <2>2. i - 1 \notin T
    <3> SUFFICES ASSUME i - 1 \in T PROVE FALSE OBVIOUS
    <3>1. i <= i - 1 BY <1>2
    <3> QED BY <1>3, <3>1
  <2>3. h[i - 1] = g[i - 1] BY <2>1, <2>2
  <2> HIDE DEF T
  <2>4. g[i] = g[i - 1] \o s[i] BY <1>3, <1>5 DEF Flattens
  <2>5. h[i] = h[i - 1] \o t[i] BY <1>3, <1>5 DEF Flattens
  <2>6. t[i] = s[i] BY <1>3 DEF SameUpTo
  <2> QED BY <1>3, <2>3, <2>4, <2>5, <2>6
<1> QED BY <1>4, <1>5

\* What is appended to the sequences comes at the end of the flat one.
LEMMA FlattenAppend ==
  ASSUME NEW S, NEW s \in Seq(Seq(S)), NEW x \in Seq(S)
  PROVE  /\ FlattenSeq(s) \in Seq(S)
         /\ FlattenSeq(Append(s, x)) = FlattenSeq(s) \o x
<1> DEFINE t == Append(s, x)
<1>1. /\ t \in Seq(Seq(S)) /\ t # <<>> /\ Len(t) = Len(s) + 1 /\ Len(s) \in Nat
      /\ \A i \in 1..Len(s) : t[i] = s[i]
      /\ t[Len(s) + 1] = x
  BY AppendProperties
<1> HIDE DEF t
<1>2. PICK h : Flattens(h, t, Len(t), S) /\ FlattenSeq(t) = h[Len(t)]
  BY <1>1, FlattenFunction
<1>3. CASE s = <<>>
  <2>1. FlattenSeq(s) = <<>> BY <1>3 DEF FlattenSeq
  <2>2. Len(t) = 1 /\ t[1] = x BY <1>1, <1>3
  <2>3. h[1] = x BY <1>2, <2>2 DEF Flattens
  <2> QED BY <1>2, <2>1, <2>2, <2>3, ConcatEmptySeq DEF t
<1>4. CASE s # <<>>
  <2>1. Len(s) \in Nat \ {0} BY <1>4
  <2>2. PICK g : Flattens(g, s, Len(s), S) /\ FlattenSeq(s) = g[Len(s)]
    BY <1>4, FlattenFunction
  <2>0. Flattens(h, t, Len(t), S) /\ Flattens(g, s, Len(s), S) /\ Len(t) \in Nat /\ Len(s) <= Len(t)
    BY <1>1, <1>2, <2>2
  <2>8. Len(s) \in Nat /\ SameUpTo(s, t, Len(s)) BY <1>1 DEF SameUpTo
  <2>9. SameUpTo(g, h, Len(s)) BY <2>0, <2>8, FlattenSame
  <2>3. h[Len(s)] = g[Len(s)] BY <2>1, <2>9 DEF SameUpTo
  <2>4. h[Len(t)] = h[Len(s)] \o x
    <3>1. Len(t) \in 1..Len(t) /\ Len(t) # 1 /\ Len(t) - 1 = Len(s) BY <1>1, <2>1
    <3> QED BY <1>1, <1>2, <3>1 DEF Flattens
  <2>5. g[Len(s)] \in Seq(S)
    <3>1. g \in [1..Len(s) -> Seq(S)] BY <2>2 DEF Flattens
    <3>2. Len(s) \in 1..Len(s) BY <2>1
    <3> QED BY <3>1, <3>2
  <2> QED BY <1>2, <2>2, <2>3, <2>4, <2>5 DEF t
<1> QED BY <1>3, <1>4

\* A set of places of a sequence has a last one.
LEMMA HasLast ==
  ASSUME NEW n \in Nat, NEW T \in SUBSET (1..n), T # {}
  PROVE  \E m \in T : \A k \in T : k <= m
<1> DEFINE U == {m \in Nat : \A k \in T : k <= m}
<1>1. n \in U /\ U \in SUBSET Nat OBVIOUS
<1>2. PICK m \in U : \A k \in U : m <= k BY <1>1, Least
<1>3. m \in Nat /\ \A k \in T : k <= m BY <1>2
<1>4. ASSUME m \notin T PROVE FALSE
  <2>1. \A k \in T : k <= m - 1 /\ k \in Nat /\ k >= 1 BY <1>3, <1>4
  <2>5. PICK k \in T : TRUE OBVIOUS
  <2>2. m - 1 \in Nat BY <1>3, <2>1, <2>5
  <2>3. m - 1 \in U BY <2>1, <2>2
  <2>4. m <= m - 1 BY <1>2, <2>3
  <2> QED BY <1>3, <2>4
<1>5. m \in T BY <1>4
<1> QED BY <1>3, <1>5

LEMMA MaxIsLast ==
  ASSUME NEW n \in Nat, NEW T \in SUBSET (1..n), T # {}
  PROVE  Max(T) \in T
<1>1. PICK m \in T : \A k \in T : k <= m BY HasLast
<1>2. \E m2 \in T : \A k \in T : m2 >= k BY <1>1
<1> QED BY <1>2 DEF Max

\* The number of pictures of an answer.
LEMMA PicturesCounted ==
  ASSUME NEW items \in Seq(Item)
  PROVE  /\ PicturesOf(items) \in Nat
         /\ PicturesOf(items) <= Len(items)
         /\ "blank" \notin ToSet(items) => PicturesOf(items) = Len(items)
<1> DEFINE P == {i \in DOMAIN items : items[i] = "picture"}
<1>1. Len(items) \in Nat /\ DOMAIN items = 1..Len(items) /\ P \subseteq 1..Len(items) OBVIOUS
<1>2. IsFiniteSet(1..Len(items)) /\ Cardinality(1..Len(items)) = Len(items)
  <2>1. /\ IsFiniteSet(1..Len(items))
        /\ Cardinality(1..Len(items)) = IF 1 > Len(items) THEN 0 ELSE Len(items) - 1 + 1
    BY <1>1, FS_Interval
  <2> QED BY <1>1, <2>1
<1>3. IsFiniteSet(P) /\ Cardinality(P) \in Nat /\ Cardinality(P) <= Len(items)
  BY <1>1, <1>2, FS_Subset, FS_CardinalityType
<1>4. ASSUME "blank" \notin ToSet(items) PROVE P = 1..Len(items)
  <2>1. \A i \in 1..Len(items) : items[i] \in Item /\ items[i] # "blank"
    BY <1>1, <1>4 DEF ToSet
  <2> QED BY <1>1, <2>1 DEF Item
<1> QED BY <1>2, <1>3, <1>4 DEF PicturesOf

\* Images that were all emitted before change nothing.
LEMMA EmitNothing ==
  ASSUME NEW finals, NEW images, NEW n \in Nat, DOMAIN images = 1..n,
         ToSet(images) \subseteq ToSet(finals)
  PROVE  EmitAll(finals, images) = finals
<1> DEFINE I == DOMAIN images
           F(r) == [s \in SUBSET I |->
                      IF s = {} THEN finals ELSE Emit(r[s \ {Max(s)}], images[Max(s)])]
           r == CHOOSE r : r = F(r)
           c == [s \in SUBSET I |-> finals]
<1>1. ASSUME NEW s \in SUBSET I, s # {} PROVE Max(s) \in s
  BY <1>1, MaxIsLast
<1>2. \A i \in I : Emit(finals, images[i]) = finals
  <2>1. \A i \in I : images[i] \in ToSet(images) BY DEF ToSet
  <2> QED BY <2>1 DEF Emit
<1>3. c = F(c)
  <2> SUFFICES ASSUME NEW s \in SUBSET I, s # {}
               PROVE  Emit(c[s \ {Max(s)}], images[Max(s)]) = finals
    OBVIOUS
  <2>1. Max(s) \in I /\ s \ {Max(s)} \in SUBSET I BY <1>1
  <2>2. c[s \ {Max(s)}] = finals BY <2>1
  <2> QED BY <1>2, <2>1, <2>2
<1>4. r = F(r) BY <1>3
<1>5. EmitAll(finals, images) = r[I]
  BY DEF EmitAll, FoldLeft, MapThenFoldSet
<1> HIDE DEF r
<1>6. \A s \in SUBSET I :
        r[s] = IF s = {} THEN finals ELSE Emit(r[s \ {Max(s)}], images[Max(s)])
  BY <1>4
<1> DEFINE T == {Cardinality(s) : s \in {s \in SUBSET I : r[s] # finals}}
<1>7. T = {}
  <2> SUFFICES ASSUME T # {} PROVE FALSE OBVIOUS
  <2>1. \A s \in SUBSET I : IsFiniteSet(s) /\ Cardinality(s) \in Nat
    <3>1. IsFiniteSet(I) BY FS_Interval
    <3> QED BY <3>1, FS_Subset, FS_CardinalityType
  <2>2. T \in SUBSET Nat BY <2>1
  <2>3. PICK k \in T : \A l \in T : k <= l BY <2>2, Least
  <2>4. PICK s \in SUBSET I : r[s] # finals /\ k = Cardinality(s) BY <2>3
  <2>5. s # {} /\ Max(s) \in s BY <1>1, <1>6, <2>4
  <2> DEFINE u == s \ {Max(s)}
  <2>6. u \in SUBSET I /\ Cardinality(u) = k - 1 /\ k \in Nat
    BY <2>1, <2>4, <2>5, FS_RemoveElement
  <2>7. r[u] = finals
    <3> SUFFICES ASSUME r[u] # finals PROVE FALSE OBVIOUS
    <3>1. k - 1 \in T BY <2>6
    <3>2. k <= k - 1 BY <2>3, <3>1
    <3> QED BY <2>6, <3>2
  <2>8. r[s] = Emit(r[u], images[Max(s)]) BY <1>6, <2>5
  <2> QED BY <1>2, <2>4, <2>5, <2>7, <2>8
<1>8. r[I] = finals BY <1>7
<1> QED BY <1>5, <1>8

-----------------------------------------------------------------------------
(***************************************************************************)
(* ProviderCall.  What has arrived is what the call holds until it is      *)
(* judged; from then on what is paid follows what it has charged for.      *)
(***************************************************************************)

Asking == {"send", "wait", "backoff", "failed", "judge"}

CallType ==
  [pc: CallPC, source: Sources, adapter: {"gemini", "openai"},
   requested: 1 .. MaxRequested, attempt: 1 .. MaxAttempts, index: 1 .. MaxRequested,
   items: Seq(Item), error: CallError \cup {"", "no_fallback"},
   stop: {"no", "asked", "cancelled"}, poolReported: BOOLEAN,
   charged: Nat, outcome: {"", "delivered", "failed", "cancelled"}]

\* Before the answer is judged nothing that has arrived is lost, and only a request that
\* brought nothing has failed.
HoldsArrived(r, all) ==
  /\ r.pc = "idle" => all = <<>>
  /\ r.pc \in Asking \cup {"idle"} => r.items = all
  /\ r.pc \in {"send", "wait"} /\ r.adapter = "openai" => r.items = <<>>
  /\ r.pc \in {"backoff", "failed"} => r.items = <<>>
  /\ r.pc = "judge" /\ r.error # "" => r.items = <<>>
  /\ r.pc \in {"idle", "send", "wait", "backoff"} => r.error = ""

\* What is judged is all, or as much as the settings or the balance allow.
Judged(r, all) ==
  /\ ToSet(r.items) \subseteq ToSet(all)
  /\ "blank" \notin ToSet(all) =>
       r.items = all \/ Len(r.items) \in {MaxReturned, r.charged}

\* What is paid while the pictures more than requested are charged for.
PaidFor(r, paid, partial, all) ==
  LET n == PicturesOf(r.items)
  IN  /\ r.charged > 0
      /\ n >= r.charged => paid = r.charged
      /\ n < r.charged => paid >= n
      /\ n < r.charged /\ partial /\ "blank" \notin ToSet(all) => paid = n

MoneyInv(r, paid, partial, all) ==
  /\ r.pc \in Asking => paid = r.requested
  /\ r.pc = "charge" => Judged(r, all) /\ PaidFor(r, paid, partial, all)
  /\ r.pc = "over" /\ r.outcome = "delivered" =>
       /\ Judged(r, all)
       /\ PicturesOf(r.items) <= paid
       /\ "blank" \notin ToSet(all) /\ partial => PicturesOf(r.items) = paid
  /\ r.pc = "over" /\ r.outcome = "failed" =>
       /\ paid = 0
       /\ "blank" \notin ToSet(all) => all = <<>> \/ r.charged > 0

\* Requests to the source of now are counted by its attempts and pictures; a member of the
\* pool that is left behind has its report.
MemberInv(r, asked, told) ==
  /\ asked[r.source] <= r.attempt + r.index - 1
  /\ r.pc \in {"idle", "send"} => asked[r.source] <= r.attempt + r.index - 2
  /\ r.pc = "idle" => r.index = 1 /\ ~r.poolReported /\ \A s \in Sources : asked[s] = 0
  /\ r.index <= r.requested
  /\ r.pc = "backoff" => r.attempt < MaxAttempts
  /\ r.source = "pool" => asked["api"] = 0
  /\ \A s \in Sources : asked[s] <= MaxAttempts - 1 + r.requested
  /\ told \in {<<>>, <<"failure">>, <<"success">>}
  /\ r.poolReported => told = <<"failure">>
  /\ r.pc # "over" /\ ~r.poolReported => told = <<>>
  /\ r.source = "pool" /\ r.poolReported /\ r.pc # "over" => r.pc = "judge" /\ r.error # ""
  /\ r.source = "api" /\ asked["pool"] > 0 => r.poolReported
  /\ told = <<"success">> =>
       r.pc = "over" /\ r.outcome = "delivered" /\ r.source = "pool"
  /\ r.pc # "over" => r.outcome = ""

CallInv ==
  /\ call \in CallType
  /\ billed \in Nat
  /\ refundPartial \in BOOLEAN
  /\ requests \in [Sources -> Nat]
  /\ arrived \in Seq(Seq(Item))
  /\ HoldsArrived(call, AllArrived)
  /\ MoneyInv(call, billed, refundPartial, AllArrived)
  /\ MemberInv(call, requests, reports)

LEMMA ArrivedType ==
  ASSUME CallInv
  PROVE  AllArrived \in Seq(Item)
BY FlattenAppend DEF CallInv, AllArrived

\* A step that brings nothing: what it owes.
LEMMA CallGoes ==
  ASSUME CallInv, NEW v, CallBecomes(v), UNCHANGED arrived,
         v \in CallType, billed' \in Nat, refundPartial' = refundPartial,
         requests' \in [Sources -> Nat],
         HoldsArrived(v, AllArrived),
         MoneyInv(v, billed', refundPartial, AllArrived),
         MemberInv(v, requests', reports')
  PROVE  CallInv'
BY DEF CallInv, CallBecomes, AllArrived

LEMMA CallBegins ==
  ASSUME CallInv, BeginCall
  PROVE  CallInv'
<1>1. PICK n \in 1 .. MaxRequested, source \in Sources, adapter \in {"gemini", "openai"} :
        /\ CallBecomes([call EXCEPT !.pc = "send", !.requested = n, !.source = source,
                                    !.adapter = adapter])
        /\ billed' = n
  BY DEF BeginCall
<1> DEFINE v == [call EXCEPT !.pc = "send", !.requested = n, !.source = source,
                             !.adapter = adapter]
           all == AllArrived
<1>2. /\ v \in CallType /\ v.pc = "send" /\ v.requested = n /\ v.source = source
      /\ v.adapter = adapter /\ v.attempt = call.attempt /\ v.index = call.index
      /\ v.items = call.items /\ v.error = call.error /\ v.stop = call.stop
      /\ v.poolReported = call.poolReported /\ v.charged = call.charged
      /\ v.outcome = call.outcome
  BY DEF CallInv, CallType, CallPC
<1>3. call.pc = "idle" /\ UNCHANGED <<refundPartial, requests, arrived, reports>>
  BY DEF BeginCall
<1>4. /\ CallBecomes(v) /\ billed' = n /\ n \in Nat /\ n >= 1 /\ n <= MaxRequested
  BY <1>1, ProviderCallAssumption
<1> HIDE DEF v
<1>5. HoldsArrived(v, all)
  <2>1. HoldsArrived(call, all) BY DEF CallInv
  <2> HIDE DEF all
  <2> QED BY <1>2, <1>3, <2>1 DEF HoldsArrived, Asking
<1>6. MoneyInv(v, billed', refundPartial, all) BY <1>2, <1>4 DEF MoneyInv, Asking
<1>7. MemberInv(v, requests', reports')
  <2>1. \A s \in Sources : requests[s] = 0 /\ requests'[s] = 0 BY <1>3 DEF CallInv, MemberInv
  <2>5. call.attempt \in 1 .. MaxAttempts /\ call.source \in Sources BY DEF CallInv, CallType
  <2>6. call.index = 1 BY <1>3 DEF CallInv, MemberInv
  <2>2. v.source \in Sources /\ v.attempt >= 1 /\ v.attempt <= MaxAttempts /\ v.index = 1
    BY <1>2, <2>5, <2>6, ProviderCallAssumption
  <2>3. /\ v.attempt \in Int /\ MaxAttempts \in Int /\ "pool" \in Sources /\ "api" \in Sources
    BY <1>2, <2>5, ProviderCallAssumption DEF Sources
  <2>4. call.poolReported = FALSE /\ reports = <<>> /\ call.outcome = ""
    <3>1. MemberInv(call, requests, reports) BY DEF CallInv
    <3>2. call.poolReported \in BOOLEAN BY DEF CallInv, CallType
    <3> QED BY <1>3, <3>1, <3>2 DEF MemberInv
  <2>7. <<>> # <<"success">> OBVIOUS
  <2>8. v.poolReported = FALSE /\ reports' = <<>> /\ v.outcome = "" BY <1>2, <1>3, <2>4
  <2>9. v.index <= v.requested /\ \A s \in Sources : requests'[s] <= MaxAttempts - 1 + v.requested
    BY <1>2, <1>4, <2>1, <2>2, <2>3
  <2>10. requests'[v.source] <= v.attempt + v.index - 2 BY <2>1, <2>2, <2>3
  <2>11. requests'[v.source] <= v.attempt + v.index - 1 BY <2>1, <2>2, <2>3
  <2>12. v.pc = "send" /\ v.source \in Sources BY <1>2
  <2>21. v.source = "pool" => requests'["api"] = 0 BY <2>1, <2>3
  <2>22. reports' \in {<<>>, <<"failure">>, <<"success">>} BY <2>8
  <2>23. (reports' = <<"success">> =>
       v.pc = "over" /\ v.outcome = "delivered" /\ v.source = "pool") BY <2>7, <2>8
  <2>24. v.source = "api" /\ requests'["pool"] > 0 => v.poolReported BY <2>1, <2>3
  <2> QED BY <2>12, <2>21, <2>22, <2>23, <2>24, <2>8, <2>9, <2>10, <2>11 DEF MemberInv
<1> QED BY <1>2, <1>3, <1>4, <1>5, <1>6, <1>7, CallGoes DEF CallInv

LEMMA CallCancelled ==
  ASSUME CallInv, CancelCall
  PROVE  CallInv'
<1>1. PICK stop \in {"asked", "cancelled"} : CallBecomes([call EXCEPT !.stop = stop])
  BY DEF CancelCall
<1> DEFINE v == [call EXCEPT !.stop = stop]
<1>2. /\ v \in CallType /\ v.pc = call.pc /\ v.requested = call.requested
      /\ v.source = call.source /\ v.adapter = call.adapter /\ v.attempt = call.attempt
      /\ v.index = call.index /\ v.items = call.items /\ v.error = call.error
      /\ v.poolReported = call.poolReported /\ v.charged = call.charged
      /\ v.outcome = call.outcome
  BY DEF CallInv, CallType
<1>3. UNCHANGED <<billed, refundPartial, requests, arrived, reports>> BY DEF CancelCall
<1>4. CallBecomes(v) BY <1>1
<1> HIDE DEF v
<1>5. HoldsArrived(v, AllArrived) BY <1>2 DEF CallInv, HoldsArrived
<1>6. MoneyInv(v, billed', refundPartial, AllArrived)
  BY <1>2, <1>3 DEF CallInv, MoneyInv, Judged, PaidFor
<1>7. MemberInv(v, requests', reports') BY <1>2, <1>3 DEF CallInv, MemberInv
<1> QED BY <1>2, <1>3, <1>4, <1>5, <1>6, <1>7, CallGoes DEF CallInv

LEMMA CallFacts ==
  ASSUME CallInv
  PROVE  /\ call.source \in Sources /\ call.requested \in 1 .. MaxRequested
         /\ call.attempt \in 1 .. MaxAttempts /\ call.index \in 1 .. MaxRequested
         /\ call.requested \in Nat /\ call.attempt \in Nat /\ call.index \in Nat
         /\ MaxAttempts \in Nat /\ call.charged \in Nat /\ call.items \in Seq(Item)
         /\ call.poolReported \in BOOLEAN /\ call.adapter \in {"gemini", "openai"}
         /\ "pool" \in Sources /\ "api" \in Sources /\ "pool" # "api"
         /\ \A s \in Sources : requests[s] \in Nat
         /\ <<"failure">> # <<>> /\ <<"success">> # <<>> /\ <<"failure">> # <<"success">>
         /\ HoldsArrived(call, AllArrived)
         /\ MoneyInv(call, billed, refundPartial, AllArrived)
         /\ MemberInv(call, requests, reports)
<1>1. call \in CallType /\ requests \in [Sources -> Nat] BY DEF CallInv
<1>2. MaxAttempts \in Nat /\ MaxRequested \in Nat BY ProviderCallAssumption
<1>3. /\ call.source \in Sources /\ call.requested \in 1 .. MaxRequested
      /\ call.attempt \in 1 .. MaxAttempts /\ call.index \in 1 .. MaxRequested
      /\ call.charged \in Nat /\ call.items \in Seq(Item)
      /\ call.poolReported \in BOOLEAN /\ call.adapter \in {"gemini", "openai"}
  BY <1>1 DEF CallType
<1>4. call.requested \in Nat /\ call.attempt \in Nat /\ call.index \in Nat BY <1>2, <1>3
<1>5. "pool" \in Sources /\ "api" \in Sources /\ "pool" # "api" BY DEF Sources
<1>6. <<"failure">> # <<>> /\ <<"success">> # <<>> /\ <<"failure">> # <<"success">> OBVIOUS
<1>7. /\ HoldsArrived(call, AllArrived)
      /\ MoneyInv(call, billed, refundPartial, AllArrived)
      /\ MemberInv(call, requests, reports)
  BY DEF CallInv
<1>8. \A s \in Sources : requests[s] \in Nat BY <1>1
<1> QED BY <1>2, <1>3, <1>4, <1>5, <1>6, <1>7, <1>8

LEMMA CountsFit ==
  ASSUME NEW n \in Nat, NEW a \in Nat, NEW i \in Nat, NEW b \in Nat, NEW j \in Nat,
         n <= b + j - 1, a + i >= b + j
  PROVE  n <= a + i - 1 /\ (a + i > b + j => n <= a + i - 2)
OBVIOUS

LEMMA CallSends ==
  ASSUME CallInv, SendRequest
  PROVE  CallInv'
<1> DEFINE v == [call EXCEPT !.pc = "wait"]
<1>1. /\ v \in CallType /\ v.pc = "wait" /\ v.requested = call.requested
      /\ v.source = call.source /\ v.adapter = call.adapter /\ v.attempt = call.attempt
      /\ v.index = call.index /\ v.items = call.items /\ v.error = call.error
      /\ v.poolReported = call.poolReported /\ v.charged = call.charged
      /\ v.outcome = call.outcome
  BY DEF CallInv, CallType, CallPC
<1>2. /\ CallBecomes(v) /\ call.pc = "send"
      /\ UNCHANGED <<billed, refundPartial, arrived, reports>>
      /\ requests' = [requests EXCEPT ![call.source] = @ + 1]
  BY DEF SendRequest
<1> HIDE DEF v
<1>3. requests' \in [Sources -> Nat] BY <1>2, CallFacts DEF CallInv
<1>4. HoldsArrived(v, AllArrived)
  <2> DEFINE all == AllArrived
  <2>1. HoldsArrived(call, all) BY CallFacts
  <2> HIDE DEF all
  <2>2. /\ v.pc = "wait" /\ call.pc = "send" /\ v.items = call.items /\ v.error = call.error
        /\ v.adapter = call.adapter
    BY <1>1, <1>2
  <2> HIDE DEF v, all
  <2>3. "send" # "idle" /\ "send" # "wait" /\ v.pc \notin {"idle", "send", "backoff", "failed", "judge"}
    BY <2>2
  <2>4. v.items = all /\ v.error = "" BY <2>1, <2>2 DEF HoldsArrived, Asking
  <2>5. v.adapter = "openai" => v.items = <<>> BY <2>1, <2>2 DEF HoldsArrived
  <2>6. HoldsArrived(v, all) BY <2>2, <2>3, <2>4, <2>5 DEF HoldsArrived
  <2> QED BY <2>6 DEF all
<1>5. MoneyInv(v, billed', refundPartial, AllArrived)
  BY <1>1, <1>2, CallFacts DEF MoneyInv, Asking
<1>6. MemberInv(v, requests', reports')
  <2>1. /\ requests'[call.source] = requests[call.source] + 1
        /\ \A s \in Sources : s # call.source => requests'[s] = requests[s]
    BY <1>2, CallFacts DEF CallInv
  <2>2. requests[call.source] <= call.attempt + call.index - 2 BY <1>2, CallFacts DEF MemberInv
  <2>3. requests'[v.source] <= v.attempt + v.index - 1 BY <1>1, <2>1, <2>2, CallFacts
  <2>4. v.index <= v.requested BY <1>1, CallFacts DEF MemberInv
  <2>5. \A s \in Sources : requests'[s] <= MaxAttempts - 1 + v.requested
    <3>1. \A s \in Sources : requests[s] <= MaxAttempts - 1 + call.requested
      BY CallFacts DEF MemberInv
    <3>2. requests'[call.source] <= MaxAttempts - 1 + v.requested
      <4>1. v.attempt <= MaxAttempts /\ v.attempt \in Nat /\ v.index \in Nat
            /\ v.requested \in Nat /\ v.source = call.source
        BY <1>1, CallFacts
      <4>2. requests'[call.source] \in Nat BY <2>1, CallFacts
      <4> QED BY <2>3, <2>4, <4>1, <4>2, CallFacts
    <3> QED BY <1>1, <2>1, <3>1, <3>2
  <2>6. v.source = "pool" => requests'["api"] = 0 BY <1>1, <2>1, CallFacts DEF MemberInv
  <2>7. v.source = "api" /\ requests'["pool"] > 0 => v.poolReported
    BY <1>1, <2>1, CallFacts DEF MemberInv
  <2>8. /\ reports' = reports /\ call.poolReported = v.poolReported /\ v.pc = "wait"
        /\ call.pc = "send" /\ v.outcome = call.outcome /\ v.source = call.source
    BY <1>1, <1>2
  <2>9. reports \in {<<>>, <<"failure">>, <<"success">>} /\ reports # <<"success">>
    BY <2>8, CallFacts DEF MemberInv
  <2>10. (v.poolReported => reports = <<"failure">>) /\ (~v.poolReported => reports = <<>>)
    BY <2>8, CallFacts DEF MemberInv
  <2>11. ~(v.source = "pool" /\ v.poolReported) /\ v.outcome = ""
    BY <2>8, CallFacts DEF MemberInv
  <2> QED BY <2>3, <2>4, <2>5, <2>6, <2>7, <2>8, <2>9, <2>10, <2>11 DEF MemberInv
<1> QED BY <1>1, <1>2, <1>3, <1>4, <1>5, <1>6, CallGoes DEF CallInv

\* A step that asks nobody and tells nothing leaves the members as they are.
LEMMA MembersStay ==
  ASSUME CallInv, NEW v, UNCHANGED <<requests, reports>>,
         v.source = call.source, v.requested = call.requested,
         v.poolReported = call.poolReported,
         v.index \in Nat, v.attempt \in Nat, v.index <= v.requested,
         v.attempt + v.index >= call.attempt + call.index,
         v.pc = "send" => v.attempt + v.index > call.attempt + call.index,
         v.pc \in {"send", "backoff", "failed", "judge", "charge", "over"},
         v.pc = "backoff" => v.attempt < MaxAttempts,
         call.pc # "over",
         v.pc # "over" => v.outcome = call.outcome,
         call.pc = "judge" /\ call.error # "" => v.pc = "over"
  PROVE  MemberInv(v, requests', reports')
<1>0. requests' = requests /\ reports' = reports OBVIOUS
<1>1. requests[call.source] <= call.attempt + call.index - 1 BY CallFacts DEF MemberInv
<1>2. /\ requests[v.source] <= v.attempt + v.index - 1
      /\ v.pc = "send" => requests[v.source] <= v.attempt + v.index - 2
  <2>1. requests[call.source] \in Nat /\ call.attempt \in Nat /\ call.index \in Nat BY CallFacts
  <2>2. requests[v.source] \in Nat /\ requests[v.source] <= call.attempt + call.index - 1
    BY <1>1, <2>1
  <2> QED BY <2>1, <2>2, CountsFit
<1>3. /\ v.source = "pool" => requests["api"] = 0
      /\ v.source = "api" /\ requests["pool"] > 0 => v.poolReported
      /\ \A s \in Sources : requests[s] <= MaxAttempts - 1 + v.requested
  BY CallFacts DEF MemberInv
<1>4. /\ reports \in {<<>>, <<"failure">>, <<"success">>} /\ reports # <<"success">>
      /\ v.poolReported => reports = <<"failure">>
      /\ ~v.poolReported => reports = <<>>
  BY CallFacts DEF MemberInv
<1>5. v.pc # "over" => v.outcome = "" /\ ~(v.source = "pool" /\ v.poolReported)
  BY CallFacts DEF MemberInv
<1> QED BY <1>0, <1>2, <1>3, <1>4, <1>5 DEF MemberInv

\* Whoever is still asking has paid for what was requested, and nothing else is promised.
LEMMA AskersPay ==
  ASSUME CallInv, NEW v, call.pc \in Asking, v.pc \in Asking, v.requested = call.requested
  PROVE  MoneyInv(v, billed, refundPartial, AllArrived)
BY CallFacts DEF MoneyInv, Asking

LEMMA CallRequestFails ==
  ASSUME CallInv, RequestFails
  PROVE  CallInv'
<1>1. PICK e \in CallError : CallBecomes(FailedRequest(call, e)) BY DEF RequestFails
<1> DEFINE v == FailedRequest(call, e)
           all == AllArrived
<1>2. call.pc = "wait" /\ UNCHANGED <<billed, refundPartial, requests, arrived, reports>>
  BY DEF RequestFails
<1>3. /\ v.source = call.source /\ v.adapter = call.adapter /\ v.attempt = call.attempt
      /\ v.index = call.index /\ v.items = call.items /\ v.requested = call.requested
      /\ v.poolReported = call.poolReported /\ v.outcome = call.outcome
  BY DEF FailedRequest, Retried, CallInv, CallType
<1>4. \/ v.pc = "judge" /\ v.error = call.error /\ call.items # <<>> /\ call.adapter = "gemini"
      \/ /\ v.pc = "backoff" /\ v.error = call.error
         /\ ~(call.adapter = "gemini" /\ call.items # <<>>)
      \/ v.pc = "failed" /\ ~(call.adapter = "gemini" /\ call.items # <<>>)
  BY DEF FailedRequest, Retried, CallInv, CallType
<1>5. v \in CallType BY <1>2 DEF FailedRequest, Retried, CallInv, CallType, CallPC
<1>6. CallBecomes(v) BY <1>1
<1> HIDE DEF v
<1>7. HoldsArrived(v, all)
  <2>1. HoldsArrived(call, all) /\ call.adapter \in {"gemini", "openai"} BY CallFacts
  <2> HIDE DEF all
  <2>2. v.items = all /\ call.error = "" BY <1>2, <1>3, <2>1 DEF HoldsArrived, Asking
  <2>3. ~(call.adapter = "gemini" /\ call.items # <<>>) => call.items = <<>>
    BY <1>2, <2>1 DEF HoldsArrived
  <2> QED BY <1>3, <1>4, <2>2, <2>3 DEF HoldsArrived, Asking
<1>8. MoneyInv(v, billed', refundPartial, all)
  BY <1>2, <1>3, <1>4, AskersPay DEF Asking
<1>9. MemberInv(v, requests', reports')
  <2>4. call.index <= call.requested BY CallFacts DEF MemberInv
  <2>1. /\ v.index \in Nat /\ v.attempt \in Nat /\ v.index <= v.requested
        /\ v.attempt + v.index >= call.attempt + call.index
    BY <1>3, <2>4, CallFacts
  <2>2. v.pc \in {"backoff", "failed", "judge"} BY <1>4
  <2>3. v.pc = "backoff" => v.attempt < MaxAttempts
    BY <1>2, <1>4 DEF v, FailedRequest, Retried, CallInv, CallType
  <2> QED BY <1>2, <1>3, <2>1, <2>2, <2>3, MembersStay
<1> QED BY <1>2, <1>5, <1>6, <1>7, <1>8, <1>9, CallGoes DEF CallInv

LEMMA CallBackoff ==
  ASSUME CallInv, EndBackoff
  PROVE  CallInv'
<1> DEFINE v == IF call.stop = "cancelled"
                THEN [call EXCEPT !.pc = "failed", !.error = "provider_request_failed"]
                ELSE [call EXCEPT !.pc = "send", !.attempt = @ + 1]
           all == AllArrived
<1>1. CallBecomes(v) /\ call.pc = "backoff"
      /\ UNCHANGED <<billed, refundPartial, requests, arrived, reports>>
  BY DEF EndBackoff
<1>2. /\ call.attempt < MaxAttempts /\ call.attempt \in 1 .. MaxAttempts /\ MaxAttempts \in Nat
      /\ call.index \in Nat /\ call.attempt \in Nat
  BY <1>1, CallFacts DEF MemberInv
<1>3. /\ v.source = call.source /\ v.adapter = call.adapter /\ v.index = call.index
      /\ v.items = call.items /\ v.requested = call.requested
      /\ v.poolReported = call.poolReported /\ v.outcome = call.outcome
  BY DEF CallInv, CallType
<1>4. \/ v.pc = "failed" /\ v.attempt = call.attempt
      \/ v.pc = "send" /\ v.attempt = call.attempt + 1 /\ v.error = call.error
  BY DEF CallInv, CallType
<1>5. v \in CallType
  <2>1. CASE call.stop = "cancelled" BY <2>1 DEF CallInv, CallType, CallPC, CallError, Retryable
  <2>2. CASE call.stop # "cancelled"
    <3>1. call.attempt + 1 \in 1 .. MaxAttempts BY <1>2
    <3> QED BY <2>2, <3>1 DEF CallInv, CallType, CallPC
  <2> QED BY <2>1, <2>2
<1> HIDE DEF v
<1>7. HoldsArrived(v, all)
  <2>1. HoldsArrived(call, all) BY CallFacts
  <2> HIDE DEF all
  <2>2. v.items = all /\ call.error = "" /\ v.items = <<>>
    BY <1>1, <1>3, <2>1 DEF HoldsArrived, Asking
  <2> QED BY <1>4, <2>2 DEF HoldsArrived, Asking
<1>8. MoneyInv(v, billed', refundPartial, all)
  BY <1>1, <1>3, <1>4, AskersPay DEF Asking
<1>9. MemberInv(v, requests', reports')
  <2>1. v.index \in Nat /\ v.attempt \in Nat /\ v.attempt + v.index >= call.attempt + call.index
    BY <1>2, <1>3, <1>4
  <2>5. call.index <= call.requested BY CallFacts DEF MemberInv
  <2>2. v.index <= v.requested BY <1>3, <2>5
  <2>3. v.pc = "send" => v.attempt + v.index > call.attempt + call.index BY <1>2, <1>3, <1>4
  <2>4. v.pc \in {"failed", "send"} BY <1>4
  <2> QED BY <1>1, <1>3, <2>1, <2>2, <2>3, <2>4, MembersStay
<1> QED BY <1>1, <1>5, <1>7, <1>8, <1>9, CallGoes DEF CallInv

\* An answer comes to an end of what has arrived.
LEMMA CallAnswered ==
  ASSUME CallInv, NEW items \in Seq(Item), Answered(items)
  PROVE  CallInv'
<1> DEFINE got == call.items \o items
           more == call.adapter = "gemini" /\ Len(got) < call.requested
                   /\ call.index < call.requested
           v == IF more THEN [call EXCEPT !.pc = "send", !.items = got, !.index = @ + 1]
                        ELSE [call EXCEPT !.pc = "judge", !.items = got]
           all == AllArrived
<1>1. /\ call.pc = "wait" /\ arrived' = Append(arrived, items)
      /\ CallBecomes(v) /\ UNCHANGED <<billed, refundPartial, requests, reports>>
  BY DEF Answered
<1>2. call.items = all /\ call.error = "" BY <1>1, CallFacts DEF HoldsArrived, Asking
<1>3. AllArrived' = got /\ arrived' \in Seq(Seq(Item)) /\ got \in Seq(Item)
  <2>1. arrived \in Seq(Seq(Item)) BY DEF CallInv
  <2>2. FlattenSeq(Append(arrived, items)) = FlattenSeq(arrived) \o items
    BY <2>1, FlattenAppend
  <2>3. Append(arrived, items) \in Seq(Seq(Item)) BY <2>1
  <2>4. call.items \in Seq(Item) BY CallFacts
  <2>5. AllArrived' = FlattenSeq(arrived') BY DEF AllArrived
  <2>6. AllArrived' = FlattenSeq(arrived) \o items BY <1>1, <2>2, <2>5
  <2>7. call.items = FlattenSeq(arrived) BY <1>2 DEF AllArrived
  <2>8. got \in Seq(Item) BY <2>4
  <2> QED BY <1>1, <2>3, <2>6, <2>7, <2>8
<1>4. /\ v.source = call.source /\ v.adapter = call.adapter /\ v.attempt = call.attempt
      /\ v.items = got /\ v.requested = call.requested /\ v.error = call.error
      /\ v.poolReported = call.poolReported /\ v.outcome = call.outcome
  BY DEF CallInv, CallType
<1>5. \/ /\ v.pc = "send" /\ v.index = call.index + 1 /\ call.adapter = "gemini"
         /\ call.index < call.requested
      \/ v.pc = "judge" /\ v.index = call.index
  BY DEF CallInv, CallType
<1>6. v \in CallType
  <2>1. CASE more
    <3>1. call.index + 1 \in 1 .. MaxRequested
      BY <2>1, CallFacts, ProviderCallAssumption
    <3> QED BY <1>3, <2>1, <3>1 DEF CallInv, CallType, CallPC
  <2>2. CASE ~more BY <1>3, <2>2 DEF CallInv, CallType, CallPC
  <2> QED BY <2>1, <2>2
<1> HIDE DEF v, got
<1>7. HoldsArrived(v, got)
  BY <1>2, <1>4, <1>5 DEF HoldsArrived, Asking
<1>8. MoneyInv(v, billed', refundPartial, got)
  <2>1. billed = call.requested BY <1>1, CallFacts DEF MoneyInv, Asking
  <2> QED BY <1>1, <1>4, <1>5, <2>1 DEF MoneyInv, Asking
<1>9. MemberInv(v, requests', reports')
  <2>1. /\ call.index \in Nat /\ call.attempt \in Nat /\ call.requested \in Nat
        /\ call.index <= call.requested
    BY CallFacts DEF MemberInv
  <2>2. v.index \in Nat /\ v.attempt \in Nat /\ v.attempt + v.index >= call.attempt + call.index
    BY <1>4, <1>5, <2>1
  <2>3. v.index <= v.requested BY <1>4, <1>5, <2>1
  <2>4. v.pc = "send" => v.attempt + v.index > call.attempt + call.index BY <1>4, <1>5, <2>1
  <2>5. v.pc \in {"judge", "send"} BY <1>5
  <2> QED BY <1>1, <1>4, <2>2, <2>3, <2>4, <2>5, MembersStay
<1> QED BY <1>1, <1>3, <1>6, <1>7, <1>8, <1>9 DEF CallInv, CallBecomes

\* The first report on a member.
LEMMA FirstReport ==
  ASSUME CallInv, call.pc # "over", ~call.poolReported, NEW what, Report("pool", what)
  PROVE  reports' = <<what>>
<1>1. reports = <<>> BY CallFacts DEF MemberInv
<1> QED BY <1>1 DEF Report

LEMMA CallFallsBack ==
  ASSUME CallInv, FallBack
  PROVE  CallInv'
<1> DEFINE all == AllArrived
<1>1. call.pc = "failed" /\ UNCHANGED <<billed, refundPartial, requests, arrived>>
  BY DEF FallBack
<1>2. call.items = all /\ call.items = <<>> BY <1>1, CallFacts DEF HoldsArrived, Asking
<1>3. CASE call.source = "api" \/ call.stop = "cancelled"
  <2> DEFINE v == [call EXCEPT !.pc = "judge"]
  <2>1. CASE CallBecomes(v) /\ UNCHANGED reports
    <3>1. /\ v \in CallType /\ v.pc = "judge" /\ v.requested = call.requested
          /\ v.source = call.source /\ v.adapter = call.adapter /\ v.attempt = call.attempt
          /\ v.index = call.index /\ v.items = call.items /\ v.error = call.error
          /\ v.poolReported = call.poolReported /\ v.outcome = call.outcome
      BY DEF CallInv, CallType, CallPC
    <3> HIDE DEF v, all
    <3>2. HoldsArrived(v, all) BY <1>2, <3>1 DEF HoldsArrived
    <3>3. MoneyInv(v, billed', refundPartial, AllArrived)
      BY <1>1, <3>1, AskersPay DEF Asking
    <3>4. call.index <= call.requested BY CallFacts DEF MemberInv
    <3>5. /\ v.index \in Nat /\ v.attempt \in Nat /\ v.index <= v.requested
          /\ v.attempt + v.index >= call.attempt + call.index
      BY <3>1, <3>4, CallFacts
    <3>6. MemberInv(v, requests', reports')
      BY <1>1, <2>1, <3>1, <3>5, MembersStay
    <3> QED BY <1>1, <2>1, <3>1, <3>2, <3>3, <3>6, CallGoes DEF CallInv, all
  <2>2. CASE call.source = "pool" /\ call.stop # "cancelled" BY <1>3, <2>2
  <2> QED BY <1>1, <2>1, <2>2 DEF FallBack
<1>4. CASE call.source = "pool" /\ call.stop # "cancelled"
  <2>1. ~call.poolReported /\ call.outcome = "" BY <1>1, <1>4, CallFacts DEF MemberInv
  <2>2. Report("pool", "failure") BY <1>4 DEF FallBack
  <2>3. reports' = <<"failure">> BY <1>1, <2>1, <2>2, FirstReport
  <2>4. requests["api"] = 0 BY <1>4, CallFacts DEF MemberInv
  <2>5. /\ \A s \in Sources : requests[s] <= MaxAttempts - 1 + call.requested
        /\ call.index <= call.requested /\ requests["pool"] <= call.attempt + call.index - 1
    BY <1>4, CallFacts DEF MemberInv
  <2>6. ASSUME NEW v, CallBecomes(v), v \in CallType, v.pc \in {"send", "judge"},
               v.items = call.items, v.requested = call.requested, v.outcome = call.outcome,
               v.poolReported = TRUE,
               v.pc = "send" => /\ v.source = "api" /\ v.error = ""
                                /\ v.attempt = 1 /\ v.index = 1,
               v.pc = "judge" => /\ v.source = "pool" /\ v.error = "no_fallback"
                                 /\ v.attempt = call.attempt /\ v.index = call.index
        PROVE  CallInv'
    <3> HIDE DEF all
    <3>1. HoldsArrived(v, all) BY <1>2, <2>6 DEF HoldsArrived
    <3>5. v.pc \in Asking /\ call.pc \in Asking /\ billed' = billed
      BY <1>1, <2>6 DEF Asking
    <3>2. MoneyInv(v, billed', refundPartial, AllArrived)
      BY <2>6, <3>5, AskersPay
    <3>3. CASE v.pc = "send"
      <4>4. /\ v.source = "api" /\ v.attempt = 1 /\ v.index = 1
            /\ v.requested = call.requested
        BY <2>6, <3>3
      <4>1. v.index <= v.requested BY <4>4, CallFacts, ProviderCallAssumption
      <4>2. /\ requests[v.source] <= v.attempt + v.index - 2
            /\ requests[v.source] <= v.attempt + v.index - 1
        BY <2>4, <4>4
      <4>3. MemberInv(v, requests, <<"failure">>)
        BY <2>1, <2>4, <2>5, <2>6, <3>3, <4>1, <4>2, CallFacts DEF MemberInv
      <4> QED BY <1>1, <2>3, <2>6, <3>1, <3>2, <4>3, CallGoes DEF CallInv, all
    <3>4. CASE v.pc = "judge"
      <4>1. MemberInv(v, requests, <<"failure">>)
        BY <2>1, <2>4, <2>5, <2>6, <3>4, CallFacts DEF MemberInv
      <4> QED BY <1>1, <2>3, <2>6, <3>1, <3>2, <4>1, CallGoes DEF CallInv, all
    <3> QED BY <2>6, <3>3, <3>4
  <2>7. ASSUME NEW adapter \in {"gemini", "openai"},
               CallBecomes([call EXCEPT !.pc = "send", !.source = "api", !.adapter = adapter,
                                        !.attempt = 1, !.index = 1, !.error = "",
                                        !.poolReported = TRUE])
        PROVE  CallInv'
    <3> DEFINE v == [call EXCEPT !.pc = "send", !.source = "api", !.adapter = adapter,
                                 !.attempt = 1, !.index = 1, !.error = "",
                                 !.poolReported = TRUE]
    <3>1. 1 \in 1 .. MaxAttempts /\ 1 \in 1 .. MaxRequested BY ProviderCallAssumption
    <3>2. v \in CallType BY <3>1 DEF CallInv, CallType, CallPC, Sources
    <3>3. /\ v.pc = "send" /\ v.items = call.items /\ v.requested = call.requested
          /\ v.outcome = call.outcome /\ v.poolReported = TRUE /\ v.source = "api"
          /\ v.error = "" /\ v.attempt = 1 /\ v.index = 1
      BY DEF CallInv, CallType
    <3>4. CallBecomes(v) BY <2>7
    <3> HIDE DEF v
    <3> QED BY <2>6, <3>2, <3>3, <3>4
  <2>8. ASSUME CallBecomes([call EXCEPT !.pc = "judge", !.error = "no_fallback",
                                        !.poolReported = TRUE])
        PROVE  CallInv'
    <3> DEFINE v == [call EXCEPT !.pc = "judge", !.error = "no_fallback", !.poolReported = TRUE]
    <3>2. v \in CallType BY DEF CallInv, CallType, CallPC
    <3>3. /\ v.pc = "judge" /\ v.items = call.items /\ v.requested = call.requested
          /\ v.outcome = call.outcome /\ v.poolReported = TRUE /\ v.source = call.source
          /\ v.error = "no_fallback" /\ v.attempt = call.attempt /\ v.index = call.index
      BY DEF CallInv, CallType
    <3>4. CallBecomes(v) BY <2>8
    <3> HIDE DEF v
    <3> QED BY <1>4, <2>6, <3>2, <3>3, <3>4
  <2> QED BY <1>1, <1>4, <2>7, <2>8 DEF FallBack
<1>5. call.source \in {"api", "pool"} BY CallFacts DEF Sources
<1> QED BY <1>3, <1>4, <1>5

LEMMA CallJudgedCancelled ==
  ASSUME CallInv, JudgeCancelled
  PROVE  CallInv'
<1> DEFINE v == [call EXCEPT !.pc = "over", !.outcome = "cancelled"]
           all == AllArrived
<1>1. CallBecomes(v) /\ call.pc = "judge"
      /\ UNCHANGED <<billed, refundPartial, requests, arrived, reports>>
  BY DEF JudgeCancelled, Ends
<1>2. /\ v \in CallType /\ v.pc = "over" /\ v.outcome = "cancelled"
      /\ v.requested = call.requested /\ v.source = call.source /\ v.attempt = call.attempt
      /\ v.index = call.index /\ v.poolReported = call.poolReported
  BY DEF CallInv, CallType, CallPC
<1> HIDE DEF v, all
<1>3. HoldsArrived(v, all) BY <1>2 DEF HoldsArrived, Asking
<1>4. MoneyInv(v, billed', refundPartial, all) BY <1>2 DEF MoneyInv, Asking
<1>5. call.index <= call.requested BY CallFacts DEF MemberInv
<1>6. /\ v.index \in Nat /\ v.attempt \in Nat /\ v.index <= v.requested
      /\ v.attempt + v.index >= call.attempt + call.index
  BY <1>2, <1>5, CallFacts
<1>7. MemberInv(v, requests', reports') BY <1>1, <1>2, <1>6, MembersStay
<1> QED BY <1>1, <1>2, <1>3, <1>4, <1>7, CallGoes DEF CallInv, all

\* The first n items.
LEMMA LimitedFits ==
  ASSUME NEW items \in Seq(Item), NEW n \in Nat, n < Len(items)
  PROVE  /\ Limited(items, n) \in Seq(Item)
         /\ Len(Limited(items, n)) = n
         /\ ToSet(Limited(items, n)) \subseteq ToSet(items)
<1>1. Limited(items, n) = SubSeq(items, 1, n) BY DEF Limited
<1>2. /\ SubSeq(items, 1, n) \in Seq(Item) /\ Len(SubSeq(items, 1, n)) = n
      /\ \A i \in 1..n : SubSeq(items, 1, n)[i] = items[i]
  OBVIOUS
<1> DEFINE s == SubSeq(items, 1, n)
<1>3. DOMAIN s = 1..n /\ 1..n \subseteq DOMAIN items BY <1>2
<1>4. ToSet(s) \subseteq ToSet(items)
  <2> SUFFICES ASSUME NEW i \in 1..n PROVE s[i] \in ToSet(items) BY <1>3 DEF ToSet
  <2>1. s[i] = items[i] /\ i \in DOMAIN items BY <1>2, <1>3
  <2> QED BY <2>1 DEF ToSet
<1> QED BY <1>1, <1>2, <1>4

\* The end of a call: the member has its report.
LEMMA MembersDone ==
  ASSUME CallInv, NEW v, requests' = requests, call.pc # "over", v.pc = "over",
         v.source = call.source, v.requested = call.requested,
         v.poolReported = call.poolReported, v.index = call.index, v.attempt = call.attempt,
         \/ reports' = reports
         \/ ~call.poolReported /\ reports' = <<"failure">>
         \/ /\ ~call.poolReported /\ reports' = <<"success">>
            /\ v.source = "pool" /\ v.outcome = "delivered"
  PROVE  MemberInv(v, requests', reports')
<1>1. /\ requests[v.source] <= v.attempt + v.index - 1
      /\ v.source = "pool" => requests["api"] = 0
      /\ v.source = "api" /\ requests["pool"] > 0 => v.poolReported
      /\ v.index <= v.requested
      /\ \A s \in Sources : requests[s] <= MaxAttempts - 1 + v.requested
  BY CallFacts DEF MemberInv
<1>2. /\ reports \in {<<>>, <<"failure">>, <<"success">>} /\ reports # <<"success">>
      /\ v.poolReported => reports = <<"failure">>
      /\ call.poolReported \in BOOLEAN
  BY CallFacts DEF MemberInv
<1>3. /\ reports' \in {<<>>, <<"failure">>, <<"success">>}
      /\ v.poolReported => reports' = <<"failure">>
      /\ reports' = <<"success">> => v.source = "pool" /\ v.outcome = "delivered"
  BY <1>2, CallFacts
<1> QED BY <1>1, <1>3 DEF MemberInv

LEMMA CallFails ==
  ASSUME CallInv, NEW items \in Seq(Item), Fails([call EXCEPT !.items = items]),
         UNCHANGED <<refundPartial, requests, arrived>>, call.pc # "over",
         reports' = reports \/ (~call.poolReported /\ reports' = <<"failure">>),
         "blank" \notin ToSet(AllArrived) => AllArrived = <<>> \/ call.charged > 0
  PROVE  CallInv'
<1> DEFINE v == [call EXCEPT !.items = items, !.pc = "over", !.outcome = "failed"]
           all == AllArrived
<1>1. CallBecomes(v) /\ billed' = 0
  BY DEF Fails, Ends, CallInv, CallType, CallBecomes
<1>2. /\ v \in CallType /\ v.pc = "over" /\ v.outcome = "failed"
      /\ v.requested = call.requested /\ v.source = call.source /\ v.attempt = call.attempt
      /\ v.index = call.index /\ v.poolReported = call.poolReported
      /\ v.charged = call.charged
  BY DEF CallInv, CallType, CallPC
<1> HIDE DEF v
<1>3. HoldsArrived(v, all) BY <1>2 DEF HoldsArrived, Asking
<1>4. MoneyInv(v, billed', refundPartial, all) BY <1>1, <1>2 DEF MoneyInv, Asking
<1>5. MemberInv(v, requests', reports') BY <1>1, <1>2, MembersDone
<1> QED BY <1>1, <1>2, <1>3, <1>4, <1>5, CallGoes DEF CallInv

LEMMA SourceReport ==
  ASSUME CallInv, call.pc # "over", NEW what, Report(call.source, what), ~call.poolReported
  PROVE  reports' = IF call.source = "pool" THEN <<what>> ELSE reports
BY FirstReport, CallFacts DEF Report

LEMMA CallJudgedFailed ==
  ASSUME CallInv, JudgeFailure
  PROVE  CallInv'
<1>1. /\ call.pc = "judge" /\ call.error # "" /\ Fails(call)
      /\ UNCHANGED <<refundPartial, requests, arrived>>
      /\ IF call.poolReported THEN UNCHANGED reports ELSE Report(call.source, "failure")
  BY DEF JudgeFailure
<1>2. AllArrived = <<>> BY <1>1, CallFacts DEF HoldsArrived, Asking
<1>3. reports' = reports \/ (~call.poolReported /\ reports' = <<"failure">>)
  BY <1>1, SourceReport
<1>4. call.items \in Seq(Item) /\ call = [call EXCEPT !.items = call.items]
  BY DEF CallInv, CallType
<1> QED BY <1>1, <1>2, <1>3, <1>4, CallFails

LEMMA CallJudgedAnswer ==
  ASSUME CallInv, JudgeAnswer
  PROVE  CallInv'
<1> DEFINE items == IF PicturesOf(call.items) > MaxReturned
                    THEN Limited(call.items, MaxReturned) ELSE call.items
           n == PicturesOf(items)
           all == AllArrived
<1>1. call.pc = "judge" /\ call.error = "" /\ UNCHANGED <<refundPartial, requests, arrived>>
  BY DEF JudgeAnswer
<1>2. \/ /\ n = 0
         /\ Report(call.source, "failure")
         /\ Fails([call EXCEPT !.items = items])
      \/ /\ n > 0
         /\ billed' = IF n < call.requested /\ refundPartial THEN n ELSE billed
         /\ CallBecomes([call EXCEPT !.pc = "charge", !.items = items,
                                     !.charged = call.requested])
         /\ UNCHANGED reports
  BY DEF JudgeAnswer
<1>3. call.items = all /\ billed = call.requested
  BY <1>1, CallFacts DEF HoldsArrived, MoneyInv, Asking
<1>4. /\ items \in Seq(Item) /\ ToSet(items) \subseteq ToSet(all)
      /\ items = all \/ Len(items) = MaxReturned
  <2>1. call.items \in Seq(Item) /\ MaxReturned \in Nat BY CallFacts, ProviderCallAssumption
  <2>2. CASE PicturesOf(call.items) > MaxReturned
    <3>1. MaxReturned < Len(call.items) /\ Len(call.items) \in Nat
      BY <2>1, <2>2, PicturesCounted
    <3> QED BY <1>3, <2>1, <2>2, <3>1, LimitedFits
  <2>3. CASE ~(PicturesOf(call.items) > MaxReturned) BY <1>3, <2>1, <2>3
  <2> QED BY <2>2, <2>3
<1>5. call.source = "pool" => ~call.poolReported
  BY <1>1, CallFacts DEF MemberInv
<1> HIDE DEF items
<1>6. n \in Nat /\ n <= Len(items) /\ ("blank" \notin ToSet(items) => n = Len(items))
  BY <1>4, PicturesCounted
<1>7. CASE /\ n = 0
           /\ Report(call.source, "failure")
           /\ Fails([call EXCEPT !.items = items])
  <2>1. "blank" \notin ToSet(all) => all = <<>>
    <3> SUFFICES ASSUME "blank" \notin ToSet(all) PROVE all = <<>> OBVIOUS
    <3>1. Len(items) = 0 BY <1>4, <1>6, <1>7
    <3>2. MaxReturned # 0 BY ProviderCallAssumption
    <3>3. items = all BY <1>4, <3>1, <3>2
    <3> QED BY <1>4, <3>1, <3>3
  <2>2. reports' = reports \/ (~call.poolReported /\ reports' = <<"failure">>)
    <3>1. CASE call.source = "pool" BY <1>1, <1>5, <1>7, <3>1, FirstReport
    <3>2. CASE call.source # "pool" BY <1>7, <3>2 DEF Report
    <3> QED BY <3>1, <3>2
  <2> QED BY <1>1, <1>4, <1>7, <2>1, <2>2, CallFails
<1>8. CASE /\ n > 0
           /\ billed' = IF n < call.requested /\ refundPartial THEN n ELSE billed
           /\ CallBecomes([call EXCEPT !.pc = "charge", !.items = items,
                                       !.charged = call.requested])
           /\ UNCHANGED reports
  <2> DEFINE v == [call EXCEPT !.pc = "charge", !.items = items, !.charged = call.requested]
  <2>1. /\ v \in CallType /\ v.pc = "charge" /\ v.requested = call.requested
        /\ v.source = call.source /\ v.attempt = call.attempt /\ v.index = call.index
        /\ v.items = items /\ v.poolReported = call.poolReported /\ v.outcome = call.outcome
        /\ v.charged = call.requested
    BY <1>4, CallFacts DEF CallInv, CallType, CallPC
  <2>2. CallBecomes(v) BY <1>8
  <2> HIDE DEF v, all
  <2>3. HoldsArrived(v, all) BY <2>1 DEF HoldsArrived, Asking
  <2>4. call.requested \in Nat /\ call.requested > 0 BY CallFacts, ProviderCallAssumption
  <2>5. Judged(v, all) BY <1>4, <2>1 DEF Judged
  <2>6. PaidFor(v, billed', refundPartial, all)
    <3>1. PicturesOf(v.items) = n /\ v.charged = call.requested BY <2>1
    <3>2. n >= call.requested => billed' = call.requested BY <1>3, <1>6, <1>8, <2>4
    <3>3. n < call.requested => billed' >= n BY <1>3, <1>6, <1>8, <2>4
    <3>4. n < call.requested /\ refundPartial => billed' = n BY <1>8
    <3> HIDE DEF n
    <3> QED BY <2>4, <3>1, <3>2, <3>3, <3>4 DEF PaidFor
  <2>7. MoneyInv(v, billed', refundPartial, all) BY <2>1, <2>5, <2>6 DEF MoneyInv, Asking
  <2>8. billed' \in Nat BY <1>3, <1>6, <1>8, <2>4
  <2>9. call.index <= call.requested BY CallFacts DEF MemberInv
  <2>10. /\ v.index \in Nat /\ v.attempt \in Nat /\ v.index <= v.requested
         /\ v.attempt + v.index >= call.attempt + call.index
    BY <2>1, <2>9, CallFacts
  <2>11. MemberInv(v, requests', reports') BY <1>1, <1>8, <2>1, <2>10, MembersStay
  <2> QED BY <1>1, <1>8, <2>1, <2>2, <2>3, <2>7, <2>8, <2>11, CallGoes DEF CallInv, all
<1> QED BY <1>2, <1>7, <1>8

LEMMA CallCharged ==
  ASSUME CallInv, ChargeExtra
  PROVE  CallInv'
<1> DEFINE n == PicturesOf(call.items)
           all == AllArrived
<1>1. /\ call.pc = "charge" /\ call.charged < n
      /\ UNCHANGED <<refundPartial, requests, arrived, reports>>
  BY DEF ChargeExtra
<1>2. Judged(call, all) /\ PaidFor(call, billed, refundPartial, all)
  BY <1>1, CallFacts DEF MoneyInv
<1>3. n \in Nat /\ n <= Len(call.items) /\ call.charged \in Nat /\ call.items \in Seq(Item)
      /\ Len(call.items) \in Nat
  BY CallFacts, PicturesCounted
<1>4. call.charged > 0 /\ billed = call.charged /\ call.charged < Len(call.items)
  BY <1>1, <1>2, <1>3 DEF PaidFor
<1>5. call.index <= call.requested BY CallFacts DEF MemberInv
<1>6. ASSUME NEW v, CallBecomes(v), v \in CallType, v.pc = "charge",
             v.requested = call.requested, v.source = call.source, v.attempt = call.attempt,
             v.index = call.index, v.poolReported = call.poolReported,
             v.outcome = call.outcome, billed' \in Nat,
             Judged(v, all), PaidFor(v, billed', refundPartial, all)
      PROVE  CallInv'
  <2>1. HoldsArrived(v, all) BY <1>6 DEF HoldsArrived, Asking
  <2>2. MoneyInv(v, billed', refundPartial, all) BY <1>6 DEF MoneyInv, Asking
  <2>3. /\ v.index \in Nat /\ v.attempt \in Nat /\ v.index <= v.requested
        /\ v.attempt + v.index >= call.attempt + call.index
    BY <1>5, <1>6, CallFacts
  <2>4. MemberInv(v, requests', reports') BY <1>1, <1>6, <2>3, MembersStay
  <2> QED BY <1>1, <1>6, <2>1, <2>2, <2>4, CallGoes DEF CallInv
<1>7. CASE billed' = billed + 1 /\ CallBecomes([call EXCEPT !.charged = @ + 1])
  <2> DEFINE v == [call EXCEPT !.charged = @ + 1]
  <2>1. /\ v \in CallType /\ v.pc = "charge" /\ v.requested = call.requested
        /\ v.source = call.source /\ v.attempt = call.attempt /\ v.index = call.index
        /\ v.items = call.items /\ v.poolReported = call.poolReported
        /\ v.outcome = call.outcome /\ v.charged = call.charged + 1
    <3>1. call.charged + 1 \in Nat BY <1>3
    <3> QED BY <1>1, <3>1 DEF CallInv, CallType
  <2>2. CallBecomes(v) BY <1>7
  <2> HIDE DEF v, all
  <2>3. Judged(v, all) BY <1>2, <1>3, <1>4, <2>1 DEF Judged
  <2>4. PicturesOf(v.items) = n BY <2>1
  <2> HIDE DEF n
  <2>5. PaidFor(v, billed', refundPartial, all)
    BY <1>1, <1>3, <1>4, <1>7, <2>1, <2>4 DEF PaidFor
  <2>6. billed' \in Nat BY <1>3, <1>4, <1>7
  <2> QED BY <1>6, <2>1, <2>2, <2>3, <2>5, <2>6 DEF all
<1>8. CASE CallBecomes([call EXCEPT !.items = Limited(@, call.charged)]) /\ UNCHANGED billed
  <2> DEFINE items == Limited(call.items, call.charged)
             v == [call EXCEPT !.items = items]
  <2>1. /\ items \in Seq(Item) /\ Len(items) = call.charged
        /\ ToSet(items) \subseteq ToSet(call.items)
    BY <1>3, <1>4, LimitedFits
  <2>2. /\ v \in CallType /\ v.pc = "charge" /\ v.requested = call.requested
        /\ v.source = call.source /\ v.attempt = call.attempt /\ v.index = call.index
        /\ v.items = items /\ v.poolReported = call.poolReported
        /\ v.outcome = call.outcome /\ v.charged = call.charged
    BY <1>1, <2>1 DEF CallInv, CallType
  <2>3. CallBecomes(v) BY <1>8
  <2> HIDE DEF v, all, items
  <2>4. ToSet(items) \subseteq ToSet(all) BY <1>2, <2>1 DEF Judged
  <2>5. Judged(v, all) BY <2>1, <2>2, <2>4 DEF Judged
  <2>6. PicturesOf(items) \in Nat /\ PicturesOf(items) <= call.charged
        /\ ("blank" \notin ToSet(all) => PicturesOf(items) = call.charged)
    BY <2>1, <2>4, PicturesCounted
  <2>7. PaidFor(v, billed', refundPartial, all)
    BY <1>3, <1>4, <1>8, <2>2, <2>6 DEF PaidFor
  <2>8. billed' \in Nat BY <1>3, <1>4, <1>8
  <2> QED BY <1>6, <2>2, <2>3, <2>5, <2>7, <2>8 DEF all
<1>9. CASE Fails(call)
  <2>1. call = [call EXCEPT !.items = call.items] BY DEF CallInv, CallType
  <2> QED BY <1>1, <1>3, <1>4, <1>9, <2>1, CallFails
<1> QED BY <1>7, <1>8, <1>9 DEF ChargeExtra

LEMMA CallDelivered ==
  ASSUME CallInv, Deliver
  PROVE  CallInv'
<1> DEFINE n == PicturesOf(call.items)
           all == AllArrived
<1>1. /\ call.pc = "charge" /\ call.charged >= n
      /\ UNCHANGED <<billed, refundPartial, requests, arrived>>
  BY DEF Deliver
<1>2. PICK outcome \in {"cancelled", "delivered"} :
        /\ Ends(call, outcome)
        /\ \/ outcome = "cancelled" /\ UNCHANGED reports
           \/ outcome = "delivered" /\ Report(call.source, "success")
  BY DEF Deliver
<1> DEFINE v == [call EXCEPT !.pc = "over", !.outcome = outcome]
<1>3. /\ v \in CallType /\ v.pc = "over" /\ v.outcome = outcome
      /\ v.requested = call.requested /\ v.source = call.source /\ v.attempt = call.attempt
      /\ v.index = call.index /\ v.poolReported = call.poolReported
      /\ v.items = call.items /\ v.charged = call.charged
  BY DEF CallInv, CallType, CallPC
<1>4. CallBecomes(v) BY <1>2 DEF Ends
<1> HIDE DEF v, all
<1>5. HoldsArrived(v, all) BY <1>3 DEF HoldsArrived, Asking
<1>6. MoneyInv(v, billed', refundPartial, all)
  <2>1. Judged(call, all) /\ PaidFor(call, billed, refundPartial, all)
    BY <1>1, CallFacts DEF MoneyInv, all
  <2>2. n \in Nat /\ call.charged \in Nat BY CallFacts, PicturesCounted
  <2>3. Judged(v, all) BY <1>3, <2>1 DEF Judged
  <2>4. PicturesOf(v.items) = n BY <1>3
  <2>5. /\ n >= call.charged => billed = call.charged
        /\ n < call.charged => billed >= n
        /\ n < call.charged /\ refundPartial /\ "blank" \notin ToSet(all) => billed = n
    BY <2>1 DEF PaidFor
  <2> HIDE DEF n
  <2>6. n <= billed /\ ("blank" \notin ToSet(all) /\ refundPartial => n = billed)
    BY <1>1, <2>2, <2>5
  <2> QED BY <1>1, <1>2, <1>3, <2>3, <2>4, <2>6 DEF MoneyInv, Asking
<1>7. \/ reports' = reports
      \/ /\ ~call.poolReported /\ reports' = <<"success">>
         /\ v.source = "pool" /\ v.outcome = "delivered"
  <2>1. CASE outcome = "cancelled" BY <1>2, <2>1
  <2>2. CASE outcome = "delivered" /\ call.source # "pool" BY <1>2, <2>2 DEF Report
  <2>3. CASE outcome = "delivered" /\ call.source = "pool"
    <3>1. ~call.poolReported BY <1>1, <2>3, CallFacts DEF MemberInv
    <3> QED BY <1>1, <1>2, <1>3, <2>3, <3>1, FirstReport
  <2> QED BY <2>1, <2>2, <2>3
<1>8. MemberInv(v, requests', reports') BY <1>1, <1>3, <1>7, MembersDone
<1> QED BY <1>1, <1>3, <1>4, <1>5, <1>6, <1>8, CallGoes DEF CallInv, all

\* The initial states.
THEOREM CallBeginsInv == CallInit => CallInv
<1> SUFFICES ASSUME CallInit PROVE CallInv OBVIOUS
<1>1. 1 \in 1 .. MaxAttempts /\ 1 \in 1 .. MaxRequested BY ProviderCallAssumption
<1>2. call \in CallType
  <2>1. "api" \in Sources /\ "idle" \in CallPC /\ "" \in CallError \cup {"", "no_fallback"}
    BY DEF Sources, CallPC
  <2>2. <<>> \in Seq(Item) /\ 0 \in Nat OBVIOUS
  <2> QED BY <1>1, <2>1, <2>2 DEF CallInit, CallType
<1>3. AllArrived = <<>> BY DEF CallInit, AllArrived, FlattenSeq
<1>4. /\ call.pc = "idle" /\ call.items = <<>> /\ call.error = "" /\ call.source = "api"
      /\ call.attempt = 1 /\ call.index = 1 /\ call.requested = 1 /\ call.outcome = ""
      /\ ~call.poolReported
  BY DEF CallInit
<1>5. HoldsArrived(call, AllArrived) BY <1>3, <1>4 DEF HoldsArrived
<1>6. MoneyInv(call, billed, refundPartial, AllArrived) BY <1>4 DEF MoneyInv, Asking
<1>7. MemberInv(call, requests, reports)
  <2>1. \A s \in Sources : requests[s] = 0 BY DEF CallInit
  <2>2. reports = <<>> /\ <<>> # <<"success">> BY DEF CallInit
  <2>3. "pool" \in Sources /\ "api" \in Sources BY DEF Sources
  <2>4. \A s \in Sources : requests[s] <= MaxAttempts - 1 + call.requested
    <3>1. MaxAttempts \in Nat /\ MaxAttempts >= 1 BY ProviderCallAssumption
    <3>2. call.requested = 1 BY <1>4
    <3>3. 0 <= MaxAttempts - 1 + 1 BY <3>1
    <3> QED BY <2>1, <3>2, <3>3
  <2>5. requests["api"] = 0 /\ requests["pool"] = 0 BY <2>1, <2>3
  <2>6. /\ requests[call.source] <= call.attempt + call.index - 1
        /\ requests[call.source] <= call.attempt + call.index - 2
        /\ call.index <= call.requested
    <3>1. call.source = "api" /\ call.attempt = 1 /\ call.index = 1 /\ call.requested = 1
      BY <1>4
    <3> HIDE <1>4
    <3> QED BY <2>5, <3>1
  <2>7. /\ call.pc = "idle" /\ call.source = "api" /\ call.index = 1 /\ call.outcome = ""
        /\ ~call.poolReported
    BY <1>4
  <2>8. ~(requests["pool"] > 0) BY <2>5
  <2>9. reports \in {<<>>, <<"failure">>, <<"success">>} /\ reports # <<"success">> BY <2>2
  <2>10. call.pc # "backoff" /\ call.pc # "over" /\ call.source # "pool" BY <2>7
  <2>11. reports = <<>> BY <2>2
  <2> QED BY <2>1, <2>4, <2>6, <2>7, <2>8, <2>9, <2>10, <2>11 DEF MemberInv
<1>8. arrived \in Seq(Seq(Item)) /\ billed \in Nat /\ requests \in [Sources -> Nat]
      /\ refundPartial \in BOOLEAN
  <2>1. [s \in Sources |-> 0] \in [Sources -> Nat] OBVIOUS
  <2>2. <<>> \in Seq(Seq(Item)) OBVIOUS
  <2> QED BY <2>1, <2>2 DEF CallInit
<1> QED BY <1>2, <1>5, <1>6, <1>7, <1>8 DEF CallInv

THEOREM CallContinues == CallInv /\ [CallNext]_callVars => CallInv'
<1> SUFFICES ASSUME CallInv, [CallNext]_callVars PROVE CallInv' OBVIOUS
<1>1. CASE BeginCall BY <1>1, CallBegins
<1>2. CASE CancelCall BY <1>2, CallCancelled
<1>3. CASE SendRequest BY <1>3, CallSends
<1>4. CASE RequestFails BY <1>4, CallRequestFails
<1>5. ASSUME NEW items \in BoundedSeq(Item, MaxItems), Answered(items) PROVE CallInv'
  <2>1. items \in Seq(Item)
    <3>1. PICK m \in 0..MaxItems : items \in [1..m -> Item] BY <1>5 DEF BoundedSeq, SeqOf
    <3>2. m \in Nat BY ProviderCallAssumption
    <3> QED BY <3>1, <3>2
  <2> QED BY <1>5, <2>1, CallAnswered
<1>6. CASE EndBackoff BY <1>6, CallBackoff
<1>7. CASE FallBack BY <1>7, CallFallsBack
<1>8. CASE JudgeCancelled BY <1>8, CallJudgedCancelled
<1>9. CASE JudgeFailure BY <1>9, CallJudgedFailed
<1>10. CASE JudgeAnswer BY <1>10, CallJudgedAnswer
<1>11. CASE ChargeExtra BY <1>11, CallCharged
<1>12. CASE Deliver BY <1>12, CallDelivered
<1>13. CASE UNCHANGED callVars BY <1>13 DEF callVars, CallInv, AllArrived
<1> QED
  BY <1>1, <1>2, <1>3, <1>4, <1>5, <1>6, <1>7, <1>8, <1>9, <1>10, <1>11, <1>12, <1>13
  DEF CallNext

LEMMA InvTypesCall == CallInv => CallTypeOK
<1> SUFFICES ASSUME CallInv PROVE CallTypeOK OBVIOUS
<1>1. reports \in {<<>>, <<"failure">>, <<"success">>} BY CallFacts DEF MemberInv
<1>2. reports \in Seq({"success", "failure"})
  <2>1. /\ <<>> \in Seq({"success", "failure"})
        /\ <<"failure">> \in Seq({"success", "failure"})
        /\ <<"success">> \in Seq({"success", "failure"})
    OBVIOUS
  <2> QED BY <1>1, <2>1
<1> QED BY <1>2 DEF CallInv, CallTypeOK, CallType

LEMMA InvSettlesCall == CallInv => CallsAreSettled
<1> SUFFICES ASSUME CallInv PROVE CallsAreSettled OBVIOUS
<1>1. PicturesAreDelivered
  BY CallFacts DEF PicturesAreDelivered, NoBlanks, Over, MoneyInv, Judged
<1>2. DeliveriesArePaid
  BY CallFacts DEF DeliveriesArePaid, NoBlanks, Over, MoneyInv
<1>3. MembersAreJudgedOnce
  <2>1. reports \in {<<>>, <<"failure">>, <<"success">>} BY CallFacts DEF MemberInv
  <2>2. Len(reports) <= 1
    <3>1. Len(<<>>) = 0 /\ Len(<<"failure">>) = 1 /\ Len(<<"success">>) = 1 OBVIOUS
    <3>2. CASE reports = <<>> BY <3>1, <3>2
    <3>3. CASE reports = <<"failure">> BY <3>1, <3>3
    <3>4. CASE reports = <<"success">> BY <3>1, <3>4
    <3> QED BY <2>1, <3>2, <3>3, <3>4
  <2>3. reports = <<"success">> => Over("delivered") /\ requests["api"] = 0
    BY CallFacts DEF MemberInv, Over
  <2>4. Over("delivered") /\ requests["pool"] > 0 /\ requests["api"] > 0
          => reports = <<"failure">>
    <3> SUFFICES ASSUME requests["pool"] > 0, requests["api"] > 0
                 PROVE  reports = <<"failure">>
      OBVIOUS
    <3>1. call.source \in {"pool", "api"} /\ requests["api"] # 0 BY CallFacts DEF Sources
    <3> QED BY <3>1, CallFacts DEF MemberInv
  <2>5. \A s \in Sources : requests[s] <= MaxAttempts - 1 + call.requested
    BY CallFacts DEF MemberInv
  <2> QED BY <2>2, <2>3, <2>4, <2>5 DEF MembersAreJudgedOnce
<1> QED BY <1>1, <1>2, <1>3 DEF CallsAreSettled

\* Every reachable state of the calls is well typed (ProviderCall).
THEOREM CallTypes == CallSpec => []CallTypeOK
<1>1. CallInit => CallInv BY CallBeginsInv
<1>2. CallInv /\ [CallNext]_callVars => CallInv' BY CallContinues
<1>3. CallInv => CallTypeOK BY InvTypesCall
<1> QED BY <1>1, <1>2, <1>3, PTL DEF CallSpec

\* However often a request is repeated, changed to another provider or cancelled: what
\* arrived is delivered and paid once, and a member of the pool is reported on once
\* (executeProviderImageGenerate and what it calls).
THEOREM CallsSettle == CallSpec => []CallsAreSettled
<1>1. CallInit => CallInv BY CallBeginsInv
<1>2. CallInv /\ [CallNext]_callVars => CallInv' BY CallContinues
<1>3. CallInv => CallsAreSettled BY InvSettlesCall
<1> QED BY <1>1, <1>2, <1>3, PTL DEF CallSpec

-----------------------------------------------------------------------------
(***************************************************************************)
(* WebConversation.  What a call has heard is finished and of its own      *)
(* turn, and stays so: a finished message never changes.                   *)
(***************************************************************************)

WebCall ==
  [pc: WebPC, kind: {"generate", "edit", "inpaint"}, route: Route,
   lastRoute: Route \cup {""}, files: 0 .. MaxFiles,
   stage: {"announce", "put", "confirm"}, heard: SUBSET Message,
   async: BOOLEAN, found: Seq(PictureOf)]

MessageRow == [state: MessageState, shown: 0 .. MaxShown]

\* A finished answer of the turn of c on a route.
OurAnswer(m, c, r) ==
  /\ m \in Message /\ m.call = c /\ m.route = r /\ m.place > 0
  /\ message[m].state = "finished"

OurPictures(found, c, r) ==
  /\ \A i \in DOMAIN found :
       /\ OurAnswer(found[i].message, c, r)
       /\ found[i].index \in 1 .. message[found[i].message].shown
  /\ \A i, j \in DOMAIN found : i < j =>
       \/ found[i].message.place < found[j].message.place
       \/ found[i].message = found[j].message /\ found[i].index < found[j].index

WebFits(c) ==
  LET w == web[c]
  IN  /\ w.pc \in {"idle", "upload", "tokens", "post"} => w.heard = {} /\ w.found = <<>>
      /\ w.pc = "upload" => w.files > 0
      /\ w.pc = "stream" =>
           /\ \A m \in w.heard : OurAnswer(m, c, w.route)
           /\ \A i \in DOMAIN w.found : w.found[i].message \in w.heard
      /\ w.pc \in {"stream", "done"} => OurPictures(w.found, c, w.route)
      /\ w.pc = "done" =>
           w.found # <<>> /\ (w.kind = "generate" => w.lastRoute = w.route)

WebInv ==
  /\ web \in [Calls -> WebCall]
  /\ message \in [Message -> MessageRow]
  /\ \A c \in Calls : WebFits(c)

MessagesGrow ==
  \A m \in Message : m.place > 0 /\ message[m].state = "finished" => message'[m] = message[m]

LEMMA OursStay ==
  ASSUME MessagesGrow, NEW c, NEW r
  PROVE  /\ \A m : OurAnswer(m, c, r) => OurAnswer(m, c, r)'
         /\ \A found : OurPictures(found, c, r) => OurPictures(found, c, r)'
BY DEF MessagesGrow, OurAnswer, OurPictures

LEMMA FitsStay ==
  ASSUME MessagesGrow, NEW c \in Calls, WebFits(c), web'[c] = web[c]
  PROVE  WebFits(c)'
BY OursStay DEF WebFits

\* A step of a call: what it owes.
LEMMA WebGoes ==
  ASSUME WebInv, NEW c \in Calls, NEW v \in WebCall, web' = [web EXCEPT ![c] = v],
         message' \in [Message -> MessageRow], MessagesGrow, WebFits(c)'
  PROVE  WebInv'
<1>1. web' \in [Calls -> WebCall] BY DEF WebInv
<1>2. ASSUME NEW d \in Calls PROVE WebFits(d)'
  <2>1. CASE d = c BY <2>1
  <2>2. CASE d # c
    <3>1. web'[d] = web[d] BY <2>2 DEF WebInv
    <3> QED BY <3>1, FitsStay DEF WebInv
  <2> QED BY <2>1, <2>2
<1> QED BY <1>1, <1>2 DEF WebInv

LEMMA MessagesKeep ==
  ASSUME WebInv, UNCHANGED message
  PROVE  MessagesGrow /\ message' \in [Message -> MessageRow]
BY DEF MessagesGrow, WebInv

\* The pictures of a message.
LEMMA ExtractsFit ==
  ASSUME WebInv, NEW m \in Message, NEW s \in Extracts(m)
  PROVE  /\ s \in Seq(PictureOf)
         /\ \A i \in DOMAIN s : /\ s[i].message = m /\ m.place > 0
                                /\ message[m].state = "finished"
                                /\ s[i].index \in 1 .. message[m].shown
         /\ \A i, j \in DOMAIN s : i < j => s[i].index < s[j].index
<1>1. m # Origin
  <2>1. DOMAIN m = {"call", "route", "place"} BY DEF Message
  <2>2. DOMAIN Origin = {"place"} BY DEF Origin
  <2> QED BY <2>1, <2>2
<1>2. message[m] \in MessageRow /\ MaxShown \in Nat
  BY WebConversationAssumption DEF WebInv
<1>3. /\ s \in SeqOf(PicturesIn(m), MaxShown)
      /\ \A i, j \in DOMAIN s : i < j => s[i].index < s[j].index
  BY DEF Extracts
<1>4. PICK n \in 0 .. MaxShown : s \in [1..n -> PicturesIn(m)] BY <1>3 DEF SeqOf
<1>5. ASSUME NEW p \in PicturesIn(m)
      PROVE  /\ p.message = m /\ m.place > 0 /\ message[m].state = "finished"
             /\ p.index \in 1 .. message[m].shown /\ p \in PictureOf
  <2>1. /\ m.place # 0 /\ message[m].state = "finished"
        /\ p \in {[message |-> m, index |-> i] : i \in 1 .. message[m].shown}
    BY <1>1, <1>5 DEF PicturesIn
  <2>2. PICK i \in 1 .. message[m].shown : p = [message |-> m, index |-> i] BY <2>1
  <2>3. m.place \in 0 .. MaxAnswers /\ MaxAnswers \in Nat
    BY WebConversationAssumption DEF Message
  <2>4. m.place > 0 BY <2>1, <2>3
  <2>5. message[m].shown \in 0 .. MaxShown BY <1>2 DEF MessageRow
  <2>6. i \in 1 .. MaxShown BY <1>2, <2>5
  <2> QED BY <2>1, <2>2, <2>4, <2>6 DEF PictureOf
<1>6. n \in Nat BY <1>2
<1>7. s \in Seq(PictureOf) BY <1>4, <1>5, <1>6
<1>8. DOMAIN s = 1..n /\ \A i \in 1..n : s[i] \in PicturesIn(m) BY <1>4
<1> QED BY <1>3, <1>5, <1>7, <1>8

\* A call that is not heard yet, waits, or has failed owes nothing more.
LEMMA QuietGoes ==
  ASSUME WebInv, NEW c \in Calls, NEW v \in WebCall, web' = [web EXCEPT ![c] = v],
         message' \in [Message -> MessageRow], MessagesGrow,
         \/ v.pc \in {"failed", "poll"}
         \/ /\ v.heard = {} /\ v.found = <<>> /\ v.pc # "done"
            /\ v.pc = "upload" => v.files > 0
  PROVE  WebInv'
<1>1. web'[c] = v BY DEF WebInv
<1>2. WebFits(c)'
  BY <1>1 DEF WebFits, OurPictures
<1> QED BY <1>2, WebGoes

LEMMA CallFits ==
  ASSUME WebInv, NEW c \in Calls
  PROVE  /\ web[c] \in WebCall /\ WebFits(c)
         /\ MaxFiles \in Nat \ {0} /\ MaxAnswers \in Nat \ {0} /\ MaxShown \in Nat \ {0}
BY WebConversationAssumption DEF WebInv

\* Calls begin, upload their files and get their tokens.
LEMMA Prepares ==
  ASSUME WebInv, NEW c \in Calls,
         \/ BeginGenerate(c) \/ BeginEdit(c) \/ BeginInpaint(c) \/ UploadPicture(c)
         \/ ConfirmUpload(c) \/ GetTokens(c) \/ Unprepared(c)
  PROVE  WebInv'
<1>0. MessagesGrow /\ message' \in [Message -> MessageRow]
  BY MessagesKeep
     DEF BeginGenerate, BeginEdit, BeginInpaint, BeginUpload, UploadPicture, ConfirmUpload,
         GetTokens, Unprepared
<1>1. web[c] \in WebCall /\ WebFits(c) BY CallFits
<1>2. MaxFiles \in Nat /\ MaxFiles >= 1 BY WebConversationAssumption
<1>3. web[c].pc \in {"idle", "upload", "tokens", "post"} =>
        web[c].heard = {} /\ web[c].found = <<>>
  BY <1>1 DEF WebFits
<1>4. ASSUME NEW pc \in {"tokens", "post"}, Goes(c, pc),
             web[c].pc \in {"idle", "upload", "tokens", "post"}
      PROVE  WebInv'
  <2> DEFINE v == [web[c] EXCEPT !.pc = pc]
  <2>1. v \in WebCall /\ v.heard = {} /\ v.found = <<>> /\ v.pc # "done" /\ v.pc # "upload"
    BY <1>1, <1>3, <1>4 DEF WebCall, WebPC
  <2>2. web' = [web EXCEPT ![c] = v] BY <1>4 DEF Goes
  <2> HIDE DEF v
  <2> QED BY <1>0, <2>1, <2>2, QuietGoes
<1>5. CASE BeginGenerate(c) BY <1>4, <1>5 DEF BeginGenerate
<1>6. CASE BeginEdit(c) \/ BeginInpaint(c)
  <2>1. PICK kind \in {"edit", "inpaint"}, files \in 0 .. MaxFiles : BeginUpload(c, kind, files)
    <3>1. 0 .. 1 \subseteq 0 .. MaxFiles BY <1>2
    <3> QED BY <1>6, <3>1 DEF BeginEdit, BeginInpaint
  <2> DEFINE v == [web[c] EXCEPT !.kind = kind, !.files = files, !.route = "conversation",
                                 !.pc = IF files = 0 THEN "failed" ELSE "upload"]
  <2>2. v \in WebCall BY <1>1, <2>1 DEF WebCall, WebPC, Route
  <2>5. v.pc = (IF files = 0 THEN "failed" ELSE "upload") /\ v.files = files
        /\ v.heard = web[c].heard /\ v.found = web[c].found
    BY <1>1 DEF WebCall
  <2>6. web[c].pc = "idle" BY <2>1 DEF BeginUpload
  <2>7. files # 0 => files > 0 BY <1>2, <2>1
  <2>4. v.heard = {} /\ v.found = <<>> /\ v.pc # "done" /\ (v.pc = "upload" => v.files > 0)
    <3> HIDE DEF v
    <3> QED BY <1>3, <2>5, <2>6, <2>7
  <2>3. web' = [web EXCEPT ![c] = v] BY <2>1 DEF BeginUpload
  <2> HIDE DEF v
  <2> QED BY <1>0, <2>2, <2>3, <2>4, QuietGoes
<1>7. CASE UploadPicture(c)
  <2> DEFINE v == [web[c] EXCEPT !.stage = IF @ = "announce" THEN "put" ELSE "confirm"]
  <2>1. v \in WebCall /\ v.heard = {} /\ v.found = <<>> /\ v.pc # "done" /\ v.files > 0
    BY <1>1, <1>3, <1>7 DEF WebCall, UploadPicture, WebFits
  <2>2. web' = [web EXCEPT ![c] = v] BY <1>7 DEF UploadPicture
  <2> HIDE DEF v
  <2> QED BY <1>0, <2>1, <2>2, QuietGoes
<1>8. CASE ConfirmUpload(c)
  <2>0. web[c].pc = "upload" /\ web[c].files > 0 /\ web[c].files \in 0 .. MaxFiles
    BY <1>1, <1>8 DEF ConfirmUpload, WebFits, WebCall
  <2> DEFINE v == [web[c] EXCEPT !.stage = "announce", !.files = @ - 1,
                                 !.pc = IF web[c].files = 1 THEN "tokens" ELSE "upload"]
  <2>1. web[c].files - 1 \in 0 .. MaxFiles /\ (web[c].files # 1 => web[c].files - 1 > 0)
    BY <1>2, <2>0
  <2>2. v \in WebCall
    BY <1>1, <2>1 DEF WebCall, WebPC
  <2>3. v.heard = {} /\ v.found = <<>> /\ v.pc # "done" /\ (v.pc = "upload" => v.files > 0)
    BY <1>1, <1>3, <2>0, <2>1 DEF WebCall
  <2>4. web' = [web EXCEPT ![c] = v] BY <1>8 DEF ConfirmUpload
  <2> HIDE DEF v
  <2> QED BY <1>0, <2>2, <2>3, <2>4, QuietGoes
<1>9. CASE GetTokens(c) BY <1>4, <1>9 DEF GetTokens
<1>10. CASE Unprepared(c)
  <2> DEFINE v == [web[c] EXCEPT !.pc = "failed"]
  <2>1. v \in WebCall /\ v.pc = "failed" BY <1>1 DEF WebCall, WebPC
  <2>2. web' = [web EXCEPT ![c] = v] BY <1>10 DEF Unprepared, Goes
  <2> HIDE DEF v
  <2> QED BY <1>0, <2>1, <2>2, QuietGoes
<1> QED BY <1>5, <1>6, <1>7, <1>8, <1>9, <1>10

\* A message is posted, or the post fails.
LEMMA Posts ==
  ASSUME WebInv, NEW c \in Calls, Post(c) \/ PostFails(c)
  PROVE  WebInv'
<1>1. web[c] \in WebCall /\ WebFits(c) /\ MaxAnswers \in Nat BY CallFits
<1>2. web[c].pc = "post" /\ web[c].heard = {} /\ web[c].found = <<>>
  BY <1>1 DEF WebFits, Post, PostFails
<1>3. MessagesGrow /\ message' \in [Message -> MessageRow]
  <2>1. CASE UNCHANGED message BY <2>1, MessagesKeep
  <2>2. CASE Arrives(c)
    <3> DEFINE p == Posted(c, web[c].route)
    <3>1. p \in Message /\ p.place = 0
      <4>1. web[c].route \in Route BY <1>1 DEF WebCall
      <4>2. 0 \in 0 .. MaxAnswers BY <1>1
      <4> QED BY <4>1, <4>2 DEF Posted, Message
    <3>2. message' = [message EXCEPT ![p].state = "finished"] BY <2>2 DEF Arrives
    <3>3. message \in [Message -> MessageRow] BY DEF WebInv
    <3> HIDE DEF p
    <3> QED BY <3>1, <3>2, <3>3 DEF MessagesGrow, MessageRow, MessageState
  <2> QED BY <2>1, <2>2 DEF Post, PostFails
<1>4. ASSUME NEW pc \in {"stream", "failed"}, Goes(c, pc) PROVE WebInv'
  <2> DEFINE v == [web[c] EXCEPT !.pc = pc]
  <2>1. v \in WebCall /\ v.heard = {} /\ v.found = <<>> /\ v.pc # "done" /\ v.pc # "upload"
    BY <1>1, <1>2 DEF WebCall, WebPC
  <2>2. web' = [web EXCEPT ![c] = v] BY <1>4 DEF Goes
  <2> HIDE DEF v
  <2> QED BY <1>3, <2>1, <2>2, QuietGoes
<1>5. CASE web' = [web EXCEPT ![c].route = "conversation", ![c].pc = "tokens"]
  <2> DEFINE v == [web[c] EXCEPT !.route = "conversation", !.pc = "tokens"]
  <2>1. v \in WebCall /\ v.heard = {} /\ v.found = <<>> /\ v.pc # "done" /\ v.pc # "upload"
    BY <1>1, <1>2 DEF WebCall, WebPC, Route
  <2>2. web' = [web EXCEPT ![c] = v] BY <1>5
  <2> HIDE DEF v
  <2> QED BY <1>3, <2>1, <2>2, QuietGoes
<1>6. Goes(c, "stream") \/ Goes(c, "failed")
      \/ web' = [web EXCEPT ![c].route = "conversation", ![c].pc = "tokens"]
  BY DEF Post, PostFails
<1> QED BY <1>4, <1>5, <1>6

\* The upstream writes its answers.
LEMMA UpstreamWrites ==
  ASSUME WebInv, NEW m \in Message, Write(m) \/ Finish(m)
  PROVE  WebInv'
<1>1. message[m].state # "finished" /\ web' = web BY DEF Write, Finish
<1>2. PICK v : message' = [message EXCEPT ![m] = v] /\ v \in MessageRow
  <2>1. \A shown \in 0 .. 1 : shown \in 0 .. MaxShown BY WebConversationAssumption
  <2>2. CASE Write(m)
    <3>1. PICK shown \in 0 .. 1 : message' = [message EXCEPT ![m] = [state |-> "writing", shown |-> shown]]
      BY <2>2 DEF Write
    <3>2. [state |-> "writing", shown |-> shown] \in MessageRow
      BY <2>1 DEF MessageRow, MessageState
    <3> QED BY <3>1, <3>2
  <2>3. CASE Finish(m)
    <3>1. PICK shown \in 0 .. MaxShown : message' = [message EXCEPT ![m] = [state |-> "finished", shown |-> shown]]
      BY <2>3 DEF Finish
    <3>2. [state |-> "finished", shown |-> shown] \in MessageRow BY DEF MessageRow, MessageState
    <3> QED BY <3>1, <3>2
  <2> QED BY <2>2, <2>3
<1>3. MessagesGrow /\ message' \in [Message -> MessageRow]
  BY <1>1, <1>2 DEF WebInv, MessagesGrow
<1>4. ASSUME NEW c \in Calls PROVE WebFits(c)' BY <1>1, <1>3, FitsStay DEF WebInv
<1> QED BY <1>1, <1>3, <1>4 DEF WebInv

\* Pictures of a later message come after those of the earlier ones.
LEMMA OursExtend ==
  ASSUME WebInv, NEW c, NEW r, NEW found \in Seq(PictureOf), OurPictures(found, c, r),
         NEW m \in Message, m.call = c, m.route = r,
         \A i \in DOMAIN found : found[i].message.place < m.place,
         NEW s \in Extracts(m)
  PROVE  /\ found \o s \in Seq(PictureOf)
         /\ OurPictures(found \o s, c, r)
         /\ \A i \in DOMAIN (found \o s) :
              (found \o s)[i].message \in {found[j].message : j \in DOMAIN found} \cup {m}
<1>1. /\ s \in Seq(PictureOf)
      /\ \A i \in DOMAIN s : /\ s[i].message = m /\ m.place > 0
                             /\ message[m].state = "finished"
                             /\ s[i].index \in 1 .. message[m].shown
      /\ \A i, j \in DOMAIN s : i < j => s[i].index < s[j].index
  BY ExtractsFit
<1> DEFINE t == found \o s
<1>2. /\ t \in Seq(PictureOf) /\ Len(found) \in Nat /\ Len(s) \in Nat
      /\ DOMAIN found = 1..Len(found) /\ DOMAIN s = 1..Len(s)
      /\ DOMAIN t = 1..(Len(found) + Len(s))
      /\ \A i \in DOMAIN t : t[i] = IF i <= Len(found) THEN found[i] ELSE s[i - Len(found)]
  BY <1>1
<1> HIDE DEF t
<1>3. ASSUME NEW i \in DOMAIN t
      PROVE  \/ i \in DOMAIN found /\ i <= Len(found) /\ t[i] = found[i]
             \/ i > Len(found) /\ i - Len(found) \in DOMAIN s /\ t[i] = s[i - Len(found)]
  BY <1>2
<1>4. ASSUME NEW i \in DOMAIN t
      PROVE  /\ OurAnswer(t[i].message, c, r)
             /\ t[i].index \in 1 .. message[t[i].message].shown
  <2>1. CASE i \in DOMAIN found /\ t[i] = found[i] BY <2>1 DEF OurPictures
  <2>2. CASE i - Len(found) \in DOMAIN s /\ t[i] = s[i - Len(found)]
    BY <1>1, <2>2 DEF OurAnswer
  <2> QED BY <1>3, <2>1, <2>2
<1>5. ASSUME NEW i \in DOMAIN t, NEW j \in DOMAIN t, i < j
      PROVE  \/ t[i].message.place < t[j].message.place
             \/ t[i].message = t[j].message /\ t[i].index < t[j].index
  <2>1. CASE j \in DOMAIN found /\ j <= Len(found) /\ t[j] = found[j]
    <3>1. i \in DOMAIN found /\ t[i] = found[i] BY <1>2, <1>3, <1>5, <2>1
    <3> QED BY <1>5, <2>1, <3>1 DEF OurPictures
  <2>2. CASE j > Len(found) /\ j - Len(found) \in DOMAIN s /\ t[j] = s[j - Len(found)]
    <3>1. CASE i \in DOMAIN found /\ t[i] = found[i] BY <1>1, <2>2, <3>1
    <3>2. CASE i > Len(found) /\ i - Len(found) \in DOMAIN s /\ t[i] = s[i - Len(found)]
      <4>1. i - Len(found) < j - Len(found) BY <1>2, <1>5
      <4> QED BY <1>1, <2>2, <3>2, <4>1
    <3> QED BY <1>3, <3>1, <3>2
  <2> QED BY <1>3, <2>1, <2>2
<1>6. OurPictures(t, c, r) BY <1>4, <1>5 DEF OurPictures
<1>7. ASSUME NEW i \in DOMAIN t
      PROVE  t[i].message \in {found[j].message : j \in DOMAIN found} \cup {m}
  BY <1>1, <1>3
<1> QED BY <1>2, <1>6, <1>7 DEF t

\* An event of the stream shows an answer.
LEMMA Hears ==
  ASSUME WebInv, NEW c \in Calls, Hear(c)
  PROVE  WebInv'
<1>1. web[c] \in WebCall /\ WebFits(c) /\ MaxAnswers \in Nat BY CallFits
<1>2. web[c].pc = "stream" /\ MessagesGrow /\ message' \in [Message -> MessageRow] /\ message' = message
  BY MessagesKeep DEF Hear
<1> DEFINE w == web[c]
<1>3. PICK m \in Message :
        /\ m.call = c /\ m.route = w.route /\ m.place > 0
        /\ w.heard = {n \in Message : n.call = c /\ n.route = m.route /\ n.place \in 1 .. m.place - 1}
        /\ \E pictures \in Extracts(m) :
             web' = [web EXCEPT ![c].found = @ \o pictures,
                                ![c].heard = IF message[m].state = "finished" THEN @ \cup {m} ELSE @]
  BY DEF Hear
<1>17. PICK pictures \in Extracts(m) :
         web' = [web EXCEPT ![c].found = @ \o pictures,
                            ![c].heard = IF message[m].state = "finished" THEN @ \cup {m} ELSE @]
  BY <1>3
<1>4. /\ \A n \in w.heard : OurAnswer(n, c, w.route)
      /\ \A i \in DOMAIN w.found : w.found[i].message \in w.heard
      /\ OurPictures(w.found, c, w.route)
      /\ w.found \in Seq(PictureOf)
  BY <1>1, <1>2 DEF WebFits, WebCall
<1>5. \A n \in w.heard : n.place < m.place
  <2>1. m.place \in 0 .. MaxAnswers BY DEF Message
  <2>2. ASSUME NEW n \in w.heard PROVE n.place < m.place
    <3>1. n.place \in 1 .. m.place - 1 BY <1>3
    <3> QED BY <1>1, <2>1, <3>1
  <2> QED BY <2>2
<1>6. \A i \in DOMAIN w.found : w.found[i].message.place < m.place BY <1>4, <1>5
<1> DEFINE found == w.found \o pictures
           heard == IF message[m].state = "finished" THEN w.heard \cup {m} ELSE w.heard
<1>7. /\ found \in Seq(PictureOf)
      /\ OurPictures(found, c, w.route)
      /\ \A i \in DOMAIN found :
           found[i].message \in {w.found[j].message : j \in DOMAIN w.found} \cup {m}
  BY <1>3, <1>4, <1>6, OursExtend
<1>8. \A i \in DOMAIN found : found[i].message \in heard
  <2>1. CASE message[m].state = "finished" BY <1>4, <1>7, <2>1
  <2>2. CASE message[m].state # "finished"
    <3>1. DOMAIN pictures = {} /\ pictures \in Seq(PictureOf) BY <2>2, ExtractsFit
    <3>2. pictures = <<>> BY <3>1
    <3>3. found = w.found BY <1>4, <3>2
    <3> HIDE DEF w, found
    <3> QED BY <1>4, <2>2, <3>3
  <2> QED BY <2>1, <2>2
<1>9. heard \subseteq Message /\ \A n \in heard : OurAnswer(n, c, w.route)
  BY <1>1, <1>3, <1>4 DEF OurAnswer, WebCall
<1> DEFINE v == [web[c] EXCEPT !.found = found, !.heard = heard]
<1>10. web' = [web EXCEPT ![c] = v] BY <1>17
<1> HIDE DEF found, heard
<1>11. v \in WebCall BY <1>1, <1>7, <1>9 DEF WebCall
<1>12. v.pc = "stream" /\ v.found = found /\ v.heard = heard /\ v.route = w.route
  BY <1>1, <1>2 DEF WebCall
<1> HIDE DEF v, w
<1>13. web'[c] = v BY <1>10 DEF WebInv
<1>14. PICK f, r, h : f = found /\ r = w.route /\ h = heard OBVIOUS
<1>15. /\ \A n \in h : OurAnswer(n, c, r)'
       /\ OurPictures(f, c, r)'
  BY <1>2, <1>7, <1>9, <1>14, OursStay
<1>18. /\ web'[c].pc = "stream" /\ web'[c].found = f /\ web'[c].heard = h /\ web'[c].route = r
       /\ \A i \in DOMAIN f : f[i].message \in h
  BY <1>8, <1>12, <1>13, <1>14
<1>16. WebFits(c)' BY <1>15, <1>18 DEF WebFits
<1> QED BY <1>2, <1>10, <1>11, <1>16, WebGoes

\* A call returns pictures of its own turn.
LEMMA WebReturns ==
  ASSUME WebInv, NEW c \in Calls, NEW f \in Seq(PictureOf), Returns(c, f), f # <<>>,
         OurPictures(f, c, web[c].route), message' = message
  PROVE  WebInv'
<1>1. web[c] \in WebCall BY CallFits
<1>2. MessagesGrow /\ message' \in [Message -> MessageRow] BY MessagesKeep
<1> DEFINE v == [web[c] EXCEPT !.pc = "done", !.found = f,
                               !.lastRoute = IF web[c].kind = "generate" THEN web[c].route ELSE @]
<1>3. web' = [web EXCEPT ![c] = v] BY DEF Returns
<1>4. v \in WebCall BY <1>1 DEF WebCall, WebPC
<1>5. /\ v.pc = "done" /\ v.found = f /\ v.route = web[c].route
      /\ v.kind = "generate" => v.lastRoute = v.route
  BY <1>1 DEF WebCall
<1> HIDE DEF v
<1>6. web'[c] = v BY <1>3 DEF WebInv
<1>7. PICK r : r = web[c].route OBVIOUS
<1>8. OurPictures(f, c, r)' BY <1>2, <1>7, OursStay
<1>9. WebFits(c)' BY <1>5, <1>6, <1>7, <1>8 DEF WebFits
<1> QED BY <1>2, <1>3, <1>4, <1>9, WebGoes

\* The stream ends, or breaks.
LEMMA StreamEnds ==
  ASSUME WebInv, NEW c \in Calls,
         HearAsync(c) \/ EndStream(c) \/ StreamBreaks(c) \/ PollEnds(c)
  PROVE  WebInv'
<1>1. web[c] \in WebCall /\ WebFits(c) BY CallFits
<1>2. MessagesGrow /\ message' \in [Message -> MessageRow] /\ message' = message
  BY MessagesKeep DEF HearAsync, EndStream, StreamBreaks, PollEnds
<1>3. ASSUME NEW pc \in {"failed", "poll"}, Goes(c, pc) PROVE WebInv'
  <2> DEFINE v == [web[c] EXCEPT !.pc = pc]
  <2>1. v \in WebCall /\ v.pc \in {"failed", "poll"} BY <1>1 DEF WebCall, WebPC
  <2>2. web' = [web EXCEPT ![c] = v] BY <1>3 DEF Goes
  <2> HIDE DEF v
  <2> QED BY <1>2, <2>1, <2>2, QuietGoes
<1>4. CASE HearAsync(c)
  <2> DEFINE v == [web[c] EXCEPT !.async = TRUE]
  <2>1. v \in WebCall BY <1>1 DEF WebCall
  <2>2. web' = [web EXCEPT ![c] = v] /\ web[c].pc = "stream" BY <1>4 DEF HearAsync
  <2>3. v.pc = "stream" /\ v.found = web[c].found /\ v.heard = web[c].heard /\ v.route = web[c].route
    BY <1>1, <2>2 DEF WebCall
  <2> HIDE DEF v
  <2>4. web'[c] = v BY <2>2 DEF WebInv
  <2>5. PICK f, r, h : f = v.found /\ r = v.route /\ h = v.heard OBVIOUS
  <2>6. /\ \A n \in h : OurAnswer(n, c, r)'
        /\ OurPictures(f, c, r)'
        /\ \A i \in DOMAIN f : f[i].message \in h
    BY <1>1, <1>2, <2>2, <2>3, <2>5, OursStay DEF WebFits
  <2>7. web'[c].pc = "stream" /\ web'[c].found = f /\ web'[c].heard = h /\ web'[c].route = r
    BY <2>3, <2>4, <2>5
  <2>8. WebFits(c)' BY <2>6, <2>7 DEF WebFits
  <2> QED BY <1>2, <2>1, <2>2, <2>8, WebGoes
<1>5. CASE EndStream(c) /\ web[c].found # <<>>
  <2>1. web[c].pc = "stream" /\ Returns(c, web[c].found) BY <1>5 DEF EndStream
  <2> QED BY <1>1, <1>2, <1>5, <2>1, WebReturns DEF WebFits, WebCall
<1>6. CASE EndStream(c) /\ web[c].found = <<>>
  BY <1>3, <1>6 DEF EndStream
<1>7. CASE StreamBreaks(c) \/ PollEnds(c) BY <1>3, <1>7 DEF StreamBreaks, PollEnds
<1> QED BY <1>4, <1>5, <1>6, <1>7

\* What a visit of the conversation finds.
LEMMA FetchedFits ==
  ASSUME WebInv, NEW c \in Calls, NEW pictures \in Fetched(c)
  PROVE  pictures \in Seq(PictureOf) /\ OurPictures(pictures, c, web[c].route)
<1> DEFINE r == web[c].route
           N == MaxAnswers + 1
<1>1. r \in Route /\ MaxAnswers \in Nat \ {0} BY CallFits DEF WebCall
<1>2. N \in Nat \ {0} BY <1>1
<1>3. /\ DOMAIN Chain(c) = 1..N
      /\ \A i \in 1..N : /\ Chain(c)[i] \in Message /\ Chain(c)[i].call = c
                         /\ Chain(c)[i].route = r /\ Chain(c)[i].place = i - 1
  <2>1. Chain(c) = [i \in 1..N |-> [Posted(c, r) EXCEPT !.place = i - 1]] BY DEF Chain
  <2>2. ASSUME NEW i \in 1..N
        PROVE  [Posted(c, r) EXCEPT !.place = i - 1] = [call |-> c, route |-> r, place |-> i - 1]
    BY DEF Posted
  <2>3. \A i \in 1..N : i - 1 \in 0 .. MaxAnswers BY <1>1
  <2>4. ASSUME NEW i \in 1..N PROVE [call |-> c, route |-> r, place |-> i - 1] \in Message
    BY <1>1, <2>3 DEF Message
  <2>5. \A i \in 1..N : Chain(c)[i] = [call |-> c, route |-> r, place |-> i - 1] BY <2>1, <2>2
  <2> HIDE DEF N, r
  <2>6. DOMAIN Chain(c) = 1..N BY <2>1
  <2>7. ASSUME NEW i \in 1..N
        PROVE  /\ Chain(c)[i] \in Message /\ Chain(c)[i].call = c
               /\ Chain(c)[i].route = r /\ Chain(c)[i].place = i - 1
    <3>1. Chain(c)[i] = [call |-> c, route |-> r, place |-> i - 1] BY <2>5
    <3> HIDE DEF r
    <3> QED BY <2>4, <3>1
  <2> QED BY <2>6, <2>7
<1> HIDE DEF N, r
<1>4. PICK f : /\ DOMAIN f = 1..N /\ f = [i \in 1..N |-> f[i]]
               /\ \A i \in 1..N : f[i] \in Extracts(Chain(c)[i])
               /\ pictures = FlattenSeq(f)
  <2>1. Fetched(c) = {FlattenSeq(f) : f \in {g \in [1..N -> UNION {Extracts(Chain(c)[i]) : i \in 1..N}] :
                          \A i \in DOMAIN g : g[i] \in Extracts(Chain(c)[i])}}
    BY <1>3 DEF Fetched, Visited
  <2>2. PICK f \in [1..N -> UNION {Extracts(Chain(c)[i]) : i \in 1..N}] :
          /\ \A i \in DOMAIN f : f[i] \in Extracts(Chain(c)[i])
          /\ pictures = FlattenSeq(f)
    BY <2>1
  <2>3. DOMAIN f = 1..N /\ f = [i \in 1..N |-> f[i]] BY <2>2
  <2> QED BY <2>2, <2>3
<1>5. f \in Seq(Seq(PictureOf)) /\ Len(f) = N /\ f # <<>>
  <2>1. ASSUME NEW i \in 1..N PROVE f[i] \in Seq(PictureOf) BY <1>3, <1>4, ExtractsFit
  <2>2. f \in [1..N -> Seq(PictureOf)] BY <1>4, <2>1
  <2>3. f \in Seq(Seq(PictureOf)) BY <1>2, <2>2
  <2>4. Len(f) = N BY <1>2, <1>4, <2>3
  <2> QED BY <1>2, <2>3, <2>4
<1>6. PICK g : Flattens(g, f, N, PictureOf) /\ pictures = g[N]
  BY <1>4, <1>5, FlattenFunction
<1> DEFINE Good(i) == /\ OurPictures(g[i], c, r)
                      /\ \A k \in DOMAIN g[i] : g[i][k].message.place <= i - 1
           T == {i \in 1..N : ~Good(i)}
<1>7. T = {}
  <2> SUFFICES ASSUME T # {} PROVE FALSE OBVIOUS
  <2>1. T \in SUBSET Nat OBVIOUS
  <2>2. PICK i \in T : \A j \in T : i <= j BY <2>1, Least
  <2>3. i \in 1..N /\ ~Good(i) BY <2>2
  <2>4. i - 1 \in 1..N => Good(i - 1)
    <3>1. i - 1 \in 1..N => i - 1 \notin T BY <1>2, <2>2, <2>3
    <3> QED BY <3>1
  <2> HIDE DEF T
  <2> DEFINE m == Chain(c)[i]
  <2>5. m \in Message /\ m.call = c /\ m.route = r /\ m.place = i - 1 BY <1>3, <2>3
  <2>6. f[i] \in Extracts(m) BY <1>4, <2>3
  <2>7. PICK found \in Seq(PictureOf) :
          /\ OurPictures(found, c, r)
          /\ \A k \in DOMAIN found : found[k].message.place < i - 1
          /\ g[i] = found \o f[i]
    <3>1. f[i] \in Seq(PictureOf) BY <2>5, <2>6, ExtractsFit
    <3>2. CASE i = 1
      <4>1. g[i] = f[i] BY <1>6, <2>3, <3>2 DEF Flattens
      <4>2. <<>> \o f[i] = f[i] BY <3>1, ConcatEmptySeq
      <4>3. <<>> \in Seq(PictureOf) /\ DOMAIN <<>> = {} OBVIOUS
      <4>4. OurPictures(<<>>, c, r) BY <4>3 DEF OurPictures
      <4> QED BY <4>1, <4>2, <4>3, <4>4
    <3>3. CASE i # 1
      <4>1. i - 1 \in 1..N BY <1>2, <2>3, <3>3
      <4>2. g[i] = g[i - 1] \o f[i] /\ g[i - 1] \in Seq(PictureOf) BY <1>6, <2>3, <3>3, <4>1 DEF Flattens
      <4>5. Good(i - 1) BY <2>4, <4>1
      <4>6. (i - 1) - 1 = i - 2 BY <2>3
      <4>3. \A k \in DOMAIN g[i - 1] : g[i - 1][k].message.place <= i - 2 BY <4>5, <4>6
      <4>4. ASSUME NEW k \in DOMAIN g[i - 1] PROVE g[i - 1][k].message.place < i - 1
        <5>1. OurAnswer(g[i - 1][k].message, c, r) BY <2>4, <4>1 DEF OurPictures
        <5>2. g[i - 1][k].message.place \in 0 .. MaxAnswers BY <5>1 DEF OurAnswer, Message
        <5> QED BY <1>1, <2>3, <4>3, <5>2
      <4> QED BY <2>4, <4>1, <4>2, <4>4
    <3> QED BY <3>2, <3>3
  <2> HIDE DEF m
  <2>8. \A k \in DOMAIN found : found[k].message.place < m.place BY <2>5, <2>7
  <2>9. /\ OurPictures(g[i], c, r)
        /\ \A k \in DOMAIN g[i] : g[i][k].message \in {found[j].message : j \in DOMAIN found} \cup {m}
    BY <2>5, <2>6, <2>7, <2>8, OursExtend
  <2>10. ASSUME NEW k \in DOMAIN g[i] PROVE g[i][k].message.place <= i - 1
    <3>1. CASE g[i][k].message = m BY <1>2, <2>3, <2>5, <3>1
    <3>2. CASE g[i][k].message \in {found[j].message : j \in DOMAIN found}
      <4>1. PICK j \in DOMAIN found : g[i][k].message = found[j].message BY <3>2
      <4>2. OurAnswer(found[j].message, c, r) BY <2>7 DEF OurPictures
      <4>3. found[j].message.place \in 0 .. MaxAnswers BY <4>2 DEF OurAnswer, Message
      <4>4. found[j].message.place < i - 1 BY <2>7
      <4> QED BY <1>1, <2>3, <4>1, <4>3, <4>4
    <3> QED BY <2>9, <3>1, <3>2
  <2> QED BY <2>3, <2>9, <2>10
<1>8. Good(N) BY <1>2, <1>7
<1>9. g[N] \in Seq(PictureOf) BY <1>2, <1>6 DEF Flattens
<1> QED BY <1>6, <1>8, <1>9 DEF r

LEMMA Polls ==
  ASSUME WebInv, NEW c \in Calls, Poll(c)
  PROVE  WebInv'
<1>1. PICK f \in Fetched(c) \ {<<>>} : Returns(c, f) BY DEF Poll
<1>2. f \in Seq(PictureOf) /\ OurPictures(f, c, web[c].route) BY FetchedFits
<1>3. message' = message BY DEF Poll
<1> QED BY <1>1, <1>2, <1>3, WebReturns

LEMMA WebInvHolds == WebConversationSpec => []WebInv
<1>1. WebConversationInit => WebInv
  <2> SUFFICES ASSUME WebConversationInit PROVE WebInv OBVIOUS
  <2>0. MaxFiles \in Nat /\ MaxShown \in Nat BY WebConversationAssumption
  <2> DEFINE v == [pc |-> "idle", kind |-> "generate", route |-> "f-conversation",
                   lastRoute |-> "", files |-> 0, stage |-> "announce", heard |-> {},
                   async |-> FALSE, found |-> <<>>]
             row == [state |-> "absent", shown |-> 0]
  <2>1. v \in WebCall
    <3>1. 0 \in 0 .. MaxFiles /\ <<>> \in Seq(PictureOf) BY <2>0
    <3> QED BY <3>1 DEF WebCall, WebPC, Route
  <2>2. row \in MessageRow BY <2>0 DEF MessageRow, MessageState
  <2>3. web = [c \in Calls |-> v] /\ message = [m \in Message |-> row]
    BY DEF WebConversationInit
  <2>4. v.pc = "idle" /\ v.heard = {} /\ v.found = <<>> OBVIOUS
  <2> HIDE DEF v, row
  <2>5. web \in [Calls -> WebCall] /\ message \in [Message -> MessageRow] BY <2>1, <2>2, <2>3
  <2>6. ASSUME NEW c \in Calls PROVE WebFits(c)
    <3>1. web[c] = v BY <2>3
    <3> QED BY <2>4, <3>1 DEF WebFits
  <2> QED BY <2>5, <2>6 DEF WebInv
<1>2. WebInv /\ [WebConversationNext]_webVars => WebInv'
  <2> SUFFICES ASSUME WebInv, [WebConversationNext]_webVars PROVE WebInv' OBVIOUS
  <2>1. CASE UNCHANGED webVars
    <3>1. web' = web /\ message' = message BY <2>1 DEF webVars
    <3>2. MessagesGrow /\ message' \in [Message -> MessageRow] BY <3>1, MessagesKeep
    <3>3. ASSUME NEW c \in Calls PROVE WebFits(c)' BY <3>1, <3>2, FitsStay DEF WebInv
    <3> QED BY <3>1, <3>2, <3>3 DEF WebInv
  <2>2. ASSUME NEW c \in Calls,
               \/ BeginGenerate(c) \/ BeginEdit(c) \/ BeginInpaint(c) \/ UploadPicture(c) \/ ConfirmUpload(c)
               \/ GetTokens(c) \/ Unprepared(c)
        PROVE  WebInv'
    BY <2>2, Prepares
  <2>3. ASSUME NEW c \in Calls, Post(c) \/ PostFails(c) PROVE WebInv' BY <2>3, Posts
  <2>4. ASSUME NEW c \in Calls, Hear(c) PROVE WebInv' BY <2>4, Hears
  <2>5. ASSUME NEW c \in Calls, HearAsync(c) \/ EndStream(c) \/ StreamBreaks(c) \/ PollEnds(c) PROVE WebInv'
    BY <2>5, StreamEnds
  <2>6. ASSUME NEW c \in Calls, Poll(c) PROVE WebInv' BY <2>6, Polls
  <2>7. ASSUME NEW m \in Message, Write(m) \/ Finish(m) PROVE WebInv' BY <2>7, UpstreamWrites
  <2> QED BY <2>1, <2>2, <2>3, <2>4, <2>5, <2>6, <2>7 DEF WebConversationNext
<1> QED BY <1>1, <1>2, PTL DEF WebConversationSpec

\* The values of the web client's variables.
THEOREM WebTypes == WebConversationSpec => []WebConversationTypeOK
<1>1. WebInv => WebConversationTypeOK
  BY DEF WebInv, WebConversationTypeOK, WebCall, MessageRow
<1> QED BY <1>1, WebInvHolds, PTL

\* What a call of the web client returns was drawn for the message it posted last, is
\* finished, and is returned once, in the order it was drawn (doConversationRequest).
THEOREM AnswersStayOurs == WebConversationSpec => []AnswersAreOurs
<1>1. WebInv => AnswersAreOurs
  <2> SUFFICES ASSUME WebInv, NEW c \in Calls, web[c].pc = "done"
               PROVE  LET found == web[c].found
                      IN /\ found # <<>>
                         /\ web[c].kind = "generate" => web[c].lastRoute = web[c].route
                         /\ \A i \in DOMAIN found :
                              /\ found[i].message # Origin
                              /\ found[i].message.call = c /\ found[i].message.route = web[c].route
                              /\ found[i].message.place > 0
                              /\ message[found[i].message].state = "finished"
                              /\ found[i].index \in 1 .. message[found[i].message].shown
                         /\ \A i, j \in DOMAIN found : i < j =>
                              \/ found[i].message.place < found[j].message.place
                              \/ found[i].message = found[j].message /\ found[i].index < found[j].index
    BY DEF AnswersAreOurs
  <2>1. /\ web[c].found # <<>> /\ (web[c].kind = "generate" => web[c].lastRoute = web[c].route)
        /\ OurPictures(web[c].found, c, web[c].route)
    BY DEF WebInv, WebFits
  <2>2. \A m \in Message : m # Origin
    <3>1. \A m \in Message : DOMAIN m = {"call", "route", "place"} BY DEF Message
    <3>2. DOMAIN Origin = {"place"} BY DEF Origin
    <3> QED BY <3>1, <3>2
  <2> QED BY <2>1, <2>2 DEF OurPictures, OurAnswer
<1> QED BY <1>1, WebInvHolds, PTL
-----------------------------------------------------------------------------
(***************************************************************************)
(* CodexImages.  What the account's client holds while it reads is what    *)
(* the stream has brought; a CPA request logs once, at its end.            *)
(***************************************************************************)

CodexRequest ==
  [pc: CodexPC, client: {"cpa", "account"}, operation: {"generate", "edit"},
   strategy: CodexRoute \cup {"auto"}, inside: BOOLEAN, lastRoute: CodexRoute \cup {""},
   finals: Seq(Shown), partial: [Drawings -> 0 .. MaxDrafts],
   outcome: {"", "success", "failed"}]

LogEntry == [success: BOOLEAN, route: CodexRoute \cup {"", "auto"}]

\* The pictures x returns are those d has drawn.
ToldOf(x, d) ==
  /\ x.finals # <<>> /\ IsInjective(x.finals)
  /\ x.client = "cpa" => x.finals = Finals(d[x.lastRoute])
  /\ x.client = "account" =>
       \/ x.finals = Finals(d["codex_responses"])
       \/ /\ d["codex_responses"] = <<>>
          /\ \A i \in DOMAIN x.finals : x.finals[i].draft = x.partial[x.finals[i].picture]

CodexBefore(x, d, l) ==
  /\ x.finals = <<>> /\ x.outcome = "" /\ l = <<>> /\ d["codex_responses"] = <<>>
  /\ x.pc \in {"idle", "gate", "images_api"} => x.client = "cpa"
  /\ x.pc \in {"idle", "gate"} \/ x.client = "account" => ~x.inside

CodexReads(x, d, l) ==
  /\ x.outcome = "" /\ l = <<>>
  /\ x.client = "cpa" => x.lastRoute = "codex_responses" /\ x.finals = <<>>
  /\ x.client = "account" => ~x.inside /\ x.finals = Finals(d["codex_responses"])

CodexEnds(x, d, l) ==
  /\ x.outcome # ""
  /\ x.outcome = "success" => ToldOf(x, d)
  /\ x.pc = "log" => x.client = "cpa" /\ l = <<>>
  /\ x.pc = "over" =>
       /\ ~x.inside
       /\ Len(l) = IF x.client = "cpa" THEN 1 ELSE 0
       /\ \A i \in DOMAIN l : l[i].success = (x.outcome = "success")

CodexFits(x, d, l) ==
  /\ x.pc \in {"idle", "gate", "images_api", "codex_responses"} => CodexBefore(x, d, l)
  /\ x.pc = "stream" => CodexReads(x, d, l)
  /\ x.pc \in {"log", "over"} => CodexEnds(x, d, l)

CodexTyped(x, d, l) ==
  /\ x \in CodexRequest
  /\ d \in [CodexRoute -> Seq(Drawings)] /\ \A r \in CodexRoute : IsInjective(d[r])
  /\ l \in Seq(LogEntry)

CodexInv == CodexTyped(codex, drawn, logged) /\ CodexFits(codex, drawn, logged)

\* The pictures of a sequence without repetitions are returned once each.
LEMMA FinalsFit ==
  ASSUME NEW d \in Seq(Drawings)
  PROVE  /\ Finals(d) \in Seq(Shown) /\ DOMAIN Finals(d) = DOMAIN d
         /\ IsInjective(d) => IsInjective(Finals(d))
         /\ Finals(d) = <<>> <=> d = <<>>
         /\ \A p \in Drawings : Final(p) \in ToSet(Finals(d)) <=> p \in ToSet(d)
         /\ \A p \in Drawings : Finals(Append(d, p)) = Append(Finals(d), Final(p))
<1>0. MaxDrafts \in Nat BY CodexImagesAssumption
<1>1. \A p \in Drawings : Final(p) \in Shown /\ Final(p).picture = p
  <2>1. 0 \in 0 .. MaxDrafts BY <1>0
  <2> QED BY <2>1 DEF Final, Shown
<1>2. /\ Len(d) \in Nat /\ DOMAIN d = 1..Len(d) /\ \A i \in 1..Len(d) : d[i] \in Drawings
      /\ Finals(d) = [i \in 1..Len(d) |-> Final(d[i])]
  BY DEF Finals
<1>3. Finals(d) \in Seq(Shown) /\ DOMAIN Finals(d) = 1..Len(d) BY <1>1, <1>2
<1>4. \A i \in 1..Len(d) : Finals(d)[i] = Final(d[i]) BY <1>2
<1>5. IsInjective(d) => IsInjective(Finals(d))
  <2> SUFFICES ASSUME IsInjective(d), NEW i \in 1..Len(d), NEW j \in 1..Len(d),
                      Finals(d)[i] = Finals(d)[j]
               PROVE  i = j
    BY <1>3 DEF IsInjective
  <2>1. d[i] = d[j] BY <1>1, <1>2, <1>4
  <2> QED BY <1>2, <2>1 DEF IsInjective
<1>6. Finals(d) = <<>> <=> d = <<>>
  <2>1. Finals(d) = <<>> <=> Len(Finals(d)) = 0 BY <1>3
  <2>2. Len(Finals(d)) = Len(d) BY <1>2, <1>3
  <2> QED BY <2>1, <2>2
<1>7. ASSUME NEW p \in Drawings PROVE Final(p) \in ToSet(Finals(d)) <=> p \in ToSet(d)
  <2>1. Final(p) \in ToSet(Finals(d)) <=> \E i \in 1..Len(d) : Final(d[i]) = Final(p)
    BY <1>3, <1>4 DEF ToSet
  <2>2. p \in ToSet(d) <=> \E i \in 1..Len(d) : d[i] = p BY <1>2 DEF ToSet
  <2> QED BY <1>1, <1>2, <2>1, <2>2
<1>8. ASSUME NEW p \in Drawings PROVE Finals(Append(d, p)) = Append(Finals(d), Final(p))
  <2> DEFINE e == Append(d, p)
             f == Append(Finals(d), Final(p))
  <2>1. /\ DOMAIN e = 1..(Len(d) + 1) /\ e[Len(d) + 1] = p
        /\ \A i \in 1..Len(d) : e[i] = d[i]
    BY AppendProperties
  <2>2. Len(Finals(d)) = Len(d) BY <1>2, <1>3
  <2>3. /\ f \in Seq(Shown) /\ DOMAIN f = 1..(Len(d) + 1) /\ f[Len(d) + 1] = Final(p)
        /\ \A i \in 1..Len(d) : f[i] = Finals(d)[i]
    BY <1>1, <1>3, <2>2, AppendProperties
  <2> HIDE DEF e, f
  <2>4. Finals(e) = [i \in 1..(Len(d) + 1) |-> Final(e[i])] BY <2>1 DEF Finals
  <2>5. ASSUME NEW i \in 1..(Len(d) + 1) PROVE Final(e[i]) = f[i]
    <3>1. i = Len(d) + 1 \/ i \in 1..Len(d) BY <1>2
    <3> QED BY <1>4, <2>1, <2>3, <3>1
  <2>6. f = [i \in 1..(Len(d) + 1) |-> f[i]] BY <2>3
  <2>7. Finals(e) = f BY <2>4, <2>5, <2>6
  <2> QED BY <2>7 DEF e, f
<1> QED BY <1>2, <1>3, <1>5, <1>6, <1>7, <1>8

\* A picture is drawn once.
LEMMA DrawnOnce ==
  ASSUME NEW d \in Seq(Drawings), IsInjective(d), NEW p \in Drawings, p \notin ToSet(d)
  PROVE  Append(d, p) \in Seq(Drawings) /\ IsInjective(Append(d, p))
<1> DEFINE e == Append(d, p)
<1>1. /\ e \in Seq(Drawings) /\ Len(d) \in Nat /\ DOMAIN d = 1..Len(d)
      /\ DOMAIN e = 1..(Len(d) + 1) /\ e[Len(d) + 1] = p
      /\ \A i \in 1..Len(d) : e[i] = d[i]
  BY AppendProperties
<1>2. \A i \in 1..Len(d) : d[i] # p BY <1>1 DEF ToSet
<1>3. \A i \in 1..(Len(d) + 1) : i = Len(d) + 1 \/ i \in 1..Len(d) BY <1>1
<1> HIDE DEF e
<1>4. IsInjective(e) BY <1>1, <1>2, <1>3 DEF IsInjective
<1> QED BY <1>1, <1>4 DEF e

\* The set of the sequences an answer may bring.
LEMMA DistinctFits ==
  ASSUME NEW d \in Distinct
  PROVE  d \in Seq(Drawings) /\ IsInjective(d)
<1>1. IsFiniteSet(Drawings) BY CodexImagesAssumption
<1>2. Cardinality(Drawings) \in Nat BY <1>1, FS_CardinalityType
<1>3. PICK n \in 0 .. Cardinality(Drawings) : d \in [1..n -> Drawings] BY DEF Distinct, SeqOf
<1>4. n \in Nat BY <1>2
<1>5. d \in Seq(Drawings) BY <1>3, <1>4
<1> QED BY <1>5 DEF Distinct

LEMMA CodexMoves ==
  ASSUME NEW x, NEW d, NEW l, CodexTyped(x, d, l), CodexFits(x, d, l),
         codex' = x, drawn' = d, logged' = l
  PROVE  CodexInv'
BY DEF CodexInv

\* The end of a run without a picture.
LEMMA EndedFails ==
  ASSUME NEW x \in CodexRequest, NEW d, NEW l, CodexTyped(x, d, l), l = <<>>,
         x.pc = "idle" \/ x.client = "account" => ~x.inside,
         x.pc = "idle" => x.client = "account"
  PROVE  CodexTyped(Ended(x, "failed"), d, l) /\ CodexFits(Ended(x, "failed"), d, l)
<1> DEFINE v == Ended(x, "failed")
<1>1. v \in CodexRequest BY DEF Ended, CodexRequest, CodexPC
<1>2. /\ v.pc = (IF x.client = "account" THEN "over" ELSE "log")
      /\ v.outcome = "failed" /\ v.client = x.client /\ v.inside = x.inside
  BY DEF Ended, CodexRequest
<1>3. Len(l) = 0 /\ DOMAIN l = {} OBVIOUS
<1>4. x.client \in {"cpa", "account"} BY DEF CodexRequest
<1> HIDE DEF v
<1>5. CodexFits(v, d, l) BY <1>2, <1>3, <1>4 DEF CodexFits, CodexEnds
<1>6. CodexTyped(v, d, l) BY <1>1 DEF CodexTyped
<1> QED BY <1>5, <1>6 DEF v

\* The end of a run with pictures.
LEMMA EndedSucceeds ==
  ASSUME NEW x \in CodexRequest, NEW d, NEW l, CodexTyped(x, d, l), l = <<>>,
         x.client = "account" => ~x.inside, x.pc # "idle", ToldOf(x, d)
  PROVE  CodexTyped(Ended(x, "success"), d, l) /\ CodexFits(Ended(x, "success"), d, l)
<1> DEFINE v == Ended(x, "success")
<1>1. v \in CodexRequest BY DEF Ended, CodexRequest, CodexPC
<1>2. /\ v.pc = (IF x.client = "account" THEN "over" ELSE "log")
      /\ v.outcome = "success" /\ v.client = x.client /\ v.inside = x.inside
      /\ v.finals = x.finals /\ v.lastRoute = x.lastRoute /\ v.partial = x.partial
  BY DEF Ended, CodexRequest
<1>3. Len(l) = 0 /\ DOMAIN l = {} OBVIOUS
<1>4. x.client \in {"cpa", "account"} BY DEF CodexRequest
<1> HIDE DEF v
<1>5. ToldOf(v, d) BY <1>2 DEF ToldOf
<1>6. CodexFits(v, d, l) BY <1>2, <1>3, <1>4, <1>5 DEF CodexFits, CodexEnds
<1>7. CodexTyped(v, d, l) BY <1>1 DEF CodexTyped
<1> QED BY <1>6, <1>7 DEF v

\* The first entry of a log.
LEMMA AppendOne ==
  ASSUME NEW S, NEW e \in S
  PROVE  LET l == Append(<<>>, e)
         IN  l \in Seq(S) /\ Len(l) = 1 /\ DOMAIN l = {1} /\ l[1] = e
<1> DEFINE l == Append(<<>>, e)
<1>1. <<>> \in Seq(S) /\ Len(<<>>) = 0 OBVIOUS
<1>2. l \in Seq(S) /\ Len(l) = 1 /\ l[1] = e BY <1>1, AppendProperties
<1> HIDE DEF l
<1>3. DOMAIN l = 1..1 BY <1>2
<1>4. 1..1 = {1} OBVIOUS
<1> QED BY <1>2, <1>3, <1>4 DEF l

LEMMA CodexKnown ==
  ASSUME CodexInv
  PROVE  /\ codex \in CodexRequest /\ CodexTyped(codex, drawn, logged)
         /\ drawn["codex_responses"] \in Seq(Drawings) /\ IsInjective(drawn["codex_responses"])
         /\ codex.pc \in {"idle", "gate", "images_api", "codex_responses"} => CodexBefore(codex, drawn, logged)
         /\ codex.pc = "stream" => CodexReads(codex, drawn, logged)
         /\ codex.pc \in {"log", "over"} => CodexEnds(codex, drawn, logged)
BY DEF CodexInv, CodexTyped, CodexFits, CodexRoute

\* Requests begin and pass the gate.
LEMMA CodexBegins ==
  ASSUME CodexInv, BeginAccountCall \/ BeginCPARequest \/ PassGate
  PROVE  CodexInv'
<1>1. /\ codex \in CodexRequest /\ CodexTyped(codex, drawn, logged)
      /\ CodexBefore(codex, drawn, logged) /\ codex.pc \in {"idle", "gate"}
  BY CodexKnown DEF BeginAccountCall, BeginCPARequest, PassGate
<1>2. /\ codex.finals = <<>> /\ codex.outcome = "" /\ logged = <<>> /\ drawn["codex_responses"] = <<>>
      /\ codex.client = "cpa" /\ ~codex.inside /\ drawn' = drawn
  BY <1>1 DEF CodexBefore, BeginAccountCall, BeginCPARequest, PassGate
<1>3. ASSUME NEW x \in CodexRequest, codex' = x, logged' = logged, x.pc \in {"gate", "images_api", "codex_responses"},
             x.finals = <<>>, x.outcome = "", x.pc \in {"gate", "images_api"} => x.client = "cpa",
             x.pc = "gate" \/ x.client = "account" => ~x.inside
      PROVE  CodexInv'
  <2>1. CodexFits(x, drawn, logged) BY <1>2, <1>3 DEF CodexFits, CodexBefore
  <2>2. CodexTyped(x, drawn, logged) BY <1>1, <1>3 DEF CodexTyped
  <2> QED BY <1>2, <1>3, <2>1, <2>2, CodexMoves
<1>4. ASSUME NEW strategy \in CodexRoute \cup {"auto"}, NEW operation \in {"generate", "edit"},
             codex' = [codex EXCEPT !.operation = operation, !.strategy = strategy, !.pc = "over", !.outcome = "failed"],
             logged' = Append(logged, [success |-> FALSE, route |-> strategy])
      PROVE  CodexInv'
  <2> DEFINE x == [codex EXCEPT !.operation = operation, !.strategy = strategy, !.pc = "over", !.outcome = "failed"]
             e == [success |-> FALSE, route |-> strategy]
  <2>1. x \in CodexRequest BY <1>1 DEF CodexRequest, CodexPC
  <2>2. x.pc = "over" /\ x.outcome = "failed" /\ x.client = "cpa" /\ ~x.inside
    BY <1>1, <1>2 DEF CodexRequest
  <2>3. e \in LogEntry /\ e.success = FALSE BY DEF LogEntry
  <2>4. codex' = x /\ logged' = Append(logged, e) BY <1>4
  <2> HIDE DEF x, e
  <2> DEFINE l == Append(logged, e)
  <2>5. l \in Seq(LogEntry) /\ Len(l) = 1 /\ DOMAIN l = {1} /\ l[1] = e BY <1>2, <2>3, AppendOne
  <2> HIDE DEF l
  <2>6. CodexFits(x, drawn, l) BY <2>2, <2>3, <2>5 DEF CodexFits, CodexEnds
  <2>7. CodexTyped(x, drawn, l) BY <1>1, <2>1, <2>5 DEF CodexTyped
  <2> QED BY <1>2, <2>4, <2>6, <2>7, CodexMoves DEF l
<1>5. CASE BeginAccountCall
  <2>1. PICK operation \in {"generate", "edit"} :
          codex' \in {[codex EXCEPT !.client = "account", !.operation = operation, !.pc = "codex_responses"],
                      Ended([codex EXCEPT !.client = "account", !.operation = operation], "failed")}
    BY <1>5 DEF BeginAccountCall
  <2>2. logged' = logged /\ codex.pc = "idle" BY <1>5 DEF BeginAccountCall
  <2>3. CASE codex' = [codex EXCEPT !.client = "account", !.operation = operation, !.pc = "codex_responses"]
    <3> DEFINE x == [codex EXCEPT !.client = "account", !.operation = operation, !.pc = "codex_responses"]
    <3>1. x \in CodexRequest BY <1>1 DEF CodexRequest, CodexPC
    <3>2. x.pc = "codex_responses" /\ x.finals = <<>> /\ x.outcome = "" /\ ~x.inside
      BY <1>1, <1>2 DEF CodexRequest
    <3> HIDE DEF x
    <3> QED BY <1>3, <2>2, <2>3, <3>1, <3>2 DEF x
  <2>4. CASE codex' = Ended([codex EXCEPT !.client = "account", !.operation = operation], "failed")
    <3> DEFINE x == [codex EXCEPT !.client = "account", !.operation = operation]
    <3>1. x \in CodexRequest BY <1>1 DEF CodexRequest
    <3>2. x.client = "account" /\ ~x.inside BY <1>1, <1>2 DEF CodexRequest
    <3>3. codex' = Ended(x, "failed") BY <2>4
    <3> HIDE DEF x
    <3>4. CodexTyped(x, drawn, logged) BY <1>1, <3>1 DEF CodexTyped
    <3>5. /\ CodexTyped(Ended(x, "failed"), drawn, logged)
          /\ CodexFits(Ended(x, "failed"), drawn, logged)
      BY <1>2, <3>1, <3>2, <3>4, EndedFails
    <3> QED BY <1>2, <2>2, <3>3, <3>5, CodexMoves
  <2> QED BY <2>1, <2>3, <2>4
<1>6. CASE BeginCPARequest
  <2>1. PICK operation \in {"generate", "edit"} : \E strategy \in CodexRoute \cup {"auto"} :
       \/ /\ codex' = [codex EXCEPT !.operation = operation, !.strategy = strategy, !.pc = "gate"]
          /\ UNCHANGED logged
       \/ /\ codex' = [codex EXCEPT !.operation = operation, !.strategy = strategy, !.pc = "over", !.outcome = "failed"]
          /\ logged' = Append(logged, [success |-> FALSE, route |-> strategy])
    BY <1>6 DEF BeginCPARequest
  <2>2. PICK strategy \in CodexRoute \cup {"auto"} :
       \/ /\ codex' = [codex EXCEPT !.operation = operation, !.strategy = strategy, !.pc = "gate"]
          /\ UNCHANGED logged
       \/ /\ codex' = [codex EXCEPT !.operation = operation, !.strategy = strategy, !.pc = "over", !.outcome = "failed"]
          /\ logged' = Append(logged, [success |-> FALSE, route |-> strategy])
    BY <2>1
  <2>3. CASE codex' = [codex EXCEPT !.operation = operation, !.strategy = strategy, !.pc = "gate"] /\ UNCHANGED logged
    <3> DEFINE x == [codex EXCEPT !.operation = operation, !.strategy = strategy, !.pc = "gate"]
    <3>1. x \in CodexRequest BY <1>1 DEF CodexRequest, CodexPC
    <3>2. x.pc = "gate" /\ x.finals = <<>> /\ x.outcome = "" /\ ~x.inside /\ x.client = "cpa"
      BY <1>1, <1>2 DEF CodexRequest
    <3> HIDE DEF x
    <3> QED BY <1>3, <2>3, <3>1, <3>2 DEF x
  <2> QED BY <1>4, <2>2, <2>3
<1>7. CASE PassGate
  <2>0. codex.pc = "gate" BY <1>7 DEF PassGate
  <2> DEFINE pc == IF codex.strategy = "auto" THEN "images_api" ELSE codex.strategy
             route == IF codex.operation = "generate" /\ codex.strategy # "codex_responses"
                      THEN "images_api" ELSE codex.lastRoute
  <2>1. CASE codex' = [codex EXCEPT !.inside = TRUE, !.pc = pc, !.lastRoute = route] /\ UNCHANGED logged
    <3> DEFINE x == [codex EXCEPT !.inside = TRUE, !.pc = pc, !.lastRoute = route]
    <3>1. pc \in {"images_api", "codex_responses"} /\ route \in CodexRoute \cup {""}
      BY <1>1 DEF CodexRequest, CodexRoute
    <3> HIDE DEF pc, route
    <3>2. x \in CodexRequest BY <1>1, <3>1 DEF CodexRequest, CodexPC
    <3>3. x.pc = pc /\ x.finals = <<>> /\ x.outcome = "" /\ x.client = "cpa"
      BY <1>1, <1>2 DEF CodexRequest
    <3> HIDE DEF x
    <3> QED BY <1>3, <2>1, <3>1, <3>2, <3>3 DEF x
  <2>2. CASE /\ codex' = [codex EXCEPT !.pc = "over", !.outcome = "failed"]
             /\ logged' = Append(logged, [success |-> FALSE, route |-> codex.strategy])
    <3>1. codex.operation \in {"generate", "edit"} /\ codex.strategy \in CodexRoute \cup {"auto"}
      BY <1>1 DEF CodexRequest
    <3>2. [codex EXCEPT !.pc = "over", !.outcome = "failed"]
            = [codex EXCEPT !.operation = codex.operation, !.strategy = codex.strategy, !.pc = "over", !.outcome = "failed"]
      BY <1>1 DEF CodexRequest
    <3> QED BY <1>4, <2>2, <3>1, <3>2
  <2> QED BY <1>7, <2>1, <2>2 DEF PassGate
<1> QED BY <1>5, <1>6, <1>7

\* The answers of the images API, and of the responses route.
LEMMA RoutesAnswer ==
  ASSUME CodexInv,
         ImagesAnswered \/ ImagesFallBack \/ ImagesFail \/ ResponsesAnswer \/ ResponsesFail
  PROVE  CodexInv'
<1>1. /\ codex \in CodexRequest /\ CodexTyped(codex, drawn, logged)
      /\ CodexBefore(codex, drawn, logged)
      /\ drawn \in [CodexRoute -> Seq(Drawings)]
      /\ \A r \in CodexRoute : IsInjective(drawn[r])
  BY CodexKnown DEF ImagesAnswered, ImagesFallBack, ImagesFail, ResponsesAnswer, ResponsesFail, CodexTyped
<1>2. /\ codex.finals = <<>> /\ codex.outcome = "" /\ logged = <<>> /\ drawn["codex_responses"] = <<>>
      /\ codex.pc = "images_api" => codex.client = "cpa"
      /\ codex.client = "account" => ~codex.inside
      /\ logged' = logged
  BY <1>1 DEF CodexBefore, ImagesAnswered, ImagesFallBack, ImagesFail, ResponsesAnswer, ResponsesFail
<1>3. /\ CodexAnswered \in CodexRequest
      /\ CodexAnswered.pc = codex.pc /\ CodexAnswered.client = codex.client
      /\ CodexAnswered.inside = codex.inside /\ CodexAnswered.finals = codex.finals
      /\ CodexAnswered.outcome = codex.outcome /\ CodexAnswered.lastRoute = "images_api"
  BY <1>1 DEF CodexRequest, CodexAnswered, CodexRoute
<1>4. ASSUME NEW pictures \in Distinct
      PROVE  LET d == [drawn EXCEPT !["images_api"] = pictures]
             IN  /\ \A x \in CodexRequest : CodexTyped(x, d, logged)
                 /\ d["codex_responses"] = <<>> /\ d["images_api"] = pictures
  <2>1. pictures \in Seq(Drawings) /\ IsInjective(pictures) BY DistinctFits
  <2> DEFINE d == [drawn EXCEPT !["images_api"] = pictures]
  <2>2. /\ d \in [CodexRoute -> Seq(Drawings)]
        /\ \A r \in CodexRoute : d[r] = IF r = "images_api" THEN pictures ELSE drawn[r]
    BY <1>1, <2>1
  <2>3. d["codex_responses"] = <<>> /\ d["images_api"] = pictures BY <1>2, <2>2 DEF CodexRoute
  <2> HIDE DEF d
  <2>4. \A r \in CodexRoute : IsInjective(d[r]) BY <1>1, <2>1, <2>2
  <2>5. \A x \in CodexRequest : CodexTyped(x, d, logged) BY <1>1, <2>2, <2>4 DEF CodexTyped
  <2> QED BY <2>3, <2>5 DEF d
<1>5. CASE ImagesAnswered
  <2>1. PICK pictures \in Distinct :
          /\ drawn' = [drawn EXCEPT !["images_api"] = pictures]
          /\ codex' = IF pictures = <<>> THEN Ended(CodexAnswered, "failed")
                      ELSE Ended([CodexAnswered EXCEPT !.finals = Finals(pictures)], "success")
    BY <1>5 DEF ImagesAnswered
  <2>0. codex.pc = "images_api" BY <1>5 DEF ImagesAnswered
  <2>2. pictures \in Seq(Drawings) /\ IsInjective(pictures) BY DistinctFits
  <2> DEFINE d == [drawn EXCEPT !["images_api"] = pictures]
             x == [CodexAnswered EXCEPT !.finals = Finals(pictures)]
  <2>3. drawn' = d BY <2>1
  <2>4. /\ \A y \in CodexRequest : CodexTyped(y, d, logged)
        /\ d["images_api"] = pictures
    BY <1>4
  <2>5. Finals(pictures) \in Seq(Shown) /\ IsInjective(Finals(pictures))
        /\ (pictures # <<>> => Finals(pictures) # <<>>)
    BY <2>2, FinalsFit
  <2>6. x \in CodexRequest BY <1>3, <2>5 DEF CodexRequest
  <2>7. /\ x.pc = "images_api" /\ x.client = "cpa" /\ x.finals = Finals(pictures)
        /\ x.lastRoute = "images_api"
    BY <1>2, <1>3, <2>0 DEF CodexRequest
  <2>8. codex' = IF pictures = <<>> THEN Ended(CodexAnswered, "failed") ELSE Ended(x, "success") BY <2>1
  <2> HIDE DEF d, x
  <2>9. CASE pictures = <<>>
    <3>1. /\ CodexTyped(Ended(CodexAnswered, "failed"), d, logged)
          /\ CodexFits(Ended(CodexAnswered, "failed"), d, logged)
      BY <1>2, <1>3, <2>0, <2>4, EndedFails
    <3> QED BY <1>2, <2>3, <2>8, <2>9, <3>1, CodexMoves
  <2>10. CASE pictures # <<>>
    <3>1. ToldOf(x, d) BY <2>4, <2>5, <2>7, <2>10 DEF ToldOf
    <3>2. /\ CodexTyped(Ended(x, "success"), d, logged)
          /\ CodexFits(Ended(x, "success"), d, logged)
      BY <1>2, <2>4, <2>6, <2>7, <3>1, EndedSucceeds
    <3> QED BY <1>2, <2>3, <2>8, <2>10, <3>2, CodexMoves
  <2> QED BY <2>9, <2>10
<1>6. CASE ImagesFail
  <2>1. PICK pictures \in Distinct, failed \in {codex, CodexAnswered} :
          /\ drawn' = [drawn EXCEPT !["images_api"] = pictures]
          /\ codex' = Ended(failed, "failed")
    BY <1>6 DEF ImagesFail
  <2>2. codex.pc = "images_api" BY <1>6 DEF ImagesFail
  <2> DEFINE d == [drawn EXCEPT !["images_api"] = pictures]
  <2>3. \A x \in CodexRequest : CodexTyped(x, d, logged) BY <1>4
  <2>4. drawn' = d BY <2>1
  <2> HIDE DEF d
  <2>5. failed \in CodexRequest /\ failed.pc = "images_api" /\ failed.client = "cpa"
    BY <1>1, <1>2, <1>3, <2>2
  <2>6. /\ CodexTyped(Ended(failed, "failed"), d, logged)
        /\ CodexFits(Ended(failed, "failed"), d, logged)
    BY <1>2, <2>3, <2>5, EndedFails
  <2> QED BY <1>2, <2>1, <2>4, <2>6, CodexMoves
<1>7. CASE ImagesFallBack
  <2> DEFINE x == [CodexAnswered EXCEPT !.pc = "codex_responses"]
  <2>1. codex' = x /\ drawn' = drawn /\ codex.pc = "images_api" BY <1>7 DEF ImagesFallBack
  <2>2. x \in CodexRequest BY <1>3 DEF CodexRequest, CodexPC
  <2>3. /\ x.pc = "codex_responses" /\ x.client = "cpa" /\ x.finals = <<>> /\ x.outcome = ""
    BY <1>2, <1>3, <2>1 DEF CodexRequest
  <2> HIDE DEF x
  <2>4. CodexTyped(x, drawn, logged) BY <1>1, <2>2 DEF CodexTyped
  <2>5. CodexFits(x, drawn, logged) BY <1>2, <2>3 DEF CodexFits, CodexBefore
  <2> QED BY <1>2, <2>1, <2>4, <2>5, CodexMoves
<1>8. CASE ResponsesAnswer
  <2> DEFINE route == IF codex.client = "cpa" THEN "codex_responses" ELSE codex.lastRoute
             x == [codex EXCEPT !.pc = "stream", !.lastRoute = route]
  <2>1. codex' = x /\ drawn' = drawn BY <1>8 DEF ResponsesAnswer
  <2>2. route \in CodexRoute \cup {""} BY <1>1 DEF CodexRequest, CodexRoute
  <2>3. x \in CodexRequest BY <1>1, <2>2 DEF CodexRequest, CodexPC
  <2>4. /\ x.pc = "stream" /\ x.client = codex.client /\ x.finals = <<>> /\ x.outcome = ""
        /\ x.lastRoute = route /\ x.inside = codex.inside
    BY <1>1, <1>2 DEF CodexRequest
  <2>5. <<>> = Finals(drawn["codex_responses"]) BY <1>2, CodexKnown, FinalsFit
  <2> HIDE DEF x
  <2>6. CodexTyped(x, drawn, logged) BY <1>1, <2>3 DEF CodexTyped
  <2>7. CodexFits(x, drawn, logged) BY <1>2, <2>4, <2>5 DEF CodexFits, CodexReads
  <2> QED BY <1>2, <2>1, <2>6, <2>7, CodexMoves
<1>9. CASE ResponsesFail
  <2>1. codex' = Ended(codex, "failed") /\ drawn' = drawn /\ codex.pc = "codex_responses"
    BY <1>9 DEF ResponsesFail
  <2>2. /\ CodexTyped(Ended(codex, "failed"), drawn, logged)
        /\ CodexFits(Ended(codex, "failed"), drawn, logged)
    BY <1>1, <1>2, <2>1, EndedFails
  <2> QED BY <1>2, <2>1, <2>2, CodexMoves
<1> QED BY <1>5, <1>6, <1>7, <1>8, <1>9

\* The drafts of the stream, in any order.
LEMMA DraftsFit ==
  ASSUME NEW partial \in [Drawings -> 0 .. MaxDrafts],
         NEW images \in SetToSeqs({[picture |-> p, draft |-> partial[p]] : p \in {q \in Drawings : partial[q] > 0}})
  PROVE  /\ images \in Seq(Shown) /\ IsInjective(images)
         /\ \A i \in DOMAIN images : images[i].draft = partial[images[i].picture]
         /\ {[picture |-> p, draft |-> partial[p]] : p \in {q \in Drawings : partial[q] > 0}} # {}
              => images # <<>>
<1> DEFINE P == {q \in Drawings : partial[q] > 0}
           S == {[picture |-> p, draft |-> partial[p]] : p \in P}
           N == Cardinality(S)
<1>1. IsFiniteSet(Drawings) BY CodexImagesAssumption
<1>2. IsFiniteSet(P) BY <1>1, FS_Subset
<1>3. IsFiniteSet(S)
  <2> DEFINE g == [p \in P |-> [picture |-> p, draft |-> partial[p]]]
  <2>1. S = {g[p] : p \in P} BY Zenon
  <2>2. g \in [P -> S] OBVIOUS
  <2>3. g \in Surjection(P, S) BY <2>1, <2>2 DEF Surjection
  <2> HIDE DEF g, S, P
  <2> QED BY <1>2, <2>3, FS_Surjection
<1>4. N \in Nat /\ (S # {} => N # 0) BY <1>3, FS_CardinalityType, FS_EmptySet
<1>5. /\ images \in [1..N -> S]
      /\ \A i, j \in 1..N : i # j => images[i] # images[j]
  BY DEF SetToSeqs
<1>6. \A s \in S : s \in Shown /\ s.draft = partial[s.picture]
  <2> SUFFICES ASSUME NEW p \in P
               PROVE  /\ [picture |-> p, draft |-> partial[p]] \in Shown
                      /\ [picture |-> p, draft |-> partial[p]].draft
                           = partial[[picture |-> p, draft |-> partial[p]].picture]
    OBVIOUS
  <2>1. p \in Drawings /\ partial[p] \in 0 .. MaxDrafts OBVIOUS
  <2> QED BY <2>1 DEF Shown
<1> HIDE DEF S, N
<1>7. images \in Seq(S) /\ DOMAIN images = 1..N /\ Len(images) = N BY <1>4, <1>5
<1>8. images \in Seq(Shown) BY <1>4, <1>5, <1>6
<1>9. IsInjective(images) BY <1>5, <1>7 DEF IsInjective
<1>10. \A i \in DOMAIN images : images[i].draft = partial[images[i].picture] BY <1>5, <1>6
<1>11. S # {} => images # <<>>
  <2>1. images = <<>> => Len(images) = 0 OBVIOUS
  <2> QED BY <1>4, <1>7, <2>1
<1> QED BY <1>8, <1>9, <1>10, <1>11 DEF S

\* Events of the stream.
LEMMA StreamHeard ==
  ASSUME CodexInv, NEW p \in Drawings, HearDraft(p) \/ HearDone(p)
  PROVE  CodexInv'
<1> DEFINE d == drawn["codex_responses"]
<1>1. /\ codex \in CodexRequest /\ CodexTyped(codex, drawn, logged) /\ codex.pc = "stream"
      /\ CodexReads(codex, drawn, logged)
      /\ drawn \in [CodexRoute -> Seq(Drawings)]
      /\ \A r \in CodexRoute : IsInjective(drawn[r])
      /\ d \in Seq(Drawings) /\ IsInjective(d)
  BY CodexKnown DEF HearDraft, HearDone, CodexTyped
<1>2. /\ codex.outcome = "" /\ logged = <<>> /\ logged' = logged
      /\ codex.client = "cpa" => codex.lastRoute = "codex_responses" /\ codex.finals = <<>>
      /\ codex.client = "account" => ~codex.inside /\ codex.finals = Finals(d)
      /\ codex.client \in {"cpa", "account"}
  BY <1>1 DEF CodexReads, HearDraft, HearDone, CodexRequest
<1>3. CASE HearDraft(p)
  <2>1. drawn' = drawn /\ codex.partial[p] < MaxDrafts /\ codex.partial \in [Drawings -> 0 .. MaxDrafts]
    BY <1>1, <1>3 DEF HearDraft, CodexRequest
  <2>2. codex' = codex \/ codex' = [codex EXCEPT !.partial[p] = @ + 1] BY <1>3 DEF HearDraft
  <2> DEFINE x == [codex EXCEPT !.partial[p] = @ + 1]
  <2>3. codex.partial[p] + 1 \in 0 .. MaxDrafts BY <2>1, CodexImagesAssumption
  <2>4. [codex.partial EXCEPT ![p] = @ + 1] \in [Drawings -> 0 .. MaxDrafts] BY <2>1, <2>3
  <2>5. x \in CodexRequest BY <1>1, <2>4 DEF CodexRequest
  <2>6. /\ x.pc = "stream" /\ x.client = codex.client /\ x.finals = codex.finals
        /\ x.outcome = codex.outcome /\ x.inside = codex.inside /\ x.lastRoute = codex.lastRoute
    BY <1>1 DEF CodexRequest
  <2>7. codex' \in {codex, x} BY <2>2
  <2> HIDE DEF x
  <2>8. ASSUME NEW y \in {codex, x} PROVE CodexTyped(y, drawn, logged) /\ CodexFits(y, drawn, logged)
    <3>1. CodexTyped(y, drawn, logged) BY <1>1, <2>5 DEF CodexTyped
    <3>2. CodexFits(y, drawn, logged) BY <1>1, <1>2, <2>6 DEF CodexFits, CodexReads
    <3> QED BY <3>1, <3>2
  <2> QED BY <1>2, <2>1, <2>7, <2>8, CodexMoves
<1>4. CASE HearDone(p)
  <2> DEFINE e == IF p \in ToSet(d) THEN d ELSE Append(d, p)
             dr == [drawn EXCEPT !["codex_responses"] = e]
             f == Emit(codex.finals, Final(p))
             x == IF codex.client = "account" THEN [codex EXCEPT !.finals = f] ELSE codex
  <2>1. drawn' = dr /\ codex' = x BY <1>4 DEF HearDone
  <2>2. e \in Seq(Drawings) /\ IsInjective(e) BY <1>1, DrawnOnce
  <2>3. codex.client = "account" => f = Finals(e)
    <3>1. Final(p) \in ToSet(Finals(d)) <=> p \in ToSet(d) BY <1>1, FinalsFit
    <3>2. Finals(Append(d, p)) = Append(Finals(d), Final(p)) BY <1>1, FinalsFit
    <3> QED BY <1>2, <3>1, <3>2 DEF Emit
  <2>4. Finals(e) \in Seq(Shown) BY <2>2, FinalsFit
  <2> HIDE DEF e, f
  <2>5. dr["codex_responses"] = e /\ dr \in [CodexRoute -> Seq(Drawings)]
        /\ \A r \in CodexRoute : IsInjective(dr[r])
    BY <1>1, <2>2 DEF CodexRoute
  <2>6. x \in CodexRequest BY <1>1, <2>3, <2>4 DEF CodexRequest
  <2>7. /\ x.pc = "stream" /\ x.client = codex.client /\ x.outcome = "" /\ x.inside = codex.inside
        /\ x.lastRoute = codex.lastRoute
        /\ x.finals = IF codex.client = "account" THEN f ELSE codex.finals
    BY <1>1, <1>2 DEF CodexRequest
  <2> HIDE DEF dr, x
  <2>8. CodexTyped(x, dr, logged) BY <1>1, <2>5, <2>6 DEF CodexTyped
  <2>9. CodexReads(x, dr, logged) BY <1>2, <2>3, <2>5, <2>7 DEF CodexReads
  <2>10. CodexFits(x, dr, logged) BY <2>7, <2>9 DEF CodexFits
  <2> QED BY <1>2, <2>1, <2>8, <2>10, CodexMoves
<1> QED BY <1>3, <1>4

\* The end of the stream.
LEMMA StreamCloses ==
  ASSUME CodexInv, HearCompleted \/ EndOfStream \/ StreamFails
  PROVE  CodexInv'
<1> DEFINE d == drawn["codex_responses"]
<1>1. /\ codex \in CodexRequest /\ CodexTyped(codex, drawn, logged) /\ codex.pc = "stream"
      /\ CodexFits(codex, drawn, logged) /\ CodexReads(codex, drawn, logged)
      /\ d \in Seq(Drawings) /\ IsInjective(d)
  BY CodexKnown DEF HearCompleted, EndOfStream, StreamFails, CodexInv
<1>2. /\ codex.outcome = "" /\ logged = <<>> /\ logged' = logged /\ drawn' = drawn
      /\ codex.client = "cpa" => codex.lastRoute = "codex_responses" /\ codex.finals = <<>>
      /\ codex.client = "account" => ~codex.inside /\ codex.finals = Finals(d)
      /\ codex.client \in {"cpa", "account"} /\ codex.finals \in Seq(Shown)
      /\ codex.partial \in [Drawings -> 0 .. MaxDrafts]
  BY <1>1 DEF CodexReads, HearCompleted, EndOfStream, StreamFails, CodexRequest
<1>3. /\ Finals(d) \in Seq(Shown) /\ IsInjective(Finals(d)) /\ (Finals(d) = <<>> <=> d = <<>>)
  BY <1>1, FinalsFit
<1>4. ASSUME NEW x \in CodexRequest, x.pc = "stream", x.client = codex.client, x.inside = codex.inside,
             codex' = Ended(x, "failed")
      PROVE  CodexInv'
  <2>1. CodexTyped(x, drawn, logged) BY <1>1, <1>4 DEF CodexTyped
  <2>2. /\ CodexTyped(Ended(x, "failed"), drawn, logged)
        /\ CodexFits(Ended(x, "failed"), drawn, logged)
    BY <1>2, <1>4, <2>1, EndedFails
  <2> QED BY <1>2, <1>4, <2>2, CodexMoves
<1>5. ASSUME NEW f \in Seq(Shown), codex' = Ended([codex EXCEPT !.finals = f], "success"),
             f # <<>>, IsInjective(f),
             \/ f = Finals(d)
             \/ /\ codex.client = "account" /\ d = <<>>
                /\ \A i \in DOMAIN f : f[i].draft = codex.partial[f[i].picture]
      PROVE  CodexInv'
  <2> DEFINE x == [codex EXCEPT !.finals = f]
  <2>1. x \in CodexRequest BY <1>1, <1>5 DEF CodexRequest
  <2>2. /\ x.pc = "stream" /\ x.client = codex.client /\ x.inside = codex.inside /\ x.finals = f
        /\ x.lastRoute = codex.lastRoute /\ x.partial = codex.partial
    BY <1>1, <1>5 DEF CodexRequest
  <2>3. codex' = Ended(x, "success") BY <1>5
  <2> HIDE DEF x
  <2>4. ToldOf(x, drawn) BY <1>2, <1>5, <2>2 DEF ToldOf
  <2>5. CodexTyped(x, drawn, logged) BY <1>1, <2>1 DEF CodexTyped
  <2>6. /\ CodexTyped(Ended(x, "success"), drawn, logged)
        /\ CodexFits(Ended(x, "success"), drawn, logged)
    BY <1>2, <2>1, <2>2, <2>4, <2>5, EndedSucceeds
  <2> QED BY <1>2, <2>3, <2>6, CodexMoves
<1>6. CASE HearCompleted
  <2>1. codex' = IF codex.client = "account" THEN [codex EXCEPT !.finals = EmitAll(@, Finals(d))]
                 ELSE IF Finals(d) = <<>> THEN Ended(codex, "failed")
                 ELSE Ended([codex EXCEPT !.finals = Finals(d)], "success")
    BY <1>6 DEF HearCompleted
  <2>2. CASE codex.client = "account"
    <3>1. codex.finals = Finals(d) BY <1>2, <2>2
    <3>2. Len(Finals(d)) \in Nat /\ DOMAIN Finals(d) = 1..Len(Finals(d)) BY <1>3
    <3>3. EmitAll(codex.finals, Finals(d)) = codex.finals BY <3>1, <3>2, EmitNothing
    <3>4. codex' = codex BY <1>1, <2>1, <2>2, <3>3 DEF CodexRequest
    <3> QED BY <1>1, <1>2, <3>4, CodexMoves
  <2>3. CASE codex.client = "cpa"
    <3>1. CASE Finals(d) = <<>> BY <1>1, <1>4, <2>1, <2>3, <3>1
    <3>2. CASE Finals(d) # <<>> BY <1>3, <1>5, <2>1, <2>3, <3>2
    <3> QED BY <3>1, <3>2
  <2> QED BY <1>2, <2>2, <2>3
<1>7. CASE EndOfStream
  <2> DEFINE drafts == {[picture |-> p, draft |-> codex.partial[p]] : p \in {q \in Drawings : codex.partial[q] > 0}}
  <2>1. IF codex.client = "cpa" \/ (codex.finals = <<>> /\ drafts = {})
          THEN codex' = Ended(codex, "failed")
        ELSE IF codex.finals # <<>> THEN codex' = Ended(codex, "success")
        ELSE \E images \in SetToSeqs(drafts) : codex' = Ended([codex EXCEPT !.finals = images], "success")
    BY <1>7 DEF EndOfStream
  <2>2. CASE codex.client = "cpa" \/ (codex.finals = <<>> /\ drafts = {})
    BY <1>1, <1>4, <2>1, <2>2
  <2>3. CASE codex.client = "account" /\ codex.finals # <<>>
    <3>1. codex' = Ended(codex, "success") BY <2>1, <2>3
    <3>2. codex = [codex EXCEPT !.finals = codex.finals] BY <1>1 DEF CodexRequest
    <3> QED BY <1>2, <1>3, <1>5, <2>3, <3>1, <3>2
  <2>4. CASE codex.client = "account" /\ codex.finals = <<>> /\ drafts # {}
    <3>1. PICK images \in SetToSeqs(drafts) : codex' = Ended([codex EXCEPT !.finals = images], "success")
      BY <2>1, <2>4
    <3>2. /\ images \in Seq(Shown) /\ IsInjective(images) /\ images # <<>>
          /\ \A i \in DOMAIN images : images[i].draft = codex.partial[images[i].picture]
      BY <1>2, <2>4, DraftsFit
    <3>3. d = <<>> BY <1>2, <1>3, <2>4
    <3> QED BY <1>5, <2>4, <3>1, <3>2, <3>3
  <2> HIDE DEF drafts
  <2> QED BY <1>2, <2>2, <2>3, <2>4
<1>8. CASE StreamFails
  <2> DEFINE x == [codex EXCEPT !.finals = <<>>]
  <2>1. x \in CodexRequest
    <3>1. <<>> \in Seq(Shown) OBVIOUS
    <3> QED BY <1>1, <3>1 DEF CodexRequest
  <2>2. x.pc = "stream" /\ x.client = codex.client /\ x.inside = codex.inside BY <1>1 DEF CodexRequest
  <2>3. codex' = Ended(x, "failed") BY <1>8 DEF StreamFails
  <2> HIDE DEF x
  <2> QED BY <1>4, <2>1, <2>2, <2>3
<1> QED BY <1>6, <1>7, <1>8

\* The entry of the log.
LEMMA CodexLogs ==
  ASSUME CodexInv, LogCPARequest
  PROVE  CodexInv'
<1>1. /\ codex \in CodexRequest /\ CodexTyped(codex, drawn, logged) /\ codex.pc = "log"
      /\ CodexEnds(codex, drawn, logged)
  BY CodexKnown DEF LogCPARequest
<1>2. codex.outcome # "" /\ codex.client = "cpa" /\ logged = <<>> /\ drawn' = drawn
      /\ (codex.outcome = "success" => ToldOf(codex, drawn))
  BY <1>1 DEF CodexEnds, LogCPARequest
<1> DEFINE x == [codex EXCEPT !.pc = "over", !.inside = FALSE]
           e == [success |-> codex.outcome = "success", route |-> codex.lastRoute]
           l == Append(<<>>, e)
<1>3. codex' = x /\ logged' = l BY <1>2 DEF LogCPARequest
<1>4. x \in CodexRequest BY <1>1 DEF CodexRequest, CodexPC
<1>5. /\ x.pc = "over" /\ x.inside = FALSE /\ x.client = "cpa" /\ x.outcome = codex.outcome
      /\ x.finals = codex.finals /\ x.lastRoute = codex.lastRoute /\ x.partial = codex.partial
  BY <1>1, <1>2 DEF CodexRequest
<1>6. e \in LogEntry /\ e.success = (codex.outcome = "success")
  <2>1. codex.lastRoute \in CodexRoute \cup {"", "auto"} BY <1>1 DEF CodexRequest
  <2>2. (codex.outcome = "success") \in BOOLEAN OBVIOUS
  <2> QED BY <2>1, <2>2 DEF LogEntry
<1> HIDE DEF x, e
<1>7. l \in Seq(LogEntry) /\ Len(l) = 1 /\ DOMAIN l = {1} /\ l[1] = e BY <1>6, AppendOne
<1> HIDE DEF l
<1>8. x.outcome = "success" => ToldOf(x, drawn) BY <1>2, <1>5 DEF ToldOf
<1>10. \A i \in DOMAIN l : l[i].success = (x.outcome = "success")
  <2>1. l[1].success = (x.outcome = "success") BY <1>5, <1>6, <1>7
  <2> QED BY <1>7, <2>1
<1>9. CodexFits(x, drawn, l) BY <1>2, <1>5, <1>7, <1>8, <1>10 DEF CodexFits, CodexEnds
<1>11. CodexTyped(x, drawn, l) BY <1>1, <1>4, <1>7 DEF CodexTyped
<1> QED BY <1>2, <1>3, <1>9, <1>11, CodexMoves

LEMMA CodexInvHolds == CodexSpec => []CodexInv
<1>1. CodexInit => CodexInv
  <2> SUFFICES ASSUME CodexInit PROVE CodexInv OBVIOUS
  <2> DEFINE x == [pc |-> "idle", client |-> "cpa", operation |-> "generate", strategy |-> "auto",
                   inside |-> FALSE, lastRoute |-> "", finals |-> <<>>, partial |-> [p \in Drawings |-> 0],
                   outcome |-> ""]
  <2>1. codex = x /\ drawn = [r \in CodexRoute |-> <<>>] /\ logged = <<>> BY DEF CodexInit
  <2>2. x \in CodexRequest
    <3>1. [p \in Drawings |-> 0] \in [Drawings -> 0 .. MaxDrafts] BY CodexImagesAssumption
    <3>2. <<>> \in Seq(Shown) OBVIOUS
    <3> QED BY <3>1, <3>2 DEF CodexRequest, CodexPC, CodexRoute
  <2>3. x.pc = "idle" /\ x.finals = <<>> /\ x.outcome = "" /\ x.client = "cpa" /\ ~x.inside OBVIOUS
  <2> HIDE DEF x
  <2>4. <<>> \in Seq(Drawings) /\ <<>> \in Seq(LogEntry) OBVIOUS
  <2>5. IsInjective(<<>>) BY DEF IsInjective
  <2>6. /\ drawn \in [CodexRoute -> Seq(Drawings)] /\ drawn["codex_responses"] = <<>>
        /\ \A r \in CodexRoute : IsInjective(drawn[r])
    BY <2>1, <2>4, <2>5 DEF CodexRoute
  <2>7. CodexTyped(codex, drawn, logged) BY <2>1, <2>2, <2>4, <2>6 DEF CodexTyped
  <2>8. CodexFits(codex, drawn, logged) BY <2>1, <2>3, <2>6 DEF CodexFits, CodexBefore
  <2> QED BY <2>7, <2>8 DEF CodexInv
<1>2. CodexInv /\ [CodexNext]_codexVars => CodexInv'
  <2> SUFFICES ASSUME CodexInv, [CodexNext]_codexVars PROVE CodexInv' OBVIOUS
  <2>1. CASE UNCHANGED codexVars BY <2>1, CodexMoves DEF codexVars, CodexInv
  <2>2. CASE BeginAccountCall \/ BeginCPARequest \/ PassGate BY <2>2, CodexBegins
  <2>3. CASE ImagesAnswered \/ ImagesFallBack \/ ImagesFail \/ ResponsesAnswer \/ ResponsesFail
    BY <2>3, RoutesAnswer
  <2>4. ASSUME NEW p \in Drawings, HearDraft(p) \/ HearDone(p) PROVE CodexInv' BY <2>4, StreamHeard
  <2>5. CASE HearCompleted \/ EndOfStream \/ StreamFails BY <2>5, StreamCloses
  <2>6. CASE LogCPARequest BY <2>6, CodexLogs
  <2> QED BY <2>1, <2>2, <2>3, <2>4, <2>5, <2>6 DEF CodexNext
<1> QED BY <1>1, <1>2, PTL DEF CodexSpec

\* The values of the variables of the responses route.
THEOREM CodexTypes == CodexSpec => []CodexTypeOK
<1>1. CodexInv => CodexTypeOK BY DEF CodexInv, CodexTyped, CodexTypeOK, CodexRequest, LogEntry
<1> QED BY <1>1, CodexInvHolds, PTL

\* A request that succeeded returns each picture once, in the order it was drawn, on the
\* route its log entry names, and a CPA request is logged once (runPureCPAImageRequest).
THEOREM CodexStaysTrue == CodexSpec => []CodexTellsTheTruth
<1>1. CodexInv => CodexTellsTheTruth
  <2> SUFFICES ASSUME CodexInv PROVE CodexTellsTheTruth OBVIOUS
  <2>1. codex \in CodexRequest BY CodexKnown
  <2>2. codex.pc \in CodexPC BY <2>1 DEF CodexRequest
  <2>3. codex.outcome = "success" => codex.pc \in {"log", "over"}
    BY <2>2, CodexKnown DEF CodexPC, CodexBefore, CodexReads
  <2>4. codex.outcome = "success" => ToldOf(codex, drawn) BY <2>3, CodexKnown DEF CodexEnds
  <2>5. codex.pc = "over" => CodexEnds(codex, drawn, logged) BY CodexKnown
  <2> QED BY <2>4, <2>5 DEF CodexTellsTheTruth, ToldOf, CodexEnds
<1> QED BY <1>1, CodexInvHolds, PTL

\* What every client of an upstream reports is what the upstream did.
THEOREM UpstreamsHold == CallSpec /\ WebConversationSpec /\ CodexSpec => []UpstreamsAreHeard
<1>1. CallsAreSettled /\ AnswersAreOurs /\ CodexTellsTheTruth => UpstreamsAreHeard
  BY DEF UpstreamsAreHeard
<1> QED BY <1>1, CallsSettle, AnswersStayOurs, CodexStaysTrue, PTL
-----------------------------------------------------------------------------
(***************************************************************************)
(* JobQueue.  A worker that claims has a row to claim.                     *)
(***************************************************************************)

HasBatch(w) == w.pc = "claim" => w.batch # <<>>

QueueInv == TypeOK /\ \A i \in Instances : HasBatch(worker[i])

\* A notification is dropped or comes last.
LEMMA NotificationFits ==
  ASSUME QueueInv, NEW i \in Instances, NEW n \in Jobs \cup {Drain}, NotifyLocal(i, n)
  PROVE  channel' \in [Instances -> Seq(Jobs \cup {Drain})] /\ redis' = redis
<1>1. channel \in [Instances -> Seq(Jobs \cup {Drain})] BY DEF QueueInv, TypeOK
<1>2. Append(channel[i], n) \in Seq(Jobs \cup {Drain}) BY <1>1
<1> QED BY <1>1, <1>2 DEF NotifyLocal

\* What stays as it is.
LEMMA RowsFit ==
  ASSUME QueueInv, NEW j \in Jobs, NEW r \in Row, job' = [job EXCEPT ![j] = r],
         UNCHANGED <<backend, created, notifying, redis, channel, worker, crashes>>
  PROVE  QueueInv'
BY DEF QueueInv, TypeOK, HasBatch

\* What a worker does.
LEMMA WorkerFits ==
  ASSUME QueueInv, NEW i \in Instances, NEW w \in Worker, HasBatch(w),
         worker' = [worker EXCEPT ![i] = w],
         job' \in [Jobs -> Row], channel' \in [Instances -> Seq(Jobs \cup {Drain})],
         UNCHANGED <<backend, created, notifying, redis, crashes>>
  PROVE  QueueInv'
<1>1. worker \in [Instances -> Worker] BY DEF QueueInv, TypeOK
<1>2. worker' \in [Instances -> Worker] BY <1>1
<1>3. \A k \in Instances : worker'[k] = IF k = i THEN w ELSE worker[k] BY <1>1
<1>4. \A k \in Instances : HasBatch(worker'[k]) BY <1>3 DEF QueueInv
<1>5. TypeOK' BY <1>2 DEF QueueInv, TypeOK
<1>6. \A k \in Instances : HasBatch(worker[k])' BY <1>4 DEF HasBatch
<1> QED BY <1>5, <1>6 DEF QueueInv

LEMMA ClaimFits ==
  ASSUME QueueInv, NEW j \in Jobs, Claim(j)
  PROVE  job' \in [Jobs -> Row]
<1>1. job \in [Jobs -> Row] BY DEF QueueInv, TypeOK
<1> DEFINE r == [job[j] EXCEPT !.leased = TRUE, !.claimed = TRUE, !.executing = TRUE]
<1>2. r \in Row BY <1>1 DEF Row
<1>3. job' = [job EXCEPT ![j] = r] BY <1>1 DEF Claim, Row
<1> HIDE DEF r
<1> QED BY <1>1, <1>2, <1>3

\* Jobs are saved, and their requests notify.
LEMMA SavesAndNotifies ==
  ASSUME QueueInv, NEW j \in Jobs,
         \/ SaveQueued(j) \/ SaveRefused(j) \/ SaveWaiting(j) \/ EndWaiting(j) \/ Leave(j)
               \/ LeaseRunsOut(j)
         \/ \E i \in Instances : NotifyJob(j, i)
  PROVE  QueueInv'
<1>1. job \in [Jobs -> Row] /\ job[j] \in Row BY DEF QueueInv, TypeOK
<1>2. CASE SaveQueued(j)
  <2> DEFINE r == [job[j] EXCEPT !.status = "queued"]
  <2>1. r \in Row BY <1>1 DEF Row
  <2>2. job' = [job EXCEPT ![j] = r] BY <1>2 DEF SaveQueued
  <2> HIDE DEF r
  <2>3. job' \in [Jobs -> Row] BY <1>1, <2>1, <2>2
  <2>4. created' \in Seq(Jobs) BY <1>2 DEF SaveQueued, QueueInv, TypeOK
  <2> QED BY <1>2, <2>3, <2>4 DEF SaveQueued, QueueInv, TypeOK, HasBatch
<1>6. CASE SaveRefused(j)
  <2>1. LeftRow \in Row BY DEF LeftRow, NoRow, Row
  <2>2. job' = [job EXCEPT ![j] = LeftRow] BY <1>6 DEF SaveRefused
  <2>3. job' \in [Jobs -> Row] BY <1>1, <2>1, <2>2
  <2>4. created' \in Seq(Jobs) BY <1>6 DEF SaveRefused, QueueInv, TypeOK
  <2> QED BY <1>6, <2>3, <2>4 DEF SaveRefused, QueueInv, TypeOK, HasBatch
<1>3. CASE SaveWaiting(j) \/ LeaseRunsOut(j)
  <2> DEFINE r == [job[j] EXCEPT !.leased = FALSE]
  <2>1. r \in Row BY <1>1 DEF Row
  <2>2. job' = [job EXCEPT ![j] = r] BY <1>3 DEF SaveWaiting, LeaseRunsOut
  <2>3. UNCHANGED <<backend, created, notifying, redis, channel, worker, crashes>>
    BY <1>3 DEF SaveWaiting, LeaseRunsOut
  <2> HIDE DEF r
  <2> QED BY <2>1, <2>2, <2>3, RowsFit
<1>4. CASE EndWaiting(j) \/ Leave(j)
  <2>1. LeftRow \in Row BY DEF LeftRow, NoRow, Row
  <2>2. job' = [job EXCEPT ![j] = LeftRow] BY <1>4 DEF EndWaiting, Leave
  <2>3. UNCHANGED <<backend, created, notifying, redis, channel, worker, crashes>>
    BY <1>4 DEF EndWaiting, Leave
  <2> QED BY <2>1, <2>2, <2>3, RowsFit
<1>5. ASSUME NEW i \in Instances, NotifyJob(j, i) PROVE QueueInv'
  <2>1. /\ notifying' = notifying \ {j} /\ UNCHANGED <<backend, job, created, worker, crashes>>
        /\ \/ NotifyLocal(i, j)
           \/ redis' = Append(redis, j) /\ UNCHANGED channel
           \/ NotifyLocal(i, Drain)
    BY <1>5 DEF NotifyJob, NotifyRedis
  <2>2. channel' \in [Instances -> Seq(Jobs \cup {Drain})] /\ redis' \in Seq(Jobs)
    <3>1. CASE NotifyLocal(i, j) \/ NotifyLocal(i, Drain)
      BY <3>1, NotificationFits DEF QueueInv, TypeOK
    <3>2. CASE redis' = Append(redis, j) /\ UNCHANGED channel
      BY <3>2 DEF QueueInv, TypeOK
    <3> QED BY <2>1, <3>1, <3>2
  <2> QED BY <2>1, <2>2 DEF QueueInv, TypeOK, HasBatch
<1> QED BY <1>2, <1>3, <1>4, <1>5, <1>6

\* Ticks, the Redis list, and crashes.
LEMMA QueueMoves ==
  ASSUME QueueInv, NEW i \in Instances, Wake(i) \/ Pop(i) \/ Crash(i)
  PROVE  QueueInv'
<1>1. QueueInv /\ redis \in Seq(Jobs) /\ channel \in [Instances -> Seq(Jobs \cup {Drain})]
  BY DEF QueueInv, TypeOK
<1>2. CASE Wake(i)
  <2>1. channel' \in [Instances -> Seq(Jobs \cup {Drain})] /\ redis' = redis
    BY <1>2, NotificationFits DEF Wake
  <2> QED BY <1>2, <2>1 DEF Wake, QueueInv, TypeOK, HasBatch
<1>3. CASE Pop(i)
  <2>1. redis # <<>> /\ redis' = Tail(redis) BY <1>3 DEF Pop
  <2>2. redis' \in Seq(Jobs) /\ Head(redis) \in Jobs BY <1>1, <2>1
  <2>3. Append(channel[i], Head(redis)) \in Seq(Jobs \cup {Drain}) BY <1>1, <2>2
  <2>4. channel' \in [Instances -> Seq(Jobs \cup {Drain})] BY <1>1, <1>3, <2>3 DEF Pop
  <2> QED BY <1>3, <2>2, <2>4 DEF Pop, QueueInv, TypeOK, HasBatch
<1>4. CASE Crash(i)
  <2>1. IdleWorker \in Worker /\ HasBatch(IdleWorker)
    <3>1. <<>> \in Seq(Jobs) OBVIOUS
    <3> QED BY <3>1 DEF IdleWorker, Worker, HasBatch
  <2>2. <<Drain>> \in Seq(Jobs \cup {Drain}) OBVIOUS
  <2>3. channel' \in [Instances -> Seq(Jobs \cup {Drain})] BY <1>1, <1>4, <2>2 DEF Crash
  <2>4. PICK dead \in SUBSET Jobs :
          /\ notifying' = notifying \ dead
          /\ job' = [j \in Jobs |-> IF j \in dead THEN [job[j] EXCEPT !.executing = FALSE] ELSE job[j]]
    BY <1>4 DEF Crash
  <2>5. \A j \in Jobs : job[j] \in Row /\ [job[j] EXCEPT !.executing = FALSE] \in Row
    BY DEF QueueInv, TypeOK, Row
  <2>6. job' \in [Jobs -> Row] BY <2>4, <2>5
  <2>7. worker \in [Instances -> Worker] /\ worker' = [worker EXCEPT ![i] = IdleWorker]
    BY <1>4 DEF Crash, QueueInv, TypeOK
  <2>8. worker' \in [Instances -> Worker] BY <2>1, <2>7
  <2>9. \A k \in Instances : worker'[k] = IF k = i THEN IdleWorker ELSE worker[k] BY <2>7
  <2>10. \A k \in Instances : HasBatch(worker'[k]) BY <2>1, <2>9 DEF QueueInv
  <2>11. crashes' \in 0..MaxCrashes
    BY <1>4, JobQueueAssumption DEF Crash, QueueInv, TypeOK
  <2>12. TypeOK' BY <1>4, <2>3, <2>4, <2>6, <2>8, <2>11 DEF Crash, QueueInv, TypeOK
  <2>13. \A k \in Instances : HasBatch(worker[k])' BY <2>10 DEF HasBatch
  <2> QED BY <2>12, <2>13 DEF QueueInv
<1> QED BY <1>2, <1>3, <1>4

\* A worker takes its notifications and claims the rows of its batch.
LEMMA WorkerGoes ==
  ASSUME QueueInv, NEW i \in Instances, Receive(i) \/ ClaimNext(i) \/ DrainTimesOut(i)
  PROVE  QueueInv'
<1>1. /\ QueueInv /\ channel \in [Instances -> Seq(Jobs \cup {Drain})] /\ job \in [Jobs -> Row]
      /\ worker \in [Instances -> Worker] /\ worker[i] \in Worker /\ HasBatch(worker[i])
  BY DEF QueueInv, TypeOK
<1>2. CASE Receive(i)
  <2> DEFINE n == Head(channel[i])
  <2>1. /\ channel[i] # <<>> /\ channel' = [channel EXCEPT ![i] = Tail(@)] /\ worker[i].pc = "idle"
        /\ UNCHANGED <<backend, created, notifying, redis, crashes>>
        /\ \/ worker' = [worker EXCEPT ![i].pc = "list"] /\ UNCHANGED job
           \/ n # Drain /\ Claim(n) /\ UNCHANGED worker
           \/ UNCHANGED <<worker, job>>
    BY <1>2 DEF Receive
  <2>2. n \in Jobs \cup {Drain} /\ Tail(channel[i]) \in Seq(Jobs \cup {Drain}) BY <1>1, <2>1
  <2>3. channel' \in [Instances -> Seq(Jobs \cup {Drain})] BY <1>1, <2>1, <2>2
  <2> HIDE DEF n
  <2>4. job' \in [Jobs -> Row] BY <1>1, <2>1, <2>2, ClaimFits
  <2>5. worker' = worker \/ worker' = [worker EXCEPT ![i].pc = "list"] BY <2>1
  <2>6. CASE worker' = worker BY <2>1, <2>3, <2>4, <2>6 DEF QueueInv, TypeOK, HasBatch
  <2>7. CASE worker' = [worker EXCEPT ![i].pc = "list"]
    <3> DEFINE w == [worker[i] EXCEPT !.pc = "list"]
    <3>1. w \in Worker /\ w.pc = "list" BY <1>1 DEF Worker
    <3>2. worker' = [worker EXCEPT ![i] = w] BY <2>7
    <3> HIDE DEF w
    <3>3. HasBatch(w) BY <3>1 DEF HasBatch
    <3> QED BY <2>1, <2>3, <2>4, <3>1, <3>2, <3>3, WorkerFits
  <2> QED BY <2>5, <2>6, <2>7
<1>3. CASE ClaimNext(i)
  <2> DEFINE w == worker[i]
             j == Head(w.batch)
  <2>1. w.pc = "claim" /\ w.batch # <<>> /\ w.batch \in Seq(Jobs) /\ w.recovered \in Nat
    BY <1>1, <1>3 DEF ClaimNext, HasBatch, Worker
  <2>2. j \in Jobs /\ Tail(w.batch) \in Seq(Jobs) /\ Len(Tail(w.batch)) = Len(w.batch) - 1
        /\ Len(w.batch) \in Nat
    BY <2>1
  <2>3. ASSUME NEW k \in {0, 1} PROVE AfterClaim(w, k) \in Worker /\ HasBatch(AfterClaim(w, k))
    <3>1. CASE Len(w.batch) > 1
      <4> DEFINE v == [w EXCEPT !.batch = Tail(@), !.recovered = @ + k]
      <4>1. w.recovered + k \in Nat BY <2>1
      <4>2. v \in Worker BY <1>1, <2>2, <4>1 DEF Worker
      <4>3. v.batch = Tail(w.batch) BY <1>1 DEF Worker
      <4>4. v.batch # <<>>
        <5> HIDE DEF v, w
        <5> DEFINE n == Len(w.batch)
        <5>5. n \in Nat /\ n > 1 BY <2>2, <3>1
        <5> HIDE DEF n
        <5>6. n - 1 # 0 BY <5>5
        <5>1. Len(w.batch) - 1 # 0 BY <5>6 DEF n
        <5>2. Len(Tail(w.batch)) # 0 BY <2>2, <5>1
        <5>3. Len(<<>>) = 0 OBVIOUS
        <5>4. Tail(w.batch) # <<>> BY <5>2, <5>3, Zenon
        <5> QED BY <4>3, <5>4
      <4>5. AfterClaim(w, k) = v BY <3>1 DEF AfterClaim
      <4> HIDE DEF v
      <4> QED BY <4>2, <4>4, <4>5 DEF HasBatch
    <3>2. CASE ~(Len(w.batch) > 1)
      <4>1. <<>> \in Seq(Jobs) OBVIOUS
      <4>2. PICK pc \in {"idle", "list"} : AfterClaim(w, k) = [IdleWorker EXCEPT !.pc = pc]
        BY <3>2 DEF AfterClaim
      <4>3. [IdleWorker EXCEPT !.pc = pc] = [pc |-> pc, batch |-> <<>>, recovered |-> 0]
        BY DEF IdleWorker
      <4> HIDE DEF w
      <4>4. [pc |-> pc, batch |-> <<>>, recovered |-> 0] \in Worker BY <4>1 DEF Worker
      <4>5. HasBatch([pc |-> pc, batch |-> <<>>, recovered |-> 0]) BY DEF HasBatch
      <4> QED BY <4>2, <4>3, <4>4, <4>5
    <3> QED BY <3>1, <3>2
  <2>4. PICK k \in {0, 1} : /\ worker' = [worker EXCEPT ![i] = AfterClaim(@, k)]
                            /\ Claim(j) \/ UNCHANGED job
    BY <1>3 DEF ClaimNext
  <2>5. job' \in [Jobs -> Row] BY <1>1, <2>2, <2>4, ClaimFits
  <2>6. channel' = channel /\ UNCHANGED <<backend, created, notifying, redis, crashes>> BY <1>3 DEF ClaimNext
  <2>7. worker' = [worker EXCEPT ![i] = AfterClaim(w, k)] BY <2>4
  <2> HIDE DEF w, j
  <2> QED BY <1>1, <2>3, <2>5, <2>6, <2>7, WorkerFits
<1>4. CASE DrainTimesOut(i)
  <2>1. IdleWorker \in Worker /\ HasBatch(IdleWorker)
    <3>1. <<>> \in Seq(Jobs) OBVIOUS
    <3> QED BY <3>1 DEF IdleWorker, Worker, HasBatch
  <2>2. /\ worker' = [worker EXCEPT ![i] = IdleWorker] /\ channel' = channel /\ job' = job
        /\ UNCHANGED <<backend, created, notifying, redis, crashes>>
    BY <1>4 DEF DrainTimesOut
  <2> QED BY <1>1, <2>1, <2>2, WorkerFits
<1> QED BY <1>2, <1>3, <1>4

\* A drain lists the oldest rows, and one of them at least when it found some.
LEMMA ListFits ==
  ASSUME QueueInv, NEW i \in Instances, ListQueued(i)
  PROVE  QueueInv'
<1> DEFINE found == {k \in DOMAIN created : Claimable(created[k])}
           oldest == {k \in found : Cardinality({l \in found : l < k}) < BatchSize}
<1>1. /\ QueueInv /\ channel \in [Instances -> Seq(Jobs \cup {Drain})] /\ job \in [Jobs -> Row]
      /\ created \in Seq(Jobs)
      /\ UNCHANGED <<backend, job, created, notifying, redis, channel, crashes>>
  BY DEF QueueInv, TypeOK, ListQueued
<1>2. PICK row \in SetToSeqs(oldest) :
        worker' = [worker EXCEPT ![i] =
          IF oldest = {} THEN IdleWorker
          ELSE [pc |-> "claim", batch |-> [r \in DOMAIN row |-> created[row[r]]], recovered |-> 0]]
  BY DEF ListQueued
<1>3. Len(created) \in Nat /\ DOMAIN created = 1..Len(created)
      /\ oldest \subseteq 1..Len(created) /\ \A k \in 1..Len(created) : created[k] \in Jobs
  BY <1>1
<1> HIDE DEF oldest
<1>4. IsFiniteSet(oldest)
  <2>1. IsFiniteSet(1..Len(created)) BY <1>3, FS_Interval
  <2> QED BY <1>3, <2>1, FS_Subset
<1> DEFINE N == Cardinality(oldest)
           batch == [r \in DOMAIN row |-> created[row[r]]]
           w == IF oldest = {} THEN IdleWorker ELSE [pc |-> "claim", batch |-> batch, recovered |-> 0]
<1>5. N \in Nat /\ (oldest # {} => N # 0) BY <1>4, FS_CardinalityType, FS_EmptySet
<1>6. row \in [1..N -> oldest] BY DEF SetToSeqs
<1> HIDE DEF N
<1>7. batch \in Seq(Jobs) /\ Len(batch) = N
  <2>1. \A r \in 1..N : created[row[r]] \in Jobs BY <1>3, <1>6
  <2>2. batch = [r \in 1..N |-> created[row[r]]] BY <1>6
  <2>3. batch \in [1..N -> Jobs] BY <2>1, <2>2
  <2> HIDE DEF batch
  <2> QED BY <1>5, <2>3
<1>8. oldest # {} => batch # <<>>
  <2> HIDE DEF batch
  <2>1. batch = <<>> => Len(batch) = 0 OBVIOUS
  <2> QED BY <1>5, <1>7, <2>1
<1>9. w \in Worker /\ HasBatch(w)
  <2> HIDE DEF batch
  <2>1. <<>> \in Seq(Jobs) OBVIOUS
  <2> QED BY <1>7, <1>8, <2>1 DEF Worker, HasBatch, IdleWorker
<1>10. worker' = [worker EXCEPT ![i] = w] BY <1>2
<1> HIDE DEF w
<1> QED BY <1>1, <1>9, <1>10, WorkerFits

\* A worker that claims has a row to claim.
THEOREM QueueHolds == Spec => []QueueInv
<1>1. Init => QueueInv
  <2> SUFFICES ASSUME Init PROVE QueueInv OBVIOUS
  <2>1. IdleWorker \in Worker /\ HasBatch(IdleWorker) /\ NoRow \in Row
    <3>1. <<>> \in Seq(Jobs) OBVIOUS
    <3> QED BY <3>1 DEF IdleWorker, Worker, HasBatch, NoRow, Row
  <2>2. <<>> \in Seq(Jobs) /\ <<>> \in Seq(Jobs \cup {Drain}) /\ 0 \in 0..MaxCrashes
    BY JobQueueAssumption
  <2>3. TypeOK BY <2>1, <2>2 DEF Init, TypeOK
  <2>4. \A i \in Instances : worker[i] = IdleWorker BY DEF Init
  <2> QED BY <2>1, <2>3, <2>4 DEF QueueInv
<1>2. QueueInv /\ [Next]_vars => QueueInv'
  <2> SUFFICES ASSUME QueueInv, [Next]_vars PROVE QueueInv' OBVIOUS
  <2>1. CASE UNCHANGED vars BY <2>1 DEF vars, QueueInv, TypeOK, HasBatch
  <2>2. ASSUME NEW j \in Jobs,
               \/ SaveQueued(j) \/ SaveRefused(j) \/ SaveWaiting(j) \/ EndWaiting(j) \/ Leave(j)
               \/ LeaseRunsOut(j)
               \/ \E i \in Instances : NotifyJob(j, i)
        PROVE  QueueInv'
    BY <2>2, SavesAndNotifies
  <2>3. ASSUME NEW i \in Instances, Wake(i) \/ Pop(i) \/ Crash(i) PROVE QueueInv' BY <2>3, QueueMoves
  <2>4. ASSUME NEW i \in Instances, Receive(i) \/ ClaimNext(i) \/ DrainTimesOut(i) PROVE QueueInv'
    BY <2>4, WorkerGoes
  <2>5. ASSUME NEW i \in Instances, ListQueued(i) PROVE QueueInv' BY <2>5, ListFits
  <2> QED BY <2>1, <2>2, <2>3, <2>4, <2>5 DEF Next
<1> QED BY <1>1, <1>2, PTL DEF Spec

\* The values of the variables of the queue.
THEOREM QueueTypes == Spec => []TypeOK
<1>1. QueueInv => TypeOK BY DEF QueueInv
<1> QED BY <1>1, QueueHolds, PTL

-----------------------------------------------------------------------------
(* The queue stays whole.                                                  *)

LEMMA AppendSet ==
  ASSUME NEW S, NEW s \in Seq(S), NEW x \in S
  PROVE  /\ ToSet(Append(s, x)) = ToSet(s) \cup {x} /\ Len(Append(s, x)) = Len(s) + 1
         /\ IsInjective(s) /\ x \notin ToSet(s) => IsInjective(Append(s, x))
<1> DEFINE a == Append(s, x)
<1>1. /\ Len(s) \in Nat /\ DOMAIN s = 1..Len(s) /\ Len(a) = Len(s) + 1
      /\ DOMAIN a = 1..(Len(s) + 1) /\ a[Len(s) + 1] = x
      /\ \A k \in 1..Len(s) : a[k] = s[k]
  OBVIOUS
<1> HIDE DEF a
<1>2. ToSet(a) = ToSet(s) \cup {x}
  <2>1. ASSUME NEW y \in ToSet(a) PROVE y \in ToSet(s) \cup {x}
    <3>1. PICK k \in 1..(Len(s) + 1) : y = a[k] BY <1>1, <2>1 DEF ToSet
    <3>2. k \in 1..Len(s) \/ k = Len(s) + 1 BY <1>1
    <3> QED BY <1>1, <3>1, <3>2 DEF ToSet
  <2>2. ASSUME NEW y \in ToSet(s) PROVE y \in ToSet(a)
    <3>1. PICK k \in 1..Len(s) : y = s[k] BY <1>1, <2>2 DEF ToSet
    <3>2. k \in 1..(Len(s) + 1) BY <1>1
    <3> QED BY <1>1, <3>1, <3>2 DEF ToSet
  <2>3. x \in ToSet(a)
    <3>1. Len(s) + 1 \in 1..(Len(s) + 1) BY <1>1
    <3> QED BY <1>1, <3>1 DEF ToSet
  <2> QED BY <2>1, <2>2, <2>3
<1>3. ASSUME IsInjective(s), x \notin ToSet(s),
             NEW k \in 1..(Len(s) + 1), NEW l \in 1..(Len(s) + 1), a[k] = a[l]
      PROVE  k = l
  <2>1. \A m \in 1..Len(s) : s[m] # x BY <1>1, <1>3 DEF ToSet
  <2>2. \A m \in 1..(Len(s) + 1) : m \in 1..Len(s) \/ m = Len(s) + 1 BY <1>1
  <2>3. \A m, n \in 1..Len(s) : s[m] = s[n] => m = n BY <1>1, <1>3 DEF IsInjective
  <2> QED BY <1>1, <1>3, <2>1, <2>2, <2>3
<1> QED BY <1>1, <1>2, <1>3 DEF a, IsInjective

LEMMA TailSet ==
  ASSUME NEW S, NEW s \in Seq(S), s # <<>>
  PROVE  /\ Head(s) \in ToSet(s) /\ ToSet(Tail(s)) \subseteq ToSet(s)
         /\ Len(Tail(s)) = Len(s) - 1 /\ Len(s) \in Nat \ {0} /\ Tail(s) \in Seq(S)
         /\ IsInjective(s) => IsInjective(Tail(s))
<1> DEFINE r == Tail(s)
<1>1. /\ Len(s) \in Nat \ {0} /\ DOMAIN s = 1..Len(s) /\ Len(r) = Len(s) - 1
      /\ DOMAIN r = 1..(Len(s) - 1) /\ \A k \in 1..(Len(s) - 1) : r[k] = s[k + 1]
      /\ Head(s) = s[1] /\ r \in Seq(S)
  OBVIOUS
<1> HIDE DEF r
<1>2. \A k \in 1..(Len(s) - 1) : k + 1 \in 1..Len(s) BY <1>1
<1>3. ToSet(r) \subseteq ToSet(s) BY <1>1, <1>2 DEF ToSet
<1>4. Head(s) \in ToSet(s)
  <2>1. 1 \in 1..Len(s) BY <1>1
  <2> QED BY <1>1, <2>1 DEF ToSet
<1>5. ASSUME IsInjective(s), NEW k \in 1..(Len(s) - 1), NEW l \in 1..(Len(s) - 1), r[k] = r[l]
      PROVE  k = l
  <2>1. k + 1 = l + 1 BY <1>1, <1>2, <1>5 DEF IsInjective
  <2> QED BY <2>1
<1> QED BY <1>1, <1>3, <1>4, <1>5 DEF r, IsInjective

\* What QueueIsWhole says of one instance, and of one row.
InstanceFits(i) ==
  /\ Known(channel[i]) /\ Len(channel[i]) <= ChannelSize
  /\ Known(worker[i].batch) /\ IsInjective(worker[i].batch)
  /\ Len(worker[i].batch) + worker[i].recovered <= BatchSize

ShowsClaim(r) == r.leased \/ r.executing => r.claimed

LEMMA WholeByParts ==
  QueueIsWhole <=>
    /\ IsInjective(created) /\ ToSet(created) = Rows
    /\ notifying \subseteq Rows /\ Known(redis)
    /\ \A i \in Instances : InstanceFits(i)
    /\ \A j \in Jobs : ShowsClaim(job[j])
BY DEF QueueIsWhole, InstanceFits, ShowsClaim

LEMMA EmptyFits ==
  /\ ToSet(<<>>) = {} /\ IsInjective(<<>>) /\ Len(<<>>) = 0
  /\ ToSet(<<Drain>>) = {Drain} /\ Len(<<Drain>>) = 1
BY DEF ToSet, IsInjective

WholeInv == QueueInv /\ QueueIsWhole

\* A row changes that was there and is there.
LEMMA RowsStayWhole ==
  ASSUME WholeInv, NEW j \in Jobs, NEW r \in Row, job' = [job EXCEPT ![j] = r],
         r.status = "none" <=> job[j].status = "none", ShowsClaim(r)
  PROVE  Rows' = Rows /\ \A k \in Jobs : ShowsClaim(job[k])'
BY DEF WholeInv, QueueInv, TypeOK, QueueIsWhole, Rows, ShowsClaim

LEMMA ClaimStaysWhole ==
  ASSUME WholeInv, NEW j \in Jobs, Claim(j)
  PROVE  Rows' = Rows /\ \A k \in Jobs : ShowsClaim(job[k])'
<1>1. job \in [Jobs -> Row] BY DEF WholeInv, QueueInv, TypeOK
<1> DEFINE r == [job[j] EXCEPT !.leased = TRUE, !.claimed = TRUE, !.executing = TRUE]
<1>2. r \in Row /\ r.status = job[j].status /\ ShowsClaim(r) BY <1>1 DEF Row, ShowsClaim
<1>3. job' = [job EXCEPT ![j] = r] BY <1>1 DEF Claim, Row
<1> HIDE DEF r
<1> QED BY <1>2, <1>3, RowsStayWhole

\* What stays as it is when no row comes.
LEMMA WholeFrame ==
  ASSUME WholeInv, Rows' = Rows, \A k \in Jobs : ShowsClaim(job[k])', created' = created,
         notifying' \subseteq notifying, Known(redis)', \A i \in Instances : InstanceFits(i)'
  PROVE  QueueIsWhole'
<1>1. IsInjective(created)' /\ ToSet(created)' = Rows' /\ notifying' \subseteq Rows'
  BY DEF WholeInv, QueueIsWhole
<1> QED BY <1>1 DEF QueueIsWhole, InstanceFits, ShowsClaim

\* An instance whose channel and worker stay, or change as they should.
LEMMA OneInstance ==
  ASSUME WholeInv, Rows' = Rows, NEW i \in Instances,
         \A k \in Instances \ {i} : channel'[k] = channel[k] /\ worker'[k] = worker[k],
         InstanceFits(i)'
  PROVE  \A k \in Instances : InstanceFits(k)'
<1>1. \A k \in Instances \ {i} : InstanceFits(k)
  BY DEF WholeInv, QueueIsWhole, InstanceFits
<1>2. ASSUME NEW k \in Instances \ {i} PROVE InstanceFits(k)'
  BY <1>1, <1>2 DEF InstanceFits, Known
<1> QED BY <1>2

\* Rows that change, and rows that come.
LEMMA RowsWhole ==
  ASSUME WholeInv, NEW j \in Jobs,
         \/ SaveQueued(j) \/ SaveRefused(j) \/ SaveWaiting(j) \/ EndWaiting(j) \/ Leave(j)
         \/ LeaseRunsOut(j)
  PROVE  QueueIsWhole'
<1>1. job \in [Jobs -> Row] /\ job[j] \in Row /\ ShowsClaim(job[j]) /\ created \in Seq(Jobs)
  BY DEF WholeInv, QueueInv, TypeOK, QueueIsWhole, ShowsClaim
<1>2. LeftRow \in Row /\ LeftRow.status = "left" /\ ShowsClaim(LeftRow)
  BY DEF LeftRow, NoRow, Row, ShowsClaim
<1>3. CASE SaveQueued(j) \/ SaveRefused(j)
  <2> DEFINE q == [job[j] EXCEPT !.status = "queued"]
  <2>1. q \in Row /\ q.status = "queued" /\ ShowsClaim(q) BY <1>1 DEF Row, ShowsClaim
  <2>2. job' = [job EXCEPT ![j] = q] \/ job' = [job EXCEPT ![j] = LeftRow]
    BY <1>3 DEF SaveQueued, SaveRefused
  <2> HIDE DEF q
  <2>3. PICK r \in Row : job' = [job EXCEPT ![j] = r] /\ r.status # "none" /\ ShowsClaim(r)
    BY <1>2, <2>1, <2>2
  <2>4. /\ job[j].status = "none" /\ created' = Append(created, j)
        /\ notifying' = notifying \cup {j} /\ UNCHANGED <<redis, channel, worker>>
    BY <1>3 DEF SaveQueued, SaveRefused
  <2>5. Rows' = Rows \cup {j} /\ j \notin Rows BY <1>1, <2>3, <2>4 DEF Rows
  <2>6. \A k \in Jobs : ShowsClaim(job[k])'
    BY <1>1, <2>3 DEF WholeInv, QueueIsWhole, ShowsClaim
  <2>7. IsInjective(created') /\ ToSet(created') = Rows'
    BY <1>1, <2>4, <2>5, AppendSet DEF WholeInv, QueueIsWhole
  <2>8. notifying' \subseteq Rows' /\ Known(redis)'
    BY <2>4, <2>5 DEF WholeInv, QueueIsWhole, Known
  <2>9. ASSUME NEW i \in Instances PROVE InstanceFits(i)'
    <3>1. InstanceFits(i) BY DEF WholeInv, QueueIsWhole, InstanceFits
    <3> QED BY <2>4, <2>5, <3>1 DEF InstanceFits, Known
  <2> QED BY <2>6, <2>7, <2>8, <2>9 DEF QueueIsWhole, InstanceFits, ShowsClaim
<1>4. CASE SaveWaiting(j) \/ LeaseRunsOut(j) \/ EndWaiting(j) \/ Leave(j)
  <2> DEFINE q == [job[j] EXCEPT !.leased = FALSE]
  <2>1. q \in Row /\ q.status = job[j].status /\ ShowsClaim(q) BY <1>1 DEF Row, ShowsClaim
  <2>2. \/ job' = [job EXCEPT ![j] = q]
        \/ job' = [job EXCEPT ![j] = LeftRow] /\ job[j].status = "queued"
    BY <1>4 DEF SaveWaiting, LeaseRunsOut, EndWaiting, Leave
  <2> HIDE DEF q
  <2>3. Rows' = Rows /\ \A k \in Jobs : ShowsClaim(job[k])'
    BY <1>2, <2>1, <2>2, RowsStayWhole
  <2>4. UNCHANGED <<created, notifying, redis, channel, worker>>
    BY <1>4 DEF SaveWaiting, LeaseRunsOut, EndWaiting, Leave
  <2>5. \A i \in Instances : InstanceFits(i)'
    BY <2>3, <2>4 DEF WholeInv, QueueIsWhole, InstanceFits, Known
  <2>6. Known(redis)' BY <2>3, <2>4 DEF WholeInv, QueueIsWhole, Known
  <2> QED BY <2>3, <2>4, <2>5, <2>6, WholeFrame
<1> QED BY <1>3, <1>4

\* A notification that is dropped or comes last.
LEMMA NotificationIsKnown ==
  ASSUME WholeInv, NEW i \in Instances, NEW n \in Rows \cup {Drain}, NotifyLocal(i, n),
         Rows' = Rows, worker' = worker
  PROVE  \A k \in Instances : InstanceFits(k)'
<1>1. /\ channel \in [Instances -> Seq(Jobs \cup {Drain})] /\ InstanceFits(i)
      /\ n \in Jobs \cup {Drain}
  BY DEF WholeInv, QueueInv, TypeOK, QueueIsWhole, InstanceFits, Rows
<1> DEFINE s == channel[i]
<1>2. s \in Seq(Jobs \cup {Drain}) /\ Len(s) \in Nat BY <1>1
<1>3. /\ \A k \in Instances \ {i} : channel'[k] = channel[k] /\ worker'[k] = worker[k]
      /\ channel'[i] = s \/ (Len(s) < ChannelSize /\ channel'[i] = Append(s, n))
  BY <1>1 DEF NotifyLocal
<1>4. ToSet(Append(s, n)) = ToSet(s) \cup {n} /\ Len(Append(s, n)) = Len(s) + 1
  BY <1>1, <1>2, AppendSet
<1>5. Known(channel[i])'
  <2>1. CASE channel'[i] = s BY <1>1, <2>1 DEF InstanceFits, Known
  <2>2. CASE channel'[i] = Append(s, n)
    <3> HIDE DEF s
    <3>1. ToSet(s) \ {Drain} \subseteq Rows BY <1>1 DEF InstanceFits, Known, s
    <3> QED BY <1>4, <2>2, <3>1 DEF Known
  <2> QED BY <1>3, <2>1, <2>2
<1>6. Len(channel'[i]) <= ChannelSize
  BY <1>1, <1>2, <1>3, <1>4, JobQueueAssumption DEF InstanceFits
<1>7. InstanceFits(i)' BY <1>1, <1>5, <1>6 DEF InstanceFits, Known
<1> QED BY <1>3, <1>7, OneInstance

\* Requests notify, ticks come, the Redis list is read, and processes crash.
LEMMA MovesWhole ==
  ASSUME WholeInv, NEW i \in Instances,
         Wake(i) \/ Pop(i) \/ Crash(i) \/ \E j \in Jobs : NotifyJob(j, i)
  PROVE  QueueIsWhole'
<1>1. /\ redis \in Seq(Jobs) /\ channel \in [Instances -> Seq(Jobs \cup {Drain})]
      /\ Known(redis) /\ notifying \subseteq Rows /\ InstanceFits(i)
      /\ worker \in [Instances -> Worker] /\ job \in [Jobs -> Row]
      /\ \A k \in Jobs : ShowsClaim(job[k])
      /\ \A k \in Instances : InstanceFits(k)
  BY DEF WholeInv, QueueInv, TypeOK, QueueIsWhole, InstanceFits, ShowsClaim
<1>2. CASE Wake(i)
  <2>1. /\ NotifyLocal(i, Drain) /\ redis' = redis
        /\ UNCHANGED <<job, created, notifying, worker>>
    BY <1>2 DEF Wake, NotifyLocal
  <2>2. Rows' = Rows /\ Known(redis)' /\ \A k \in Jobs : ShowsClaim(job[k])'
    BY <1>1, <2>1 DEF Rows, Known
  <2>3. \A k \in Instances : InstanceFits(k)' BY <2>1, <2>2, NotificationIsKnown
  <2> QED BY <2>1, <2>2, <2>3, WholeFrame
<1>3. CASE Pop(i)
  <2> DEFINE n == Head(redis)
  <2>1. redis # <<>> /\ redis' = Tail(redis) /\ UNCHANGED <<job, created, notifying, worker>>
    BY <1>3 DEF Pop
  <2>2. n \in ToSet(redis) /\ ToSet(Tail(redis)) \subseteq ToSet(redis)
    BY <1>1, <2>1, TailSet
  <2>3. Rows' = Rows /\ Known(redis)' /\ \A k \in Jobs : ShowsClaim(job[k])'
    BY <1>1, <2>1, <2>2 DEF Rows, Known
  <2>4. n \in Rows \cup {Drain} BY <1>1, <2>2 DEF Known
  <2>5. /\ InstanceFits(i) /\ channel[i] \in Seq(Jobs \cup {Drain}) /\ n \in Jobs \cup {Drain}
        /\ Len(channel[i]) \in Nat
    BY <1>1, <2>4 DEF Rows
  <2>6. /\ \A k \in Instances \ {i} : channel'[k] = channel[k] /\ worker'[k] = worker[k]
        /\ \/ channel'[i] = channel[i]
           \/ Len(channel[i]) < ChannelSize /\ channel'[i] = Append(channel[i], n)
    BY <1>1, <1>3, <2>1 DEF Pop
  <2> HIDE DEF n
  <2>7. /\ ToSet(Append(channel[i], n)) = ToSet(channel[i]) \cup {n}
        /\ Len(Append(channel[i], n)) = Len(channel[i]) + 1
    BY <2>5, AppendSet
  <2>8. Known(channel[i])' BY <2>3, <2>4, <2>5, <2>6, <2>7 DEF InstanceFits, Known
  <2>9. Len(channel'[i]) <= ChannelSize
    BY <2>5, <2>6, <2>7, JobQueueAssumption DEF InstanceFits
  <2>10. InstanceFits(i)' BY <2>1, <2>3, <2>5, <2>8, <2>9 DEF InstanceFits, Known
  <2>11. \A k \in Instances : InstanceFits(k)' BY <2>3, <2>6, <2>10, OneInstance
  <2> QED BY <2>1, <2>3, <2>11, WholeFrame
<1>4. CASE Crash(i)
  <2>1. PICK dead \in SUBSET Jobs :
          /\ notifying' = notifying \ dead
          /\ job' = [j \in Jobs |-> IF j \in dead THEN [job[j] EXCEPT !.executing = FALSE] ELSE job[j]]
    BY <1>4 DEF Crash
  <2>2. \A j \in Jobs : /\ job'[j].status = job[j].status
                        /\ ShowsClaim(job'[j])
    <3> SUFFICES ASSUME NEW j \in Jobs
                 PROVE  job'[j].status = job[j].status /\ ShowsClaim(job'[j])
      OBVIOUS
    <3>1. job[j] \in Row /\ ShowsClaim(job[j]) BY <1>1
    <3> DEFINE q == [job[j] EXCEPT !.executing = FALSE]
    <3>2. q.status = job[j].status /\ ShowsClaim(q) BY <3>1 DEF Row, ShowsClaim
    <3>3. job'[j] = q \/ job'[j] = job[j] BY <2>1
    <3> HIDE DEF q
    <3> QED BY <3>1, <3>2, <3>3
  <2>3. /\ UNCHANGED <<created, redis>> /\ channel' = [channel EXCEPT ![i] = <<Drain>>]
        /\ worker' = [worker EXCEPT ![i] = IdleWorker]
    BY <1>4 DEF Crash
  <2>4. Rows' = Rows BY <2>2 DEF Rows
  <2>5. Known(redis)' BY <1>1, <2>3, <2>4 DEF Known
  <2>6. IdleWorker.batch = <<>> /\ IdleWorker.recovered = 0 BY DEF IdleWorker
  <2>7. channel'[i] = <<Drain>> /\ worker'[i] = IdleWorker
        /\ \A k \in Instances \ {i} : channel'[k] = channel[k] /\ worker'[k] = worker[k]
    BY <1>1, <2>3
  <2>8. InstanceFits(i)'
    BY <2>6, <2>7, EmptyFits, JobQueueAssumption DEF InstanceFits, Known
  <2>9. \A k \in Instances : InstanceFits(k)' BY <2>4, <2>7, <2>8, OneInstance
  <2>10. \A k \in Jobs : ShowsClaim(job[k])' BY <2>2 DEF ShowsClaim
  <2> QED BY <2>1, <2>3, <2>4, <2>5, <2>9, <2>10, WholeFrame
<1>5. ASSUME NEW j \in Jobs, NotifyJob(j, i) PROVE QueueIsWhole'
  <2>1. /\ j \in notifying /\ notifying' = notifying \ {j} /\ UNCHANGED <<job, created, worker>>
        /\ \/ NotifyLocal(i, j) /\ redis' = redis
           \/ redis' = Append(redis, j) /\ UNCHANGED channel
           \/ NotifyLocal(i, Drain) /\ redis' = redis
    BY <1>5 DEF NotifyJob, NotifyRedis, NotifyLocal
  <2>2. j \in Rows /\ Rows' = Rows /\ \A k \in Jobs : ShowsClaim(job[k])'
    BY <1>1, <2>1 DEF Rows
  <2>3. Known(redis)' /\ \A k \in Instances : InstanceFits(k)'
    <3>1. CASE redis' = redis /\ (NotifyLocal(i, j) \/ NotifyLocal(i, Drain))
      <4>1. Known(redis)' BY <1>1, <2>2, <3>1 DEF Known
      <4> QED BY <2>1, <2>2, <3>1, <4>1, NotificationIsKnown
    <3>2. CASE redis' = Append(redis, j) /\ UNCHANGED channel
      <4>1. ToSet(redis') = ToSet(redis) \cup {j} BY <1>1, <3>2, AppendSet
      <4>2. Known(redis)' BY <1>1, <2>2, <4>1 DEF Known
      <4>3. \A k \in Instances : InstanceFits(k)'
        BY <1>1, <2>1, <2>2, <3>2 DEF InstanceFits, Known
      <4> QED BY <4>2, <4>3
    <3> QED BY <2>1, <3>1, <3>2
  <2>4. notifying' \subseteq notifying BY <2>1
  <2> QED BY <2>1, <2>2, <2>3, <2>4, WholeFrame
<1> QED BY <1>2, <1>3, <1>4, <1>5

\* A worker that goes on with a batch it should have, or with none.
LEMMA WorkerStaysWhole ==
  ASSUME WholeInv, NEW i \in Instances, NEW w \in Worker,
         ToSet(w.batch) \ {Drain} \subseteq Rows, IsInjective(w.batch),
         Len(w.batch) + w.recovered <= BatchSize,
         worker' = [worker EXCEPT ![i] = w], Rows' = Rows,
         \A k \in Jobs : ShowsClaim(job[k])',
         \/ channel' = channel
         \/ channel[i] # <<>> /\ channel' = [channel EXCEPT ![i] = Tail(@)],
         UNCHANGED <<created, notifying, redis>>
  PROVE  QueueIsWhole'
<1>1. /\ channel \in [Instances -> Seq(Jobs \cup {Drain})] /\ InstanceFits(i)
      /\ worker \in [Instances -> Worker] /\ Known(redis)
  BY DEF WholeInv, QueueInv, TypeOK, QueueIsWhole, InstanceFits
<1> DEFINE s == channel[i]
<1>2. \A k \in Instances \ {i} : channel'[k] = channel[k] /\ worker'[k] = worker[k]
  BY <1>1
<1>3. worker'[i] = w BY <1>1
<1>4. s \in Seq(Jobs \cup {Drain}) /\ Len(s) \in Nat BY <1>1
<1>5. s # <<>> => ToSet(Tail(s)) \subseteq ToSet(s) /\ Len(Tail(s)) = Len(s) - 1
  BY <1>4, TailSet
<1>6. ToSet(s) \ {Drain} \subseteq Rows /\ Len(s) <= ChannelSize
  BY <1>1 DEF InstanceFits, Known
<1>7. channel'[i] = s \/ (s # <<>> /\ channel'[i] = Tail(s)) BY <1>1
<1> HIDE DEF s
<1>8. ToSet(channel'[i]) \ {Drain} \subseteq Rows /\ Len(channel'[i]) <= ChannelSize
  <2>1. CASE channel'[i] = s BY <1>6, <2>1
  <2>2. CASE s # <<>> /\ channel'[i] = Tail(s)
    <3>1. ToSet(channel'[i]) \ {Drain} \subseteq Rows BY <1>5, <1>6, <2>2
    <3>2. Len(channel'[i]) = Len(s) - 1 BY <1>5, <2>2
    <3>3. Len(s) - 1 <= ChannelSize BY <1>4, <1>6, JobQueueAssumption
    <3> QED BY <3>1, <3>2, <3>3
  <2> QED BY <1>7, <2>1, <2>2
<1>9. InstanceFits(i)' BY <1>3, <1>8 DEF InstanceFits, Known
<1>10. \A k \in Instances : InstanceFits(k)' BY <1>2, <1>9, OneInstance
<1>11. Known(redis)' BY <1>1 DEF Known
<1> QED BY <1>10, <1>11, WholeFrame

\* A worker takes its notifications and claims the rows of its batch.
LEMMA WorkerWhole ==
  ASSUME WholeInv, NEW i \in Instances, Receive(i) \/ ClaimNext(i) \/ DrainTimesOut(i)
  PROVE  QueueIsWhole'
<1> DEFINE w == worker[i]
<1>1. /\ channel \in [Instances -> Seq(Jobs \cup {Drain})] /\ worker \in [Instances -> Worker]
      /\ w \in Worker /\ HasBatch(w) /\ InstanceFits(i)
      /\ \A k \in Jobs : ShowsClaim(job[k])
  BY DEF WholeInv, QueueInv, TypeOK, QueueIsWhole, InstanceFits, ShowsClaim
<1>2. /\ w.batch \in Seq(Jobs) /\ w.recovered \in Nat /\ Len(w.batch) \in Nat
      /\ ToSet(w.batch) \ {Drain} \subseteq Rows /\ IsInjective(w.batch)
      /\ Len(w.batch) + w.recovered <= BatchSize
  BY <1>1 DEF Worker, InstanceFits, Known
<1>3. ASSUME NEW pc \in {"idle", "list"}
      PROVE  LET v == [pc |-> pc, batch |-> <<>>, recovered |-> 0]
             IN  /\ v \in Worker /\ ToSet(v.batch) \ {Drain} \subseteq Rows
                 /\ IsInjective(v.batch) /\ Len(v.batch) + v.recovered <= BatchSize
  <2>1. <<>> \in Seq(Jobs) OBVIOUS
  <2>2. [pc |-> pc, batch |-> <<>>, recovered |-> 0] \in Worker BY <2>1 DEF Worker
  <2> QED BY <2>2, EmptyFits, JobQueueAssumption
<1>4. ASSUME UNCHANGED job PROVE Rows' = Rows /\ \A k \in Jobs : ShowsClaim(job[k])'
  BY <1>1, <1>4 DEF Rows
<1>5. CASE Receive(i)
  <2> DEFINE n == Head(channel[i])
             v == [w EXCEPT !.pc = "list"]
  <2>1. /\ channel[i] # <<>> /\ channel' = [channel EXCEPT ![i] = Tail(@)]
        /\ UNCHANGED <<created, notifying, redis>>
        /\ \/ worker' = [worker EXCEPT ![i] = v] /\ UNCHANGED job
           \/ n # Drain /\ Claim(n) /\ UNCHANGED worker
           \/ UNCHANGED <<worker, job>>
    BY <1>5 DEF Receive
  <2>2. n \in Jobs \cup {Drain} BY <1>1, <2>1
  <2>3. v \in Worker /\ v.batch = w.batch /\ v.recovered = w.recovered BY <1>1 DEF Worker
  <2>4. worker' = worker => worker' = [worker EXCEPT ![i] = w] BY <1>1
  <2>5. PICK u \in {v, w} : worker' = [worker EXCEPT ![i] = u] BY <2>1, <2>4
  <2>6. u \in Worker /\ u.batch = w.batch /\ u.recovered = w.recovered BY <1>1, <2>3, <2>5
  <2>7. Rows' = Rows /\ \A k \in Jobs : ShowsClaim(job[k])'
    <3> HIDE DEF n, v, w
    <3> QED BY <1>4, <2>1, <2>2, ClaimStaysWhole
  <2> HIDE DEF n, v, w
  <2> QED BY <1>2, <2>1, <2>5, <2>6, <2>7, WorkerStaysWhole
<1>6. CASE ClaimNext(i)
  <2> DEFINE j == Head(w.batch)
  <2>1. w.pc = "claim" /\ w.batch # <<>> BY <1>1, <1>6 DEF ClaimNext, HasBatch
  <2> DEFINE r == Tail(w.batch)
  <2>2. /\ j \in Jobs /\ r \in Seq(Jobs) /\ ToSet(r) \subseteq ToSet(w.batch)
        /\ Len(r) = Len(w.batch) - 1 /\ IsInjective(r)
    BY <1>2, <2>1, TailSet
  <2>3. PICK k \in {0, 1} : /\ worker' = [worker EXCEPT ![i] = AfterClaim(w, k)]
                            /\ Claim(j) \/ UNCHANGED job
    BY <1>6 DEF ClaimNext
  <2>4. UNCHANGED <<created, notifying, redis, channel>> BY <1>6 DEF ClaimNext
  <2>5. Rows' = Rows /\ \A l \in Jobs : ShowsClaim(job[l])'
    <3> HIDE DEF j
    <3> QED BY <1>4, <2>2, <2>3, ClaimStaysWhole
  <2>6. CASE Len(w.batch) > 1
    <3> DEFINE v == [w EXCEPT !.batch = Tail(@), !.recovered = @ + k]
    <3>1. AfterClaim(w, k) = v BY <2>6 DEF AfterClaim
    <3>2. w.recovered + k \in Nat BY <1>2
    <3>3. v \in Worker /\ v.batch = r /\ v.recovered = w.recovered + k
      BY <1>1, <2>2, <3>2 DEF Worker
    <3> HIDE DEF v, w, r
    <3>4. Len(r) + (w.recovered + k) <= BatchSize
      <4> DEFINE a == Len(w.batch)
                 c == w.recovered
      <4>1. a \in Nat /\ c \in Nat /\ a + c <= BatchSize /\ Len(r) = a - 1 /\ k \in {0, 1}
        BY <1>2, <2>2
      <4> HIDE DEF a, c
      <4>2. (a - 1) + (c + k) <= BatchSize BY <4>1, JobQueueAssumption
      <4> QED BY <4>1, <4>2 DEF c
    <3>5. ToSet(r) \ {Drain} \subseteq Rows BY <1>2, <2>2
    <3> QED BY <2>2, <2>3, <2>4, <2>5, <3>1, <3>3, <3>4, <3>5, WorkerStaysWhole
  <2>7. CASE ~(Len(w.batch) > 1)
    <3>1. PICK pc \in {"idle", "list"} : AfterClaim(w, k) = [IdleWorker EXCEPT !.pc = pc]
      BY <2>7 DEF AfterClaim
    <3>2. AfterClaim(w, k) = [pc |-> pc, batch |-> <<>>, recovered |-> 0]
      BY <3>1 DEF IdleWorker
    <3> DEFINE v == [pc |-> pc, batch |-> <<>>, recovered |-> 0]
    <3>3. /\ v \in Worker /\ ToSet(v.batch) \ {Drain} \subseteq Rows
          /\ IsInjective(v.batch) /\ Len(v.batch) + v.recovered <= BatchSize
      BY <1>3
    <3>4. worker' = [worker EXCEPT ![i] = v] BY <2>3, <3>2
    <3> HIDE DEF v, w
    <3> QED BY <2>4, <2>5, <3>3, <3>4, WorkerStaysWhole
  <2> QED BY <2>6, <2>7
<1>7. CASE DrainTimesOut(i)
  <2> DEFINE v == [pc |-> "idle", batch |-> <<>>, recovered |-> 0]
  <2>1. /\ v \in Worker /\ ToSet(v.batch) \ {Drain} \subseteq Rows
        /\ IsInjective(v.batch) /\ Len(v.batch) + v.recovered <= BatchSize
    BY <1>3
  <2>2. /\ worker' = [worker EXCEPT ![i] = v] /\ UNCHANGED job
        /\ UNCHANGED <<created, notifying, redis, channel>>
    BY <1>7 DEF DrainTimesOut, IdleWorker
  <2> HIDE DEF v
  <2> QED BY <1>4, <2>1, <2>2, WorkerStaysWhole
<1> QED BY <1>5, <1>6, <1>7

\* Those of a set that have fewer than b before them are at most b.
LEMMA FirstFew ==
  ASSUME NEW n \in Nat, NEW S \in SUBSET (1..n), NEW b \in Nat \ {0}
  PROVE  Cardinality({k \in S : Cardinality({l \in S : l < k}) < b}) <= b
<1> DEFINE Before(k) == {l \in S : l < k}
           F == {k \in S : Cardinality(Before(k)) < b}
<1>1. /\ IsFiniteSet(F) /\ \A k : IsFiniteSet(Before(k))
      /\ \A k : Cardinality(Before(k)) \in Nat
  <2>1. IsFiniteSet(1..n) BY FS_Interval
  <2>2. ASSUME NEW T \in SUBSET (1..n) PROVE IsFiniteSet(T) /\ Cardinality(T) \in Nat
    <3>1. IsFiniteSet(T) BY <2>1, FS_Subset
    <3> QED BY <3>1, FS_CardinalityType
  <2>3. F \in SUBSET (1..n) /\ \A k : Before(k) \in SUBSET (1..n) OBVIOUS
  <2> HIDE DEF F
  <2>4. IsFiniteSet(F) BY <2>2, <2>3
  <2>5. ASSUME NEW k PROVE IsFiniteSet(Before(k)) /\ Cardinality(Before(k)) \in Nat
    <3> DEFINE T == Before(k)
    <3>1. T \in SUBSET (1..n) BY <2>3
    <3> HIDE DEF T
    <3>2. IsFiniteSet(T) /\ Cardinality(T) \in Nat BY <2>2, <3>1
    <3> QED BY <3>2 DEF T
  <2> QED BY <2>4, <2>5
<1>2. CASE F = {}
  <2>1. Cardinality({}) <= b BY FS_EmptySet
  <2> HIDE DEF F
  <2>2. Cardinality(F) <= b BY <1>2, <2>1
  <2> QED BY <2>2 DEF F
<1>3. CASE F # {}
  <2> DEFINE D == {n - k : k \in F}
  <2>1. D \subseteq Nat /\ D # {}
    <3>1. F \subseteq 1..n OBVIOUS
    <3>2. PICK k \in F : TRUE BY <1>3
    <3> HIDE DEF F
    <3>3. \A l \in F : n - l \in Nat BY <3>1
    <3>4. n - k \in D BY <3>2
    <3> QED BY <3>3, <3>4
  <2>2. PICK d \in D : \A e \in D : d <= e
    <3> HIDE DEF D
    <3> QED BY <2>1, Least
  <2>3. PICK m \in F : d = n - m BY <2>2
  <2>4. ASSUME NEW k \in F PROVE k <= m
    <3>1. n - k \in D BY <2>4
    <3>2. n - m <= n - k BY <2>2, <2>3, <3>1
    <3>3. k \in Nat /\ m \in Nat BY <2>3, <2>4
    <3> HIDE DEF F, D
    <3> QED BY <3>2, <3>3
  <2>5. F \ {m} \subseteq Before(m)
    <3>1. F \subseteq S /\ \A k \in F : k \in Nat OBVIOUS
    <3> HIDE DEF F
    <3>2. \A k \in F \ {m} : k < m BY <2>3, <2>4, <3>1
    <3> QED BY <3>1, <3>2
  <2>6. Cardinality(Before(m)) < b BY <2>3
  <2> HIDE DEF F, Before
  <2>7. /\ Cardinality(F \ {m}) = Cardinality(F) - 1 /\ Cardinality(F) \in Nat
        /\ Cardinality(F \ {m}) <= Cardinality(Before(m))
    BY <1>1, <2>3, <2>5, FS_RemoveElement, FS_Subset, FS_CardinalityType
  <2>8. Cardinality(Before(m)) \in Nat BY <1>1
  <2>9. Cardinality(F) <= b BY <2>6, <2>7, <2>8
  <2> QED BY <2>9 DEF F, Before
<1> QED BY <1>2, <1>3

\* A drain lists each of the oldest rows once, and no more than a batch.
LEMMA ListWhole ==
  ASSUME WholeInv, NEW i \in Instances, ListQueued(i)
  PROVE  QueueIsWhole'
<1> DEFINE found == {k \in DOMAIN created : Claimable(created[k])}
           oldest == {k \in found : Cardinality({l \in found : l < k}) < BatchSize}
<1>1. /\ created \in Seq(Jobs) /\ IsInjective(created) /\ ToSet(created) = Rows
      /\ \A k \in Jobs : ShowsClaim(job[k])
      /\ UNCHANGED <<job, created, notifying, redis, channel>>
  BY DEF WholeInv, QueueInv, TypeOK, QueueIsWhole, ShowsClaim, ListQueued
<1>2. PICK row \in SetToSeqs(oldest) :
        worker' = [worker EXCEPT ![i] =
          IF oldest = {} THEN IdleWorker
          ELSE [pc |-> "claim", batch |-> [r \in DOMAIN row |-> created[row[r]]], recovered |-> 0]]
  BY DEF ListQueued
<1>3. Len(created) \in Nat /\ DOMAIN created = 1..Len(created)
      /\ oldest \subseteq 1..Len(created) /\ \A k \in 1..Len(created) : created[k] \in Jobs
  BY <1>1
<1>4. Cardinality(oldest) <= BatchSize
  <2>1. found \subseteq 1..Len(created) BY <1>3
  <2> HIDE DEF found
  <2> QED BY <1>3, <2>1, FirstFew, JobQueueAssumption
<1>5. IsFiniteSet(oldest)
  <2>1. IsFiniteSet(1..Len(created)) BY <1>3, FS_Interval
  <2> QED BY <1>3, <2>1, FS_Subset
<1> HIDE DEF oldest
<1> DEFINE N == Cardinality(oldest)
           batch == [r \in DOMAIN row |-> created[row[r]]]
           w == IF oldest = {} THEN IdleWorker ELSE [pc |-> "claim", batch |-> batch, recovered |-> 0]
<1>6. N \in Nat BY <1>5, FS_CardinalityType
<1>7. row \in [1..N -> oldest] /\ \A a, b \in 1..N : row[a] = row[b] => a = b
  BY DEF SetToSeqs
<1> HIDE DEF N
<1>8. /\ batch \in Seq(Jobs) /\ Len(batch) = N /\ IsInjective(batch)
      /\ ToSet(batch) \subseteq Rows
  <2>1. \A r \in 1..N : row[r] \in 1..Len(created) BY <1>3, <1>7
  <2>2. batch = [r \in 1..N |-> created[row[r]]] BY <1>7
  <2>3. batch \in [1..N -> Jobs] BY <1>3, <2>1, <2>2
  <2>4. DOMAIN batch = 1..N /\ \A r \in 1..N : batch[r] = created[row[r]] BY <2>2
  <2> HIDE DEF batch
  <2>5. batch \in Seq(Jobs) /\ Len(batch) = N BY <1>6, <2>3
  <2>6. IsInjective(batch) BY <1>1, <1>3, <1>7, <2>1, <2>4 DEF IsInjective
  <2>7. ToSet(batch) \subseteq ToSet(created) BY <1>3, <2>1, <2>4 DEF ToSet
  <2> QED BY <1>1, <2>5, <2>6, <2>7
<1>9. /\ w \in Worker /\ ToSet(w.batch) \subseteq Rows /\ IsInjective(w.batch)
      /\ Len(w.batch) + w.recovered <= BatchSize
  <2> HIDE DEF batch
  <2>1. <<>> \in Seq(Jobs) OBVIOUS
  <2>2. CASE oldest = {}
    BY <2>1, <2>2, EmptyFits, JobQueueAssumption DEF Worker, IdleWorker
  <2>3. CASE oldest # {}
    <3> DEFINE v == [pc |-> "claim", batch |-> batch, recovered |-> 0]
    <3>1. v \in Worker BY <1>8 DEF Worker
    <3>2. v.batch = batch /\ v.recovered = 0 /\ w = v BY <2>3
    <3> HIDE DEF v, w
    <3>3. Len(v.batch) + v.recovered <= BatchSize BY <1>4, <1>6, <1>8, <3>2 DEF N
    <3> QED BY <1>8, <3>1, <3>2, <3>3
  <2> QED BY <2>2, <2>3
<1>10. worker' = [worker EXCEPT ![i] = w] BY <1>2
<1> HIDE DEF w
<1>11. Rows' = Rows /\ \A k \in Jobs : ShowsClaim(job[k])' BY <1>1 DEF Rows
<1> QED BY <1>1, <1>9, <1>10, <1>11, WorkerStaysWhole

\* Whoever hears of a job finds its row, and no drain claims one twice or more
\* than a batch at a time (handleProviderImageGenerateSubmit, drain).
THEOREM QueueStaysWhole == Spec => []QueueIsWhole
<1>1. Init => QueueIsWhole
  <2> SUFFICES ASSUME Init PROVE QueueIsWhole OBVIOUS
  <2>1. Rows = {} BY DEF Init, Rows, NoRow
  <2>2. \A i \in Instances : channel[i] = <<>> /\ worker[i].batch = <<>> /\ worker[i].recovered = 0
    BY DEF Init, IdleWorker
  <2>3. \A j \in Jobs : ~job[j].leased /\ ~job[j].executing BY DEF Init, NoRow
  <2>4. created = <<>> /\ notifying = {} /\ redis = <<>> BY DEF Init
  <2>5. 0 <= ChannelSize /\ 0 + 0 <= BatchSize BY JobQueueAssumption
  <2> QED BY <2>1, <2>2, <2>3, <2>4, <2>5, EmptyFits DEF QueueIsWhole, Known
<1>2. QueueInv /\ QueueIsWhole /\ [Next]_vars => QueueIsWhole'
  <2> SUFFICES ASSUME QueueInv, QueueIsWhole, [Next]_vars PROVE QueueIsWhole' OBVIOUS
  <2>0. WholeInv BY DEF WholeInv
  <2>1. CASE UNCHANGED vars BY <2>1 DEF vars, QueueIsWhole, Known, Rows
  <2>2. ASSUME NEW j \in Jobs,
               \/ SaveQueued(j) \/ SaveRefused(j) \/ SaveWaiting(j) \/ EndWaiting(j) \/ Leave(j)
               \/ LeaseRunsOut(j)
        PROVE  QueueIsWhole'
    BY <2>0, <2>2, RowsWhole
  <2>3. ASSUME NEW i \in Instances,
               Wake(i) \/ Pop(i) \/ Crash(i) \/ \E j \in Jobs : NotifyJob(j, i)
        PROVE  QueueIsWhole'
    BY <2>0, <2>3, MovesWhole
  <2>4. ASSUME NEW i \in Instances, Receive(i) \/ ClaimNext(i) \/ DrainTimesOut(i)
        PROVE  QueueIsWhole'
    BY <2>0, <2>4, WorkerWhole
  <2>5. ASSUME NEW i \in Instances, ListQueued(i) PROVE QueueIsWhole' BY <2>0, <2>5, ListWhole
  <2> QED BY <2>1, <2>2, <2>3, <2>4, <2>5 DEF Next
<1> QED BY <1>1, <1>2, QueueHolds, PTL DEF Spec
=============================================================================
