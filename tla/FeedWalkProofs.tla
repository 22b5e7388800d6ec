--------------------------- MODULE FeedWalkProofs ---------------------------
(***************************************************************************)
(* Proofs about the feed walk, for every set of Reels, every document and  *)
(* response, and every limit of the walk.                                  *)
(***************************************************************************)
EXTENDS FeedWalk, SequenceTheorems, FiniteSetTheorems, NaturalsInduction,
        WellFoundedInduction, TLAPS

-----------------------------------------------------------------------------
(* Natural numbers, and functions defined by recursion on them *)

\* A set of natural numbers has a least one.
LEMMA Least ==
    ASSUME NEW T, T \subseteq Nat, T # {}
    PROVE  \E m \in T : \A k \in T : m <= k
<1> DEFINE R == OpToRel(<, Nat)
<1>1. IsWellFoundedOn(R, Nat)
  BY NatLessThanWellFounded
<1>2. R = {ss \in Nat \X Nat : ss[1] < ss[2]}
  BY DEF OpToRel
<1> HIDE DEF R
<1>3. PICK m \in T : \A k \in T : ~(<<k, m>> \in R)
  BY <1>1, WFMin
<1>4. ASSUME NEW k \in T PROVE m <= k
  <2>1. k \in Nat /\ m \in Nat
    OBVIOUS
  <2>2. <<k, m>> \in R <=> k < m
    BY <1>2, <2>1
  <2>3. ~(k < m)
    BY <1>3, <2>2
  <2> QED
    BY <2>1, <2>3
<1> QED
  BY <1>4

\* A set that holds 0 and with each number the next one holds all of them.
LEMMA UpTo ==
    ASSUME NEW n \in Nat, NEW A, 0 \in A, \A k \in 1 .. n : k - 1 \in A => k \in A
    PROVE  \A k \in 0 .. n : k \in A
<1> DEFINE T == {k \in 0 .. n : k \notin A}
<1> SUFFICES ASSUME T # {} PROVE FALSE
  OBVIOUS
<1>1. T \subseteq Nat
  OBVIOUS
<1> HIDE DEF T
<1>2. PICK m \in T : \A k \in T : m <= k
  BY <1>1, Least
<1>3. m \in 0 .. n /\ m \notin A
  BY DEF T
<1>4. m \in 1 .. n /\ m - 1 \notin A
  BY <1>3
<1>5. m - 1 \in T
  BY <1>4 DEF T
<1> QED
  BY <1>2, <1>4, <1>5

\* Steps F from s, taken n times, trace a function f.
Traces(S, n, s, F, f) ==
    /\ f \in [0 .. n -> S]
    /\ f[0] = s
    /\ \A i \in 1 .. n : f[i] = F[<<f[i - 1], i>>]

LEMMA Traced ==
    ASSUME NEW S, NEW n \in Nat, NEW s \in S, NEW F \in [S \X (1 .. n) -> S]
    PROVE  \E f : Traces(S, n, s, F, f)
<1> DEFINE A == {k \in 0 .. n : \E f \in [0 .. k -> S] :
                    f[0] = s /\ \A i \in 1 .. k : f[i] = F[<<f[i - 1], i>>]}
<1>1. 0 \in A
  <2> DEFINE g == [i \in 0 .. 0 |-> s]
  <2>1. g \in [0 .. 0 -> S] /\ g[0] = s
    OBVIOUS
  <2>2. \A i \in 1 .. 0 : g[i] = F[<<g[i - 1], i>>]
    OBVIOUS
  <2> HIDE DEF g
  <2> QED
    BY <2>1, <2>2
<1>2. ASSUME NEW k \in 1 .. n, k - 1 \in A PROVE k \in A
  <2>1. PICK f \in [0 .. k - 1 -> S] :
            f[0] = s /\ \A i \in 1 .. k - 1 : f[i] = F[<<f[i - 1], i>>]
    BY <1>2
  <2> DEFINE g == [i \in 0 .. k |-> IF i = k THEN F[<<f[k - 1], k>>] ELSE f[i]]
  <2>2. f[k - 1] \in S
    OBVIOUS
  <2>3. F[<<f[k - 1], k>>] \in S
    BY <2>2
  <2>4. g \in [0 .. k -> S]
    BY <2>3
  <2>5. g[0] = s
    BY <2>1
  <2>7. \A j \in 0 .. k : g[j] = IF j = k THEN F[<<f[k - 1], k>>] ELSE f[j]
    OBVIOUS
  <2> HIDE DEF g
  <2>6. ASSUME NEW i \in 1 .. k PROVE g[i] = F[<<g[i - 1], i>>]
    <3>0. i - 1 \in 0 .. k /\ i - 1 # k
      OBVIOUS
    <3>1. g[i - 1] = f[i - 1]
      BY <2>7, <3>0
    <3>2. CASE i = k
      BY <2>7, <3>1, <3>2
    <3>3. CASE i # k
      BY <2>1, <2>7, <3>1, <3>3
    <3> QED
      BY <3>2, <3>3
  <2> QED
    BY <2>4, <2>5, <2>6
<1>3. n \in A
  <2> HIDE DEF A
  <2> QED
    BY <1>1, <1>2, UpTo
<1> QED
  BY <1>3 DEF Traces

-----------------------------------------------------------------------------
(* The feed source *)

Entries == [obs : Nat, code : Reels]
Sources == [codes : Seq(Entries), known : Seq(Reels), obs : Nat]

\* The bounds of the two deques, and no code twice in the memory.
Proper(s) ==
    /\ s \in Sources
    /\ Len(s.known) <= MaxKnown
    /\ Len(s.codes) <= MaxCodes
    /\ IsInjective(s.known)

\* The memory has room for every Reel, so that none is ever forgotten.
Roomy == IsFiniteSet(Reels) /\ Cardinality(Reels) <= MaxKnown

\* Reels that were used up: remembered, and not in the queue.
Worn(s) == {r \in Reels : Contains(s.known, r)
                          /\ \A i \in 1 .. Len(s.codes) : s.codes[i].code # r}

\* The sources in which these Reels are used up.
Good(U) == {s \in Sources : Proper(s) /\ (Roomy => U \subseteq Worn(s))}

LEMMA DequeBounded ==
    ASSUME NEW S, NEW seq \in Seq(S), NEW limit \in Nat \ {0}, Len(seq) <= limit + 1
    PROVE  /\ Bounded(seq, limit) \in Seq(S)
           /\ Len(Bounded(seq, limit)) <= limit
           /\ \A i \in 1 .. Len(Bounded(seq, limit)) :
                 \E j \in 1 .. Len(seq) : Bounded(seq, limit)[i] = seq[j]
           /\ IsInjective(seq) => IsInjective(Bounded(seq, limit))
<1>1. CASE Len(seq) <= limit
  <2>1. Bounded(seq, limit) = seq
    BY <1>1 DEF Bounded
  <2> QED
    BY <1>1, <2>1
<1>2. CASE Len(seq) > limit
  <2>1. Bounded(seq, limit) = Tail(seq)
    BY <1>2 DEF Bounded
  <2>2. seq # <<>> /\ Len(seq) = limit + 1
    BY <1>2
  <2>3. /\ Tail(seq) \in Seq(S) /\ Len(Tail(seq)) = limit
        /\ \A i \in 1 .. limit : Tail(seq)[i] = seq[i + 1]
    BY <2>2, HeadTailProperties
  <2>4. ASSUME IsInjective(seq) PROVE IsInjective(Tail(seq))
    <3>1. DOMAIN Tail(seq) = 1 .. limit /\ DOMAIN seq = 1 .. limit + 1
      BY <2>2, <2>3
    <3> SUFFICES ASSUME NEW a \in 1 .. limit, NEW b \in 1 .. limit, Tail(seq)[a] = Tail(seq)[b]
                 PROVE  a = b
      BY <3>1 DEF IsInjective
    <3>2. seq[a + 1] = seq[b + 1]
      BY <2>3
    <3>3. a + 1 \in 1 .. limit + 1 /\ b + 1 \in 1 .. limit + 1
      OBVIOUS
    <3>4. a + 1 = b + 1
      BY <2>4, <3>1, <3>2, <3>3 DEF IsInjective
    <3> QED
      BY <3>4
  <2>5. \A i \in 1 .. limit : i + 1 \in 1 .. Len(seq)
    BY <2>2
  <2> QED
    BY <2>1, <2>3, <2>4, <2>5
<1> QED
  BY <1>1, <1>2

\* A memory with room for every Reel has room for one that it does not hold.
LEMMA RoomLeft ==
    ASSUME Roomy, NEW seq \in Seq(Reels), IsInjective(seq), NEW code \in Reels,
           ~ Contains(seq, code)
    PROVE  Len(seq) + 1 <= MaxKnown
<1> DEFINE n == Len(seq)
           T == Reels \ {code}
<1>1. n \in Nat /\ DOMAIN seq = 1 .. n /\ \A i \in 1 .. n : seq[i] \in T
  BY DEF Contains
<1>2. seq \in [1 .. n -> T]
  BY <1>1
<1>3. seq \in Injection(1 .. n, T)
  BY <1>1, <1>2 DEF Injection, IsInjective
<1>4. IsFiniteSet(T) /\ Cardinality(T) = Cardinality(Reels) - 1
  BY FS_RemoveElement DEF Roomy
<1>5. Cardinality(1 .. n) = n
  BY <1>1, FS_Interval
<1>6. Cardinality(1 .. n) <= Cardinality(T)
  BY <1>3, <1>4, FS_Injection
<1>7. Cardinality(Reels) \in Nat
  BY FS_CardinalityType DEF Roomy
<1> QED
  BY <1>1, <1>4, <1>5, <1>6, <1>7, SourceAssumption DEF Roomy

\* What remembering a code does (_remember).
LEMMA RememberCode ==
    ASSUME NEW s, Proper(s), NEW code \in Reels
    PROVE  /\ Proper(Remember(s, code))
           /\ Remember(s, code).codes = s.codes /\ Remember(s, code).obs = s.obs
           /\ Roomy => \A r \in Reels : Contains(s.known, r) \/ r = code
                                        => Contains(Remember(s, code).known, r)
<1>1. CASE IsKnown(s, code)
  BY <1>1 DEF Remember, IsKnown
<1>2. CASE ~ IsKnown(s, code)
  <2> DEFINE grown == Append(s.known, code)
             kept == Bounded(grown, MaxKnown)
  <2>1. s.known \in Seq(Reels) /\ Len(s.known) <= MaxKnown /\ IsInjective(s.known) /\ s \in Sources
    BY DEF Proper, Sources
  <2>2. /\ grown \in Seq(Reels) /\ Len(grown) = Len(s.known) + 1
        /\ \A i \in 1 .. Len(s.known) : grown[i] = s.known[i]
        /\ grown[Len(s.known) + 1] = code
    BY <2>1
  <2>3. \A i \in 1 .. Len(s.known) : s.known[i] # code
    BY <1>2 DEF IsKnown, Contains
  <2> HIDE DEF grown
  <2>4. IsInjective(grown)
    <3> SUFFICES ASSUME NEW a \in 1 .. Len(s.known) + 1, NEW b \in 1 .. Len(s.known) + 1,
                        grown[a] = grown[b]
                 PROVE  a = b
      BY <2>2 DEF IsInjective
    <3>1. CASE a = Len(s.known) + 1
      BY <2>1, <2>2, <2>3, <3>1
    <3>2. CASE b = Len(s.known) + 1
      BY <2>1, <2>2, <2>3, <3>2
    <3>3. CASE a # Len(s.known) + 1 /\ b # Len(s.known) + 1
      <4>1. a \in 1 .. Len(s.known) /\ b \in 1 .. Len(s.known)
        BY <2>1, <3>3
      <4>2. s.known[a] = s.known[b]
        BY <2>2, <4>1
      <4> QED
        BY <2>1, <4>1, <4>2 DEF IsInjective
    <3> QED
      BY <3>1, <3>2, <3>3
  <2>5. kept \in Seq(Reels) /\ Len(kept) <= MaxKnown /\ IsInjective(kept)
    BY <2>1, <2>2, <2>4, DequeBounded, SourceAssumption
  <2>6. Roomy => kept = grown
    BY <1>2, <2>1, <2>2, RoomLeft, SourceAssumption DEF Bounded, IsKnown
  <2>7. Remember(s, code) = [s EXCEPT !.known = kept]
    BY <1>2 DEF Remember, grown
  <2> HIDE DEF kept
  <2>8. /\ Remember(s, code) \in Sources /\ Remember(s, code).known = kept
        /\ Remember(s, code).codes = s.codes /\ Remember(s, code).obs = s.obs
    BY <2>1, <2>5, <2>7 DEF Sources
  <2>9. Proper(Remember(s, code))
    BY <2>5, <2>8 DEF Proper
  <2>10. ASSUME Roomy, NEW r \in Reels, Contains(s.known, r) \/ r = code
         PROVE  Contains(kept, r)
    <3>1. \E i \in 1 .. Len(grown) : grown[i] = r
      BY <2>1, <2>2, <2>10 DEF Contains
    <3> QED
      BY <2>6, <2>10, <3>1 DEF Contains
  <2> QED
    BY <2>8, <2>9, <2>10
<1> QED
  BY <1>1, <1>2

\* Offering a code keeps what is used up (_collect, observe_embedded_candidates).
LEMMA OfferGood ==
    ASSUME NEW U, NEW s \in Good(U), NEW o \in Nat, NEW code \in Reels
    PROVE  Offer(s, o, code) \in Good(U)
<1>1. Proper(s) /\ s \in Sources
  BY DEF Good
<1>2. CASE IsKnown(s, code)
  BY <1>2 DEF Offer
<1>3. CASE ~ IsKnown(s, code)
  <2> DEFINE t == Remember(s, code)
             e == [obs |-> o, code |-> code]
             grown == Append(s.codes, e)
             kept == Bounded(grown, MaxCodes)
  <2>1. /\ Proper(t) /\ t.codes = s.codes /\ t.obs = s.obs
        /\ Roomy => \A r \in Reels : Contains(s.known, r) => Contains(t.known, r)
    BY <1>1, RememberCode
  <2>2. e \in Entries /\ e.code = code
    BY DEF Entries
  <2>3. s.codes \in Seq(Entries) /\ Len(s.codes) <= MaxCodes
    BY <1>1 DEF Proper, Sources
  <2> HIDE DEF e
  <2>4. /\ grown \in Seq(Entries) /\ Len(grown) = Len(s.codes) + 1
        /\ \A i \in 1 .. Len(s.codes) : grown[i] = s.codes[i]
        /\ grown[Len(s.codes) + 1] = e
    BY <2>2, <2>3
  <2> HIDE DEF grown
  <2>5. /\ kept \in Seq(Entries) /\ Len(kept) <= MaxCodes
        /\ \A i \in 1 .. Len(kept) : \E j \in 1 .. Len(grown) : kept[i] = grown[j]
    BY <2>3, <2>4, DequeBounded, SourceAssumption
  <2>6. Offer(s, o, code) = [t EXCEPT !.codes = kept]
    BY <1>3 DEF Offer, grown, e
  <2> HIDE DEF t, kept
  <2>7. t \in Sources /\ t.known \in Seq(Reels) /\ Len(t.known) <= MaxKnown /\ IsInjective(t.known)
    BY <2>1 DEF Proper, Sources
  <2>8. /\ Offer(s, o, code) \in Sources
        /\ Offer(s, o, code).known = t.known /\ Offer(s, o, code).codes = kept
    BY <2>5, <2>6, <2>7 DEF Sources
  <2>9. Proper(Offer(s, o, code))
    BY <2>5, <2>7, <2>8 DEF Proper
  <2>10. ASSUME Roomy, NEW r \in U PROVE r \in Worn(Offer(s, o, code))
    <3>1. r \in Reels /\ Contains(s.known, r) /\ \A i \in 1 .. Len(s.codes) : s.codes[i].code # r
      BY <2>10 DEF Good, Worn
    <3>2. r # code
      BY <1>3, <3>1 DEF IsKnown
    <3>3. \A j \in 1 .. Len(grown) : grown[j].code # r
      BY <2>2, <2>3, <2>4, <3>1, <3>2
    <3>4. \A i \in 1 .. Len(kept) : kept[i].code # r
      BY <2>5, <3>3
    <3>5. Contains(t.known, r)
      BY <2>1, <2>10, <3>1
    <3> QED
      BY <2>8, <3>1, <3>4, <3>5 DEF Worn
  <2> QED
    BY <2>8, <2>9, <2>10 DEF Good
<1> QED
  BY <1>2, <1>3

\* So does offering all of a payload.
LEMMA OfferAllGood ==
    ASSUME NEW U, NEW s \in Good(U), NEW o \in Nat, NEW payload \in Seq(Reels)
    PROVE  OfferAll(s, o, payload) \in Good(U)
<1> DEFINE n == Len(payload)
           F == [x \in Good(U) \X (1 .. n) |-> Offer(x[1], o, payload[x[2]])]
           Rec(f) == [i \in 0 .. n |-> IF i = 0 THEN s ELSE Offer(f[i - 1], o, payload[i])]
           offered == CHOOSE f : f = Rec(f)
<1>1. n \in Nat /\ \A i \in 1 .. n : payload[i] \in Reels
  OBVIOUS
<1>2. F \in [Good(U) \X (1 .. n) -> Good(U)]
  BY <1>1, OfferGood
<1>3. \A t \in Good(U), i \in 1 .. n : F[<<t, i>>] = Offer(t, o, payload[i])
  OBVIOUS
<1>4. \E f : f = Rec(f)
  <2> HIDE DEF F, n
  <2>0. \E f : Traces(Good(U), n, s, F, f)
    BY <1>1, <1>2, Traced, Zenon
  <2>1. PICK f \in [0 .. n -> Good(U)] :
            f[0] = s /\ \A i \in 1 .. n : f[i] = F[<<f[i - 1], i>>]
    BY <2>0 DEF Traces
  <2>2. \A i \in 1 .. n : f[i - 1] \in Good(U)
    BY <1>1
  <2>3. \A i \in 1 .. n : f[i] = Offer(f[i - 1], o, payload[i])
    BY <1>3, <2>1, <2>2
  <2>4. f = [i \in 0 .. n |-> f[i]]
    OBVIOUS
  <2>6. \A i \in 0 .. n : f[i] = IF i = 0 THEN s ELSE Offer(f[i - 1], o, payload[i])
    <3>1. TAKE i \in 0 .. n
    <3>2. CASE i = 0
      <4>1. f[i] = s
        BY <2>1, <3>2
      <4> QED
        BY <3>2, <4>1, Zenon
    <3>3. CASE i # 0
      <4>1. i \in 1 .. n
        BY <1>1, <3>3
      <4>2. f[i] = Offer(f[i - 1], o, payload[i])
        BY <2>3, <4>1, Zenon
      <4> QED
        BY <3>3, <4>2, Zenon
    <3> QED
      BY <3>2, <3>3, Zenon
  <2>5. f = Rec(f)
    BY <2>4, <2>6, Zenon
  <2> QED
    BY <2>5
<1>5. OfferAll(s, o, payload) = offered[n]
  BY DEF OfferAll
<1>6. offered = Rec(offered)
  BY <1>4
<1> HIDE DEF offered
<1>7. offered[0] = s /\ \A i \in 1 .. n : offered[i] = Offer(offered[i - 1], o, payload[i])
  BY <1>1, <1>6
<1> DEFINE A == {k \in 0 .. n : offered[k] \in Good(U)}
<1>8. 0 \in A
  BY <1>1, <1>7
<1>9. ASSUME NEW k \in 1 .. n, k - 1 \in A PROVE k \in A
  <2>1. k \in 0 .. n /\ offered[k - 1] \in Good(U) /\ payload[k] \in Reels
    BY <1>1, <1>9
  <2>2. Offer(offered[k - 1], o, payload[k]) \in Good(U)
    BY <2>1, OfferGood, Zenon
  <2>3. offered[k] = Offer(offered[k - 1], o, payload[k])
    BY <1>7, Zenon
  <2> QED
    BY <2>1, <2>2, <2>3
<1>10. n \in A
  <2> HIDE DEF A, n
  <2>1. \A k \in 0 .. n : k \in A
    BY <1>1, <1>8, <1>9, UpTo
  <2> QED
    BY <1>1, <2>1
<1> QED
  BY <1>5, <1>10

\* Some of the entries of a queue, none of them with the code.
Sifted(rest, codes, code) ==
    /\ rest \in Seq(Entries) /\ Len(rest) <= Len(codes)
    /\ \A i \in 1 .. Len(rest) : /\ rest[i].code # code
                                 /\ \E j \in 1 .. Len(codes) : rest[i] = codes[j]

\* That is what Without leaves of it.
LEMMA WithoutCode ==
    ASSUME NEW codes \in Seq(Entries), NEW code
    PROVE  Sifted(Without(codes, code), codes, code)
<1> DEFINE n == Len(codes)
           Pass(t, i) == IF codes[i].code = code THEN t ELSE Append(t, codes[i])
           F == [x \in Seq(Entries) \X (1 .. n) |-> Pass(x[1], x[2])]
           empty == <<>>
           Rec(f) == [i \in 0 .. n |-> IF i = 0 THEN empty ELSE Pass(f[i - 1], i)]
           kept == CHOOSE f : f = Rec(f)
<1>1. n \in Nat /\ \A i \in 1 .. n : codes[i] \in Entries
  OBVIOUS
<1>2. F \in [Seq(Entries) \X (1 .. n) -> Seq(Entries)]
  BY <1>1
<1>3. \A t \in Seq(Entries), i \in 1 .. n : F[<<t, i>>] = Pass(t, i)
  OBVIOUS
<1>4. \E f : f = Rec(f)
  <2>7. empty \in Seq(Entries)
    OBVIOUS
  <2> HIDE DEF F, n, Pass, empty
  <2>0. \E f : Traces(Seq(Entries), n, empty, F, f)
    BY <1>1, <1>2, <2>7, Traced, Zenon
  <2>1. PICK f \in [0 .. n -> Seq(Entries)] :
            f[0] = empty /\ \A i \in 1 .. n : f[i] = F[<<f[i - 1], i>>]
    BY <2>0 DEF Traces
  <2>2. \A i \in 1 .. n : f[i - 1] \in Seq(Entries)
    BY <1>1
  <2>3. \A i \in 1 .. n : f[i] = Pass(f[i - 1], i)
    BY <1>3, <2>1, <2>2
  <2>4. f = [i \in 0 .. n |-> f[i]]
    OBVIOUS
  <2>5. \A i \in 0 .. n : f[i] = IF i = 0 THEN empty ELSE Pass(f[i - 1], i)
    <3>1. TAKE i \in 0 .. n
    <3>2. CASE i = 0
      <4>1. f[i] = empty
        BY <2>1, <3>2
      <4> QED
        BY <3>2, <4>1, Zenon
    <3>3. CASE i # 0
      <4>1. i \in 1 .. n
        BY <1>1, <3>3
      <4>2. f[i] = Pass(f[i - 1], i)
        BY <2>3, <4>1, Zenon
      <4> QED
        BY <3>3, <4>2, Zenon
    <3> QED
      BY <3>2, <3>3, Zenon
  <2>6. f = Rec(f)
    BY <2>4, <2>5, Zenon
  <2> QED
    BY <2>6
<1>5. Without(codes, code) = kept[n]
  BY DEF Without
<1>6. kept = Rec(kept)
  BY <1>4
<1> HIDE DEF kept
<1>7. kept[0] = empty /\ \A i \in 1 .. n : kept[i] = Pass(kept[i - 1], i)
  <2> HIDE DEF Pass, empty
  <2> QED
    BY <1>1, <1>6
<1> DEFINE Fine(k) == /\ kept[k] \in Seq(Entries)
                      /\ Len(kept[k]) <= k
                      /\ \A i \in 1 .. Len(kept[k]) :
                            /\ kept[k][i].code # code
                            /\ \E j \in 1 .. n : kept[k][i] = codes[j]
           A == {k \in 0 .. n : Fine(k)}
<1>8. 0 \in A
  <2>1. empty \in Seq(Entries) /\ Len(empty) = 0
    OBVIOUS
  <2> HIDE DEF empty
  <2>2. kept[0] \in Seq(Entries) /\ Len(kept[0]) = 0
    BY <1>7, <2>1
  <2>3. 1 .. 0 = {}
    OBVIOUS
  <2> QED
    BY <1>1, <2>2, <2>3
<1>9. ASSUME NEW k \in 1 .. n, k - 1 \in A PROVE k \in A
  <2>1. Fine(k - 1) /\ k - 1 \in Nat
    BY <1>1, <1>9
  <2>2. CASE codes[k].code = code
    <3>1. kept[k] = kept[k - 1]
      BY <1>7, <2>2
    <3>2. Len(kept[k - 1]) <= k
      BY <1>1, <2>1
    <3> QED
      BY <2>1, <3>1, <3>2
  <2>3. CASE codes[k].code # code
    <3> DEFINE t == kept[k - 1]
    <3>1. kept[k] = Append(t, codes[k])
      BY <1>7, <2>3
    <3>2. t \in Seq(Entries) /\ codes[k] \in Entries
      BY <1>1, <2>1
    <3>3. /\ Append(t, codes[k]) \in Seq(Entries)
          /\ Len(Append(t, codes[k])) = Len(t) + 1
          /\ \A i \in 1 .. Len(t) : Append(t, codes[k])[i] = t[i]
          /\ Append(t, codes[k])[Len(t) + 1] = codes[k]
      BY <3>2
    <3>4. ASSUME NEW i \in 1 .. Len(t) + 1
          PROVE  /\ Append(t, codes[k])[i].code # code
                 /\ \E j \in 1 .. n : Append(t, codes[k])[i] = codes[j]
      <4>1. CASE i = Len(t) + 1
        BY <2>3, <3>3, <4>1
      <4>2. CASE i \in 1 .. Len(t)
        BY <2>1, <3>3, <4>2
      <4> QED
        BY <3>2, <4>1, <4>2
    <3>5. Len(t) + 1 <= k
      BY <2>1, <3>2
    <3> HIDE DEF t
    <3>6. Fine(k)
      BY <3>1, <3>3, <3>4, <3>5
    <3> QED
      BY <3>6
  <2> QED
    BY <2>2, <2>3
<1>10. n \in A
  <2> HIDE DEF A, n
  <2>1. \A k \in 0 .. n : k \in A
    BY <1>1, <1>8, <1>9, UpTo
  <2> QED
    BY <1>1, <2>1
<1>11. Fine(n)
  BY <1>10
<1> QED
  BY <1>5, <1>11 DEF Sifted

\* A Reel that is marked is used up (mark_used).
LEMMA MarkUsedGood ==
    ASSUME NEW U, NEW s \in Good(U), NEW code \in Reels
    PROVE  MarkUsed(s, code) \in Good(U \cup {code})
<1> DEFINE t == Remember(s, code)
           rest == Without(s.codes, code)
<1>1. Proper(s) /\ s \in Sources
  BY DEF Good
<1>2. s.codes \in Seq(Entries) /\ Len(s.codes) <= MaxCodes
  BY <1>1 DEF Proper, Sources
<1>3. /\ Proper(t) /\ t.codes = s.codes /\ t.obs = s.obs
      /\ Roomy => \A r \in Reels : Contains(s.known, r) \/ r = code => Contains(t.known, r)
  BY <1>1, RememberCode
<1>4. /\ rest \in Seq(Entries)
      /\ Len(rest) <= Len(s.codes)
      /\ \A i \in 1 .. Len(rest) : /\ rest[i].code # code
                                   /\ \E j \in 1 .. Len(s.codes) : rest[i] = s.codes[j]
  <2>1. Sifted(rest, s.codes, code)
    BY <1>2, WithoutCode
  <2> QED
    BY <2>1 DEF Sifted
<1>5. MarkUsed(s, code) = [t EXCEPT !.codes = rest]
  BY DEF MarkUsed
<1> HIDE DEF t, rest
<1>6. t \in Sources /\ Len(t.known) <= MaxKnown /\ IsInjective(t.known)
  BY <1>3 DEF Proper
<1>7. /\ MarkUsed(s, code) \in Sources
      /\ MarkUsed(s, code).known = t.known /\ MarkUsed(s, code).codes = rest
  BY <1>4, <1>5, <1>6 DEF Sources
<1>8. Len(rest) <= MaxCodes
  BY <1>2, <1>4, SourceAssumption
<1>9. Proper(MarkUsed(s, code))
  BY <1>6, <1>7, <1>8 DEF Proper
<1>10. ASSUME Roomy, NEW r \in U \cup {code} PROVE r \in Worn(MarkUsed(s, code))
  <2>1. r \in Reels /\ (r # code => /\ Contains(s.known, r)
                                    /\ \A i \in 1 .. Len(s.codes) : s.codes[i].code # r)
    BY <1>10 DEF Good, Worn
  <2>2. Contains(t.known, r)
    BY <1>3, <1>10, <2>1
  <2>3. \A i \in 1 .. Len(rest) : rest[i].code # r
    BY <1>4, <2>1
  <2> QED
    BY <1>7, <2>1, <2>2, <2>3 DEF Worn
<1> QED
  BY <1>7, <1>9, <1>10 DEF Good

\* An empty queue, or one without an entry, has used up no less.
LEMMA FewerGood ==
    ASSUME NEW U, NEW s \in Good(U), NEW rest \in Seq(Entries), Len(rest) <= Len(s.codes),
           \A i \in 1 .. Len(rest) : \E j \in 1 .. Len(s.codes) : rest[i] = s.codes[j],
           NEW t \in Sources, t.known = s.known, t.codes = rest
    PROVE  t \in Good(U)
<1>1. Proper(s) /\ s \in Sources
  BY DEF Good
<1>2. Len(rest) <= MaxCodes
  <2>1. s.codes \in Seq(Entries) /\ Len(s.codes) <= MaxCodes
    BY <1>1 DEF Proper, Sources
  <2> QED
    BY <2>1, SourceAssumption
<1>3. Proper(t)
  BY <1>1, <1>2 DEF Proper
<1>4. ASSUME Roomy, NEW r \in U PROVE r \in Worn(t)
  <2>1. r \in Reels /\ Contains(s.known, r) /\ \A i \in 1 .. Len(s.codes) : s.codes[i].code # r
    BY <1>4 DEF Good, Worn
  <2>2. \A i \in 1 .. Len(rest) : rest[i].code # r
    BY <2>1
  <2> QED
    BY <2>1, <2>2 DEF Worn
<1> QED
  BY <1>3, <1>4 DEF Good

LEMMA ResetGood ==
    ASSUME NEW U, NEW s \in Good(U)
    PROVE  ResetForNavigation(s) \in Good(U)
<1> DEFINE t == ResetForNavigation(s)
           empty == <<>>
<1>1. s \in Sources
  BY DEF Good
<1>2. empty \in Seq(Entries) /\ Len(empty) = 0
  OBVIOUS
<1>3. t = [s EXCEPT !.codes = empty, !.obs = 0]
  BY DEF ResetForNavigation
<1> HIDE DEF empty, t
<1>4. t \in Sources /\ t.known = s.known /\ t.codes = empty
  BY <1>1, <1>2, <1>3 DEF Sources
<1>5. Len(empty) <= Len(s.codes) /\ 1 .. Len(empty) = {}
  BY <1>1, <1>2 DEF Sources
<1> QED
  BY <1>2, <1>4, <1>5, FewerGood DEF t

\* Taking an entry off the queue: the Reel it names was not used up.
LEMMA TakeGood ==
    ASSUME NEW U, NEW s \in Good(U), NEW i \in 0 .. Len(s.codes)
    PROVE  /\ TakeEntry(s, i).source \in Good(U)
           /\ TakeEntry(s, i).code \in Reels \cup {None}
           /\ TakeEntry(s, i).code # None => i # 0
           /\ Roomy /\ TakeEntry(s, i).code # None => TakeEntry(s, i).code \notin U
<1>1. s \in Sources
  BY DEF Good
<1>2. s.codes \in Seq(Entries)
  BY <1>1 DEF Sources
<1>3. CASE i = 0
  BY <1>3 DEF TakeEntry
<1>4. CASE i # 0
  <2> DEFINE n == Len(s.codes)
             rest == RemoveAt(s.codes, i)
             left == SubSeq(s.codes, 1, i - 1)
             right == SubSeq(s.codes, i + 1, n)
             t == [s EXCEPT !.codes = rest]
  <2>0. n \in Nat /\ i \in 1 .. n
    BY <1>2, <1>4
  <2>1. TakeEntry(s, i) = [code |-> s.codes[i].code, source |-> t]
    BY <1>4 DEF TakeEntry
  <2>2. s.codes[i] \in Entries
    BY <1>2, <2>0
  <2>3. s.codes[i].code \in Reels
    BY <2>2 DEF Entries
  <2>4. /\ left \in Seq(Entries) /\ Len(left) = i - 1
        /\ \A k \in 1 .. i - 1 : left[k] = s.codes[k]
    BY <1>2, <2>0
  <2>5. /\ right \in Seq(Entries) /\ Len(right) = n - i
        /\ \A k \in 1 .. n - i : right[k] = s.codes[k + i]
    BY <1>2, <2>0
  <2>6. rest = left \o right
    BY DEF RemoveAt
  <2> HIDE DEF left, right, rest
  <2>7. /\ rest \in Seq(Entries) /\ Len(rest) = n - 1
        /\ \A k \in 1 .. n - 1 : rest[k] = IF k <= i - 1 THEN left[k] ELSE right[k - (i - 1)]
    <3>1. /\ left \o right \in Seq(Entries)
          /\ Len(left \o right) = Len(left) + Len(right)
          /\ \A k \in 1 .. Len(left) + Len(right) :
                (left \o right)[k] = IF k <= Len(left) THEN left[k] ELSE right[k - Len(left)]
      BY <2>4, <2>5, ConcatProperties
    <3>2. Len(left) + Len(right) = n - 1
      BY <2>0, <2>4, <2>5
    <3> HIDE DEF n
    <3> QED
      BY <2>4, <2>6, <3>1, <3>2
  <2>8. \A k \in 1 .. Len(rest) : \E j \in 1 .. Len(s.codes) : rest[k] = s.codes[j]
    <3> SUFFICES ASSUME NEW k \in 1 .. n - 1 PROVE \E j \in 1 .. n : rest[k] = s.codes[j]
      BY <2>7
    <3>1. CASE k <= i - 1
      BY <2>0, <2>4, <2>7, <3>1
    <3>2. CASE ~ (k <= i - 1)
      <4>1. k - (i - 1) \in 1 .. n - i /\ k - (i - 1) + i \in 1 .. n
        BY <2>0, <3>2
      <4> QED
        BY <2>5, <2>7, <3>2, <4>1
    <3> QED
      BY <3>1, <3>2
  <2>9. t \in Sources /\ t.known = s.known /\ t.codes = rest
    BY <1>1, <2>7 DEF Sources
  <2>10. Len(rest) <= Len(s.codes)
    BY <2>0, <2>7
  <2> HIDE DEF t
  <2>11. t \in Good(U)
    BY <2>7, <2>8, <2>9, <2>10, FewerGood
  <2>12. Roomy => s.codes[i].code \notin U
    BY <2>0 DEF Good, Worn
  <2> QED
    BY <1>4, <2>1, <2>3, <2>11, <2>12
<1> QED
  BY <1>3, <1>4

\* An index found in a sequence, or 0.
LEMMA MinIn ==
    ASSUME NEW n \in Nat, NEW I \in SUBSET (1 .. n)
    PROVE  (IF I # {} THEN Min(I) ELSE 0) \in 0 .. n
<1>1. CASE I = {}
  BY <1>1
<1>2. CASE I # {}
  <2>0. I \subseteq Nat
    OBVIOUS
  <2>1. \E m \in I : \A k \in I : m <= k
    BY <1>2, <2>0, Least
  <2>2. Min(I) \in I
    BY <2>1, Zenon DEF Min
  <2>3. Min(I) \in 0 .. n
    <3>1. \A m \in I : m \in 0 .. n
      OBVIOUS
    <3> QED
      BY <2>2, <3>1, Zenon
  <2>4. (IF I # {} THEN Min(I) ELSE 0) = Min(I)
    BY <1>2, Zenon
  <2> QED
    BY <2>3, <2>4
<1> QED
  BY <1>1, <1>2

\* Whatever the three ways to choose a candidate take, it was not used up.
Takes(taken, U) ==
    /\ taken.source \in Good(U)
    /\ taken.code \in Reels \cup {None}
    /\ Roomy /\ taken.code # None => taken.code \notin U

LEMMA NextGood ==
    ASSUME NEW U, NEW s \in Good(U), NEW previous, NEW o
    PROVE  /\ Takes(NextAfter(s, previous, o), U)
           /\ Takes(NextFromCurrentFeed(s, previous), U)
           /\ Takes(NextEmbedded(s, previous), U)
<1>0. Len(s.codes) \in Nat
  BY DEF Good, Sources
<1>1. Takes(NextAfter(s, previous, o), U)
  <2> DEFINE I == {i \in 1 .. Len(s.codes) : s.codes[i].obs > o /\ s.codes[i].code # previous}
             i == IF I # {} THEN Min(I) ELSE 0
  <2>1. i \in 0 .. Len(s.codes)
    <3>1. I \in SUBSET (1 .. Len(s.codes))
      OBVIOUS
    <3> HIDE DEF I
    <3> QED
      BY <1>0, <3>1, MinIn
  <2>2. NextAfter(s, previous, o) = TakeEntry(s, i)
    BY DEF NextAfter, SelectInSeq
  <2> HIDE DEF i
  <2> QED
    BY <2>1, <2>2, TakeGood DEF Takes
<1>2. Takes(NextFromCurrentFeed(s, previous), U)
  <2> DEFINE I == {i \in 1 .. Len(s.codes) : s.codes[i].code # previous}
             i == IF I # {} THEN Min(I) ELSE 0
  <2>1. i \in 0 .. Len(s.codes)
    <3>1. I \in SUBSET (1 .. Len(s.codes))
      OBVIOUS
    <3> HIDE DEF I
    <3> QED
      BY <1>0, <3>1, MinIn
  <2>2. NextFromCurrentFeed(s, previous) = TakeEntry(s, i)
    BY DEF NextFromCurrentFeed, SelectInSeq
  <2> HIDE DEF i
  <2> QED
    BY <2>1, <2>2, TakeGood DEF Takes
<1>3. Takes(NextEmbedded(s, previous), U)
  <2> DEFINE I == {i \in 1 .. Len(s.codes) : s.codes[i].obs = 0 /\ s.codes[i].code # previous}
             i == IF I # {} THEN Min(I) ELSE 0
  <2>1. i \in 0 .. Len(s.codes)
    <3>1. I \in SUBSET (1 .. Len(s.codes))
      OBVIOUS
    <3> HIDE DEF I
    <3> QED
      BY <1>0, <3>1, MinIn
  <2>2. NextEmbedded(s, previous) = TakeEntry(s, i)
    BY DEF NextEmbedded, SelectInSeq
  <2> HIDE DEF i
  <2> QED
    BY <2>1, <2>2, TakeGood DEF Takes
<1> QED
  BY <1>1, <1>2, <1>3

\* Responses and documents keep what is used up.
LEMMA ObserveGood ==
    ASSUME NEW U, NEW s \in Good(U), NEW payload \in Seq(Reels)
    PROVE  Observe(s, payload) \in Good(U) /\ ObserveEmbedded(s, payload) \in Good(U)
<1>1. s \in Sources /\ s.obs \in Nat /\ Proper(s)
  BY DEF Good, Sources
<1>2. Observe(s, payload) \in Good(U)
  <2> DEFINE t == [s EXCEPT !.obs = s.obs + 1]
  <2>1. t \in Sources /\ t.known = s.known /\ t.codes = s.codes
    BY <1>1 DEF Sources
  <2>2. s.codes \in Seq(Entries) /\ Len(s.codes) <= Len(s.codes)
    BY <1>1 DEF Sources
  <2> HIDE DEF t
  <2>3. t \in Good(U)
    BY <2>1, <2>2, FewerGood
  <2>4. OfferAll(t, s.obs + 1, payload) \in Good(U)
    BY <1>1, <2>3, OfferAllGood
  <2> QED
    BY <2>4 DEF Observe, t
<1>3. ObserveEmbedded(s, payload) \in Good(U)
  <2> DEFINE m == IF Len(payload) < MaxCodes THEN Len(payload) ELSE MaxCodes
             p == SubSeq(payload, 1, m)
  <2>1. m \in 0 .. Len(payload)
    BY SourceAssumption
  <2> HIDE DEF m
  <2>2. p \in Seq(Reels)
    BY <2>1
  <2> HIDE DEF p
  <2>3. OfferAll(s, 0, p) \in Good(U)
    BY <2>2, OfferAllGood
  <2> QED
    BY <2>3 DEF ObserveEmbedded, p, m
<1> QED
  BY <1>2, <1>3

-----------------------------------------------------------------------------
(* The inductive invariant *)

\* Where a Reel is at hand, where its position is open, where it is acquired, and
\* where collect() has not begun.
Walking == Collecting \ {"first"}
InPosition == Walking \ {"look"}
Before == {"off", "ready", "first"}
Acquiring == {"pause"} \cup Fetching

Touches == [scrolls : 0 .. MaxScrolls, forced : BOOLEAN, confirmed : BOOLEAN,
            identity : BOOLEAN, checkpoint : Nat]
Walks == [cand : Reels \cup {None}, seen : SUBSET Reels, mine : SUBSET Reels, committed : Nat,
          available : Nat, wheels : 0 .. MaxWheels, attempt : {1, 2}]

\* What does not depend on the label.
Shape ==
    /\ pc \in Labels
    /\ kind \in [feed : {"source", "gesture"}, stage : {"3b", "3c1"}]
    /\ touch \in Touches
    /\ status \in {"none", "running", "completed", "failed", "cancelled"}
    /\ late \in BOOLEAN /\ open \in BOOLEAN
    /\ verdict \in {"none", "verified", "changed", "refused"}

\* The locals of collect(): the candidate was seen where it is acquired, and a
\* gesture, which only a feed without a source makes, leaves room for the attempts
\* it may be counted as.
WalkShape ==
    /\ walk \in Walks
    /\ walk.mine \subseteq walk.seen
    /\ pc \in Walking => walk.cand \in Reels
    /\ pc \in Acquiring => walk.cand \in walk.seen
    /\ pc = "sample" \/ (pc = "reload" /\ kind.feed = "gesture") =>
          walk.wheels + walk.attempt <= MaxWheels
    /\ pc \in {"gesture", "sample"} => kind.feed = "gesture"
    /\ pc \in Before => walk.committed = 0 /\ walk.available = 0

\* Cookies and temporary files exist within an attempt only, but for what an
\* error or a kill left behind.
Clean ==
    /\ jar \in BOOLEAN /\ files \subseteq Files
    /\ pc \notin Fetching => ~jar /\ files \subseteq {"orphan"}

\* Every Reel that was handed out or seen is used up in the feed source.
Used == walk.seen \cup ({walk.cand} \ {None})
SourceInv == source \in Good(Used)
Handed == Roomy /\ kind.feed = "source" /\ pc = "arrive" => walk.cand \notin walk.seen

\* The events of a position that got its Reel, in one of three ways, and those of
\* a position that was left.
Detected == <<"detect">>
Paused == Append(Detected, "pause")
Downloaded == Append(Paused, "download")
Checked == Append(Downloaded, "validation")
Published == Append(Checked, "publish")
ByDownload == Append(Published, "db_commit")
ByDatabase == Detected \o <<"pause", "db_commit">>
BySkipping == Detected \o <<"pause", "duplicate_skipped">>
Gains == {e \in {ByDownload, ByDatabase, BySkipping} :
             /\ e = ByDatabase => walk.available > 0
             /\ e = BySkipping => Continuing}
Cooled(e) == Append(e, "cooldown")
Moving(e, n) == IF n = 1 THEN Append(Cooled(e), "advance")
                ELSE Append(Append(Cooled(e), "advance"), "advance_retry")
Passed == {Append(Moving(e, n), "transition_confirmed") : e \in Gains, n \in {1, 2}}

\* The events of the last position, by the label.
LastShape(last) ==
    /\ pc = "pause" => last = Detected
    /\ pc \in {"cookies", "mkdtemp", "media"} => last = Paused
    /\ pc = "validate" => last = Downloaded
    /\ pc = "publish" => last = Checked
    /\ pc = "commit" => last = Published
    /\ pc = "tally" => last \in Gains
    /\ pc = "advance" => \E e \in Gains : last = Cooled(e)
    /\ pc = "gesture" => \E e \in Gains :
          last = IF walk.attempt = 1 THEN Cooled(e) ELSE Append(Cooled(e), "advance")
    /\ pc \in {"sample", "reload", "arrive"} => \E e \in Gains : last = Moving(e, walk.attempt)

\* The transcript: one entry per position, all but the last of them left.
LogShape ==
    /\ log \in Seq(Seq(Events))
    /\ pc \in Before => log = <<>>
    /\ pc \in InPosition \/ (pc = "end" /\ status = "completed") => Len(log) > 0

Told ==
    kind.feed = "gesture" =>
        /\ pc = "look" => \A p \in 1 .. Len(log) : log[p] \in Passed
        /\ pc \in InPosition \/ (pc = "end" /\ status = "completed") =>
              \A p \in 1 .. Len(log) - 1 : log[p] \in Passed
        /\ pc \in InPosition => LastShape(log[Len(log)])
        /\ pc = "end" /\ status = "completed" => log[Len(log)] \in Gains

\* In stage 3B every position adds one Reel, until there are enough.
Got == walk.committed + walk.available
Counted ==
    kind.stage = "3b" =>
        /\ pc \in Acquiring => Got + 1 = Len(log)
        /\ pc \in Walking \ Acquiring => Got = Len(log)
        /\ pc \in Walking \ {"tally"} => Got < Target
        /\ pc = "tally" => Got <= Target
        /\ pc = "end" /\ status = "completed" => Got = Target /\ Len(log) = Target

\* A completed walk by gestures was not refused, and only collect() completes one.
Judged ==
    /\ kind.feed = "gesture" => verdict # "refused"
    /\ pc # "end" => status # "completed"

Inv == Shape /\ WalkShape /\ Clean /\ SourceInv /\ Handed /\ LogShape /\ Told /\ Counted /\ Judged

-----------------------------------------------------------------------------
(* Facts about labels, transcripts and sources *)

LEMMA LabelFacts ==
    /\ Walking \subseteq Labels /\ InPosition \subseteq Walking /\ Acquiring \subseteq InPosition
    /\ Fetching \subseteq Acquiring /\ Collecting \subseteq Labels
    /\ \A l \in {"off", "ready", "first", "end", "look"} :
          l \in Labels /\ l \notin InPosition /\ l \notin Fetching /\ l \notin Acquiring
    /\ \A l \in {"off", "ready", "first", "end"} : l \notin Walking
    /\ \A l \in {"pause", "cookies", "mkdtemp", "media", "validate", "publish", "commit"} :
          l \in Acquiring /\ l \in InPosition /\ l \in Walking /\ l \in Labels
    /\ \A l \in {"tally", "advance", "gesture", "sample", "navigate", "reload", "arrive"} :
          l \notin Acquiring /\ l \notin Fetching /\ l \in InPosition /\ l \in Walking /\ l \in Labels
    /\ "look" \in Walking /\ "pause" \notin Fetching
    /\ \A l \in {"cookies", "mkdtemp", "media", "validate", "publish", "commit"} : l \in Fetching
    /\ Before \cap Walking = {} /\ "end" \notin Before
BY DEF Walking, InPosition, Acquiring, Before, Collecting, Labels, Fetching

LEMMA EventFacts ==
    /\ "detect" \in Events /\ "pause" \in Events /\ "download" \in Events
    /\ "validation" \in Events /\ "publish" \in Events /\ "db_commit" \in Events
    /\ "cooldown" \in Events /\ "feed_source_advance" \in Events /\ "advance" \in Events
    /\ "advance_retry" \in Events /\ "transition_confirmed" \in Events /\ "duplicate_skipped" \in Events
BY DEF Events

\* What these sequences are, event by event.
LEMMA EventSeqs ==
    /\ ByDownload \in Seq(Events) /\ Len(ByDownload) = 6 /\ ByDownload[1] = "detect"
    /\ ByDownload[2] = "pause" /\ ByDownload[3] = "download" /\ ByDownload[4] = "validation"
    /\ ByDownload[5] = "publish" /\ ByDownload[6] = "db_commit"
    /\ ByDatabase \in Seq(Events) /\ Len(ByDatabase) = 3 /\ ByDatabase[1] = "detect"
    /\ ByDatabase[2] = "pause" /\ ByDatabase[3] = "db_commit"
    /\ BySkipping \in Seq(Events) /\ Len(BySkipping) = 3 /\ BySkipping[1] = "detect"
    /\ BySkipping[2] = "pause" /\ BySkipping[3] = "duplicate_skipped"
<1>1. Detected \in Seq(Events) /\ Len(Detected) = 1 /\ Detected[1] = "detect"
  BY DEF Detected, Events
<1>2. Paused \in Seq(Events) /\ Len(Paused) = 2 /\ Paused[1] = "detect" /\ Paused[2] = "pause"
  <2>1. "pause" \in Events /\ Detected \in Seq(Events)
    BY <1>1, EventFacts
  <2>2. /\ Paused \in Seq(Events) /\ Len(Paused) = Len(Detected) + 1
        /\ \A i \in 1 .. Len(Detected) : Paused[i] = Detected[i]
        /\ Paused[Len(Detected) + 1] = "pause"
    BY <2>1, AppendProperties DEF Paused
  <2>3. Len(Detected) + 1 = 2
    BY <1>1
  <2> QED
    BY <1>1, <2>2, <2>3
<1>3. /\ Downloaded \in Seq(Events) /\ Len(Downloaded) = 3 /\ Downloaded[1] = "detect"
      /\ Downloaded[2] = "pause" /\ Downloaded[3] = "download"
  <2>1. "download" \in Events /\ Paused \in Seq(Events)
    BY <1>2, EventFacts
  <2>2. /\ Downloaded \in Seq(Events) /\ Len(Downloaded) = Len(Paused) + 1
        /\ \A i \in 1 .. Len(Paused) : Downloaded[i] = Paused[i]
        /\ Downloaded[Len(Paused) + 1] = "download"
    BY <2>1, AppendProperties DEF Downloaded
  <2>3. Len(Paused) + 1 = 3
    BY <1>2
  <2> QED
    BY <1>2, <2>2, <2>3
<1>4. /\ Checked \in Seq(Events) /\ Len(Checked) = 4 /\ Checked[1] = "detect"
      /\ Checked[2] = "pause" /\ Checked[3] = "download" /\ Checked[4] = "validation"
  <2>1. "validation" \in Events /\ Downloaded \in Seq(Events)
    BY <1>3, EventFacts
  <2>2. /\ Checked \in Seq(Events) /\ Len(Checked) = Len(Downloaded) + 1
        /\ \A i \in 1 .. Len(Downloaded) : Checked[i] = Downloaded[i]
        /\ Checked[Len(Downloaded) + 1] = "validation"
    BY <2>1, AppendProperties DEF Checked
  <2>3. Len(Downloaded) + 1 = 4
    BY <1>3
  <2> QED
    BY <1>3, <2>2, <2>3
<1>5. /\ Published \in Seq(Events) /\ Len(Published) = 5 /\ Published[1] = "detect"
      /\ Published[2] = "pause" /\ Published[3] = "download" /\ Published[4] = "validation"
      /\ Published[5] = "publish"
  <2>1. "publish" \in Events /\ Checked \in Seq(Events)
    BY <1>4, EventFacts
  <2>2. /\ Published \in Seq(Events) /\ Len(Published) = Len(Checked) + 1
        /\ \A i \in 1 .. Len(Checked) : Published[i] = Checked[i]
        /\ Published[Len(Checked) + 1] = "publish"
    BY <2>1, AppendProperties DEF Published
  <2>3. Len(Checked) + 1 = 5
    BY <1>4
  <2> QED
    BY <1>4, <2>2, <2>3
<1>6. /\ ByDownload \in Seq(Events) /\ Len(ByDownload) = 6 /\ ByDownload[1] = "detect"
      /\ ByDownload[2] = "pause" /\ ByDownload[3] = "download" /\ ByDownload[4] = "validation"
      /\ ByDownload[5] = "publish" /\ ByDownload[6] = "db_commit"
  <2>1. "db_commit" \in Events /\ Published \in Seq(Events)
    BY <1>5, EventFacts
  <2>2. /\ ByDownload \in Seq(Events) /\ Len(ByDownload) = Len(Published) + 1
        /\ \A i \in 1 .. Len(Published) : ByDownload[i] = Published[i]
        /\ ByDownload[Len(Published) + 1] = "db_commit"
    BY <2>1, AppendProperties DEF ByDownload
  <2>3. Len(Published) + 1 = 6
    BY <1>5
  <2> QED
    BY <1>5, <2>2, <2>3
<1>7. /\ ByDatabase \in Seq(Events) /\ Len(ByDatabase) = 3 /\ ByDatabase[1] = "detect"
      /\ ByDatabase[2] = "pause" /\ ByDatabase[3] = "db_commit"
  <2> DEFINE u == <<"pause", "db_commit">>
  <2>1. u \in Seq(Events) /\ Len(u) = 2 /\ u[1] = "pause" /\ u[2] = "db_commit"
    BY DEF Events
  <2> HIDE DEF u
  <2>2. ByDatabase = Detected \o u
    BY DEF ByDatabase, u
  <2>3. ByDatabase \in Seq(Events) /\ Len(ByDatabase) = 3
    BY <1>1, <2>1, <2>2, ConcatProperties
  <2>4. \A i \in 1 .. 3 : ByDatabase[i] = IF i <= 1 THEN Detected[i] ELSE u[i - 1]
    BY <1>1, <2>1, <2>2, ConcatProperties
  <2> QED
    BY <1>1, <2>1, <2>3, <2>4
<1>8. /\ BySkipping \in Seq(Events) /\ Len(BySkipping) = 3 /\ BySkipping[1] = "detect"
      /\ BySkipping[2] = "pause" /\ BySkipping[3] = "duplicate_skipped"
  <2> DEFINE u == <<"pause", "duplicate_skipped">>
  <2>1. u \in Seq(Events) /\ Len(u) = 2 /\ u[1] = "pause" /\ u[2] = "duplicate_skipped"
    BY DEF Events
  <2> HIDE DEF u
  <2>2. BySkipping = Detected \o u
    BY DEF BySkipping, u
  <2>3. BySkipping \in Seq(Events) /\ Len(BySkipping) = 3
    BY <1>1, <2>1, <2>2, ConcatProperties
  <2>4. \A i \in 1 .. 3 : BySkipping[i] = IF i <= 1 THEN Detected[i] ELSE u[i - 1]
    BY <1>1, <2>1, <2>2, ConcatProperties
  <2> QED
    BY <1>1, <2>1, <2>3, <2>4
<1> QED
  BY <1>6, <1>7, <1>8

\* The last position gets other events (SafeEventTranscript.record).
LEMMA Rewritten ==
    ASSUME log \in Seq(Seq(Events)), Len(log) > 0, NEW x \in Seq(Events),
           log' = [log EXCEPT ![Len(log)] = x]
    PROVE  /\ log' \in Seq(Seq(Events)) /\ Len(log') = Len(log) /\ log'[Len(log)] = x
           /\ \A p \in 1 .. Len(log) - 1 : log'[p] = log[p]
<1>1. Len(log) \in 1 .. Len(log)
  OBVIOUS
<1>2. /\ [log EXCEPT ![Len(log)] = x] \in Seq(Seq(Events))
      /\ Len([log EXCEPT ![Len(log)] = x]) = Len(log)
      /\ \A j \in 1 .. Len(log) :
            [log EXCEPT ![Len(log)] = x][j] = IF j = Len(log) THEN x ELSE log[j]
  BY <1>1, ExceptSeq
<1>3. /\ log' \in Seq(Seq(Events)) /\ Len(log') = Len(log)
      /\ \A j \in 1 .. Len(log) : log'[j] = IF j = Len(log) THEN x ELSE log[j]
  BY <1>2, Zenon
<1>4. ASSUME NEW p \in 1 .. Len(log) - 1 PROVE log'[p] = log[p]
  <2>1. p \in 1 .. Len(log) /\ p # Len(log)
    OBVIOUS
  <2> QED
    BY <1>3, <2>1, Zenon
<1>5. log'[Len(log)] = x
  BY <1>1, <1>3, Zenon
<1> QED
  BY <1>3, <1>4, <1>5, Zenon

LEMMA RecordLog ==
    ASSUME log \in Seq(Seq(Events)), Len(log) > 0, NEW e \in Events, Record(e)
    PROVE  /\ log' \in Seq(Seq(Events)) /\ Len(log') = Len(log)
           /\ log'[Len(log)] = Append(log[Len(log)], e)
           /\ \A p \in 1 .. Len(log) - 1 : log'[p] = log[p]
<1> DEFINE x == Append(log[Len(log)], e)
<1>1. log[Len(log)] \in Seq(Events)
  <2>1. Len(log) \in 1 .. Len(log)
    OBVIOUS
  <2> QED
    BY <2>1, ElementOfSeq
<1>2. x \in Seq(Events)
  BY <1>1, AppendProperties
<1>3. log' = [log EXCEPT ![Len(log)] = x]
  BY DEF Record
<1> HIDE DEF x
<1>4. /\ log' \in Seq(Seq(Events)) /\ Len(log') = Len(log) /\ log'[Len(log)] = x
      /\ \A p \in 1 .. Len(log) - 1 : log'[p] = log[p]
  BY <1>2, <1>3, Rewritten
<1> QED
  BY <1>4 DEF x

\* Fewer Reels are used up wherever more are.
LEMMA GoodLess ==
    ASSUME NEW U, NEW V, V \subseteq U
    PROVE  Good(U) \subseteq Good(V)
BY DEF Good

\* The ways to gain a Reel do not become fewer.
LEMMA GainsGrow ==
    ASSUME kind' = kind, walk.available \in Nat, walk'.available \in Nat,
           walk.available <= walk'.available
    PROVE  Gains \subseteq Gains' /\ Passed \subseteq Passed'
<1>1. Gains \subseteq Gains'
  BY DEF Gains, Continuing
<1>2. Passed \subseteq Passed'
  BY <1>1 DEF Passed, Moving, Cooled
<1> QED
  BY <1>1, <1>2

-----------------------------------------------------------------------------
(* Preservation *)

\* A walk that ends without being completed.
LEMMA EndsInv ==
    ASSUME Inv, pc' = "end", status' \in {"none", "failed", "cancelled"},
           kind' = kind, verdict' = verdict, open' = open, late' = late,
           touch' \in Touches, walk' \in Walks, walk'.mine \subseteq walk'.seen,
           log' \in Seq(Seq(Events)), Clean', SourceInv'
    PROVE  Inv'
<1>1. Shape'
  BY LabelFacts DEF Inv, Shape
<1>2. WalkShape'
  BY LabelFacts DEF WalkShape
<1>3. Handed' /\ LogShape' /\ Told' /\ Counted' /\ Judged'
  BY LabelFacts DEF Handed, LogShape, Told, Counted, Inv, Judged
<1> QED
  BY <1>1, <1>2, <1>3 DEF Inv

\* A step within a position.
LEMMA MovesInv ==
    ASSUME Inv, pc \in InPosition, pc' \in InPosition,
           kind' = kind, verdict' = verdict, open' = open, late' = late, status' = status,
           touch' \in Touches, WalkShape', Clean', SourceInv', Handed',
           log' \in Seq(Seq(Events)), Len(log') = Len(log),
           \A p \in 1 .. Len(log) - 1 : log'[p] = log[p],
           walk.available <= walk'.available,
           kind.feed = "gesture" => LastShape(log[Len(log)])',
           Counted'
    PROVE  Inv'
<1>1. Shape'
  BY LabelFacts DEF Inv, Shape
<1>2. LogShape'
  BY LabelFacts DEF Inv, LogShape, Before
<1>3. Told'
  <2>1. Passed \subseteq Passed'
    BY GainsGrow DEF Inv, WalkShape, Walks
  <2>2. \A p \in 1 .. Len(log) - 1 : kind.feed = "gesture" => log[p] \in Passed
    BY DEF Inv, Told
  <2>3. pc' # "look" /\ pc' # "end"
    BY LabelFacts
  <2> QED
    BY <2>1, <2>2, <2>3 DEF Told
<1>4. Judged'
  BY LabelFacts DEF Inv, Judged
<1> QED
  BY <1>1, <1>2, <1>3, <1>4 DEF Inv

\* A process that has not opened its feed, or is gone.
Fresh ==
    /\ pc = "off" /\ source = EmptySource /\ touch = NoTouch /\ walk = NoWalk /\ log = <<>>
    /\ status = "none" /\ late = FALSE /\ open = FALSE
    /\ kind \in [feed : {"source", "gesture"}, stage : {"3b", "3c1"}]
    /\ jar = FALSE /\ files \subseteq {"orphan"}
    /\ verdict \in {"none", "verified", "changed", "refused"}
    /\ kind.feed = "gesture" => verdict # "refused"

LEMMA EmptyGood == EmptySource \in Good({})
<1> DEFINE empty == <<>>
<1>1. empty \in Seq(Entries) /\ empty \in Seq(Reels) /\ Len(empty) = 0
  OBVIOUS
<1>2. IsInjective(empty)
  BY DEF IsInjective
<1>3. EmptySource = [codes |-> empty, known |-> empty, obs |-> 0]
  BY DEF EmptySource
<1> HIDE DEF empty
<1>4. EmptySource \in Sources
  BY <1>1, <1>3 DEF Sources
<1>5. EmptySource.codes = empty /\ EmptySource.known = empty
  BY <1>3
<1>6. Proper(EmptySource)
  BY <1>1, <1>2, <1>4, <1>5, SourceAssumption DEF Proper
<1> QED
  BY <1>4, <1>6 DEF Good

LEMMA FreshInv == Fresh => Inv
<1> SUFFICES ASSUME Fresh PROVE Inv
  OBVIOUS
<1>1. touch \in Touches
  BY WalkAssumption DEF Fresh, NoTouch, Touches
<1>2. /\ walk \in Walks /\ walk.cand = None /\ walk.seen = {} /\ walk.mine = {}
      /\ walk.committed = 0 /\ walk.available = 0
  BY WalkAssumption DEF Fresh, NoWalk, Walks
<1>3. pc = "off" /\ pc \in Labels /\ pc \notin Walking /\ pc \notin InPosition
      /\ pc \notin Acquiring /\ pc \notin Fetching
  BY LabelFacts DEF Fresh
<1>4. Shape
  BY <1>1, <1>3 DEF Fresh, Shape
<1>5. WalkShape
  BY <1>2, <1>3 DEF WalkShape
<1>6. Clean
  BY <1>3 DEF Fresh, Clean, Files
<1>7. SourceInv
  <2>1. Used = {}
    BY <1>2 DEF Used
  <2> QED
    BY <2>1, EmptyGood DEF Fresh, SourceInv
<1>8. Handed
  BY <1>3 DEF Handed
<1>9. LogShape
  BY <1>3 DEF Fresh, LogShape
<1>10. Told /\ Counted
  BY <1>3 DEF Told, Counted
<1>11. Judged
  BY DEF Fresh, Judged
<1> QED
  BY <1>4, <1>5, <1>6, <1>7, <1>8, <1>9, <1>10, <1>11 DEF Inv

LEMMA FreshNext == Fresh' => Inv'
BY FreshInv, PTL

LEMMA InitInv == Init => Inv
<1>1. Init => Fresh
  BY WalkAssumption DEF Init, Fresh
<1> QED
  BY <1>1, FreshInv

LEMMA KillInv ==
    ASSUME Inv, Kill
    PROVE  Inv'
<1>1. files' \subseteq {"orphan"}
  BY DEF Kill
<1>2. Fresh'
  BY <1>1 DEF Inv, Shape, Judged, Kill, Gone, Goto, Fresh
<1> QED
  BY <1>2, FreshNext

LEMMA OpenInv ==
    ASSUME Inv, Open
    PROVE  Inv'
<1>1. pc' \in {"ready", "off"} /\ pc = "off"
  BY DEF Open, Goto
<1>2. pc' \in Labels /\ pc' \notin Walking /\ pc' \notin InPosition /\ pc' \notin Acquiring
      /\ pc' \notin Fetching
  BY <1>1, LabelFacts
<1>3. /\ touch' = touch /\ walk' = walk /\ log' = log /\ status' = status /\ late' = late
      /\ jar' = jar /\ files' = files /\ source' = source /\ verdict' = "none" /\ open' \in BOOLEAN
  BY DEF Open, feedVars, fetchVars
<1>4. Shape'
  BY <1>2, <1>3, WalkAssumption DEF Inv, Shape, Open
<1>5. WalkShape'
  BY <1>1, <1>2, <1>3 DEF Inv, WalkShape, Before
<1>6. Clean'
  BY <1>1, <1>3, LabelFacts DEF Inv, Clean
<1>7. SourceInv'
  BY <1>3 DEF Inv, SourceInv, Used
<1>8. LogShape'
  BY <1>1, <1>2, <1>3 DEF Inv, LogShape, Before
<1>9. Handed' /\ Told' /\ Counted' /\ Judged'
  BY <1>1, <1>2, <1>3 DEF Inv, Handed, Told, Counted, Judged
<1> QED
  BY <1>4, <1>5, <1>6, <1>7, <1>8, <1>9 DEF Inv

\* What only depends on the walk and its transcript.
LEMMA SameWalk ==
    ASSUME Inv, pc' = pc, kind' = kind, walk' = walk, log' = log, status' = status,
           jar' = jar, files' = files, verdict' = verdict
    PROVE  WalkShape' /\ Clean' /\ Handed' /\ LogShape' /\ Told' /\ Counted' /\ Judged'
<1>1. WalkShape' /\ Clean' /\ Handed' /\ LogShape' /\ Counted' /\ Judged'
  BY DEF Inv, WalkShape, Clean, Handed, LogShape, Counted, Judged, Got
<1>2. Told'
  <2>1. Gains' = Gains
    BY DEF Gains, Continuing
  <2>2. Passed' = Passed
    BY <2>1 DEF Passed
  <2>3. LastShape(log[Len(log)])' = LastShape(log[Len(log)])
    BY <2>1, Zenon DEF LastShape
  <2>4. Told' = Told
    BY <2>1, <2>2, <2>3, Zenon DEF Told
  <2> QED
    BY <2>4 DEF Inv
<1> QED
  BY <1>1, <1>2

\* Responses reach the source only.
LEMMA RespondInv ==
    ASSUME Inv, NEW payload \in Payloads, Respond(payload)
    PROVE  Inv'
<1>1. /\ pc' = pc /\ kind' = kind /\ touch' = touch /\ walk' = walk /\ log' = log
      /\ status' = status /\ late' = late /\ open' = open /\ jar' = jar /\ files' = files
      /\ verdict' = verdict
  BY DEF Respond, fetchVars, runVars
<1>2. SourceInv'
  <2>1. source' = Observe(source, payload) /\ payload \in Seq(Reels)
    BY WalkAssumption DEF Respond
  <2>2. source \in Good(Used) /\ Used' = Used
    BY <1>1 DEF Inv, SourceInv, Used
  <2> QED
    BY <2>1, <2>2, ObserveGood DEF SourceInv
<1> QED
  BY <1>1, <1>2, SameWalk DEF Inv, Shape

LEMMA DeadlinePassesInv ==
    ASSUME Inv, DeadlinePasses
    PROVE  Inv'
<1>1. /\ pc' = pc /\ kind' = kind /\ touch' = touch /\ walk' = walk /\ log' = log
      /\ status' = status /\ late' = TRUE /\ open' = open /\ jar' = jar /\ files' = files
      /\ verdict' = verdict /\ source' = source
  BY DEF DeadlinePasses, feedVars, fetchVars, runVars
<1>2. SourceInv'
  BY <1>1 DEF Inv, SourceInv, Used
<1> QED
  BY <1>1, <1>2, SameWalk DEF Inv, Shape

-----------------------------------------------------------------------------
(* Before the first position *)

LEMMA CurrentGood ==
    ASSUME NEW U, source \in Good(U), NEW card \in Reels, NEW script \in Scripts,
           Current(card, script)
    PROVE  source' \in Good(U \cup {card})
<1>1. script \in Seq(Reels)
  BY WalkAssumption
<1>2. ObserveEmbedded(source, script) \in Good(U)
  BY <1>1, ObserveGood
<1> QED
  BY <1>2, MarkUsedGood DEF Current

\* The walk ends and leaves what it holds alone.
LEMMA LeavesInv ==
    ASSUME Inv, pc' = "end", status' \in {"none", "failed", "cancelled"},
           kind' = kind, verdict' = verdict, open' = open, late' = late,
           touch' = touch, walk' = walk, log' = log, source' = source,
           jar' = FALSE, files' \subseteq {"orphan"}
    PROVE  Inv'
<1>1. touch' \in Touches /\ walk' \in Walks /\ walk'.mine \subseteq walk'.seen
      /\ log' \in Seq(Seq(Events))
  BY DEF Inv, Shape, WalkShape, LogShape
<1>2. Clean'
  BY LabelFacts DEF Clean, Files
<1>3. SourceInv'
  BY DEF Inv, SourceInv, Used
<1> QED
  BY <1>1, <1>2, <1>3, EndsInv

LEMMA ReadyInv ==
    ASSUME Inv, Ready
    PROVE  Inv'
<1>0. /\ pc = "ready" /\ touch' = touch /\ walk' = walk /\ log' = log /\ late' = late
      /\ jar' = jar /\ files' = files /\ kind' = kind /\ open' = open /\ verdict' = verdict
  BY DEF Ready, fetchVars, runVars
<1>1. jar = FALSE /\ files \subseteq {"orphan"}
  BY <1>0, LabelFacts DEF Inv, Clean
<1>2. CASE source' = source /\ Finish("none")
  BY <1>0, <1>1, <1>2, LeavesInv DEF Finish, Goto
<1>3. ASSUME NEW card \in InitialReel \cap Reels, NEW script \in Scripts,
             Current(card, script), Goto("first"), status' = "running"
      PROVE  Inv'
  <2>0. pc' = "first"
    BY <1>3 DEF Goto
  <2>1. Shape'
    BY <1>0, <1>3, <2>0, LabelFacts DEF Inv, Shape
  <2>2. WalkShape'
    BY <1>0, <2>0, LabelFacts DEF Inv, WalkShape, Before
  <2>3. Clean'
    BY <1>0, <1>1, <2>0 DEF Clean, Files
  <2>4. SourceInv'
    <3>1. source \in Good(Used) /\ Used' = Used /\ card \in Reels
      BY <1>0 DEF Inv, SourceInv, Used
    <3>2. source' \in Good(Used \cup {card})
      BY <1>3, <3>1, CurrentGood
    <3>3. Used \subseteq Used \cup {card}
      OBVIOUS
    <3> QED
      BY <3>1, <3>2, <3>3, GoodLess DEF SourceInv
  <2>5. LogShape'
    BY <1>0, <2>0, LabelFacts DEF Inv, LogShape, Before
  <2>6. Handed' /\ Told' /\ Counted' /\ Judged'
    BY <1>0, <1>3, <2>0, LabelFacts DEF Inv, Handed, Told, Counted, Judged
  <2> QED
    BY <2>1, <2>2, <2>3, <2>4, <2>5, <2>6 DEF Inv
<1> QED
  BY <1>2, <1>3 DEF Ready

LEMMA FirstInv ==
    ASSUME Inv, First
    PROVE  Inv'
<1>0. /\ pc = "first" /\ touch' = touch /\ log' = log /\ late' = late
      /\ jar' = jar /\ files' = files /\ kind' = kind /\ open' = open /\ verdict' = verdict
  BY DEF First, fetchVars, runVars
<1>1. jar = FALSE /\ files \subseteq {"orphan"}
  BY <1>0, LabelFacts DEF Inv, Clean
<1>2. ASSUME NEW card \in InitialReel, card \notin Reels, Finish(Outcome(card)),
             source' = source, walk' = walk
      PROVE  Inv'
  <2>1. pc' = "end" /\ status' \in {"none", "failed", "cancelled"}
    BY <1>2 DEF Finish, Goto, Outcome
  <2> QED
    BY <1>0, <1>1, <1>2, <2>1, LeavesInv
<1>3. ASSUME NEW card \in Reels, NEW script \in Scripts, Current(card, script),
             walk' = [walk EXCEPT !.cand = card], Goto("look"), status' = status
      PROVE  Inv'
  <2>0. pc' = "look"
    BY <1>3 DEF Goto
  <2>1. Shape'
    BY <1>0, <1>3, <2>0, LabelFacts DEF Inv, Shape
  <2>2. /\ walk' \in Walks /\ walk'.cand = card /\ walk'.seen = walk.seen /\ walk'.mine = walk.mine
        /\ walk'.committed = walk.committed /\ walk'.available = walk.available
    BY <1>3 DEF Inv, WalkShape, Walks
  <2>3. WalkShape'
    BY <1>0, <2>0, <2>2, LabelFacts DEF Inv, WalkShape, Before
  <2>4. Clean'
    BY <1>0, <1>1, <2>0, LabelFacts DEF Clean, Files
  <2>5. SourceInv'
    <3>1. source \in Good(Used)
      BY DEF Inv, SourceInv
    <3>2. source' \in Good(Used \cup {card})
      BY <1>3, <3>1, CurrentGood
    <3>3. Used' \subseteq Used \cup {card}
      BY <2>2 DEF Used
    <3> QED
      BY <3>2, <3>3, GoodLess DEF SourceInv
  <2>6. log' \in Seq(Seq(Events)) /\ Len(log') = 0
    BY <1>0 DEF Inv, LogShape, Before
  <2>7. LogShape'
    BY <2>0, <2>6, LabelFacts DEF LogShape, Before
  <2>8. Told'
    BY <2>0, <2>6, LabelFacts DEF Told
  <2>9. Counted'
    <3>1. walk.committed = 0 /\ walk.available = 0
      BY <1>0 DEF Inv, WalkShape, Before
    <3>2. Got' = 0
      BY <2>2, <3>1 DEF Got
    <3>3. Target > 0
      BY TargetAssumption
    <3> QED
      BY <2>0, <2>6, <3>2, <3>3, LabelFacts DEF Counted
  <2>10. Handed' /\ Judged'
    BY <1>0, <1>3, <2>0 DEF Inv, Handed, Judged
  <2> QED
    BY <2>1, <2>3, <2>4, <2>5, <2>7, <2>8, <2>9, <2>10 DEF Inv
<1>4. PICK card \in InitialReel :
          IF card \in Reels
          THEN /\ \E script \in Scripts : Current(card, script)
               /\ walk' = [walk EXCEPT !.cand = card]
               /\ Goto("look")
               /\ status' = status
          ELSE Finish(Outcome(card)) /\ source' = source /\ walk' = walk
  BY DEF First
<1>5. CASE card \in Reels
  BY <1>3, <1>4, <1>5
<1>6. CASE card \notin Reels
  BY <1>2, <1>4, <1>6
<1> QED
  BY <1>5, <1>6

-----------------------------------------------------------------------------
(* A position *)

\* A new position is opened after those that were left.
LEMMA LookInv ==
    ASSUME Inv, Look
    PROVE  Inv'
<1>0. /\ pc = "look" /\ touch' = touch /\ source' = source /\ late' = late
      /\ jar' = jar /\ files' = files /\ kind' = kind /\ open' = open /\ verdict' = verdict
  BY DEF Look, feedVars, fetchVars, runVars
<1>1. jar = FALSE /\ files \subseteq {"orphan"} /\ walk.cand \in Reels
  BY <1>0, LabelFacts DEF Inv, Clean, WalkShape
<1>2. CASE Finish("failed") /\ walk' = walk /\ log' = log
  BY <1>0, <1>1, <1>2, LeavesInv DEF Finish, Goto
<1>3. CASE /\ walk' = [walk EXCEPT !.seen = walk.seen \cup {walk.cand}]
           /\ log' = Append(log, <<"detect">>) /\ Goto("pause") /\ status' = status
  <2>0. pc' = "pause"
    BY <1>3 DEF Goto
  <2>1. Shape'
    BY <1>0, <1>3, <2>0, LabelFacts DEF Inv, Shape
  <2>2. /\ walk' \in Walks /\ walk'.cand = walk.cand /\ walk'.seen = walk.seen \cup {walk.cand}
        /\ walk'.mine = walk.mine /\ walk'.committed = walk.committed
        /\ walk'.available = walk.available /\ walk.available \in Nat /\ walk.committed \in Nat
    BY <1>1, <1>3 DEF Inv, WalkShape, Walks
  <2>3. WalkShape'
    <3>1. walk.mine \subseteq walk.seen
      BY DEF Inv, WalkShape
    <3> QED
      BY <1>1, <2>0, <2>2, <3>1, LabelFacts DEF WalkShape, Before
  <2>4. Clean'
    BY <1>0, <1>1, <2>0, LabelFacts DEF Clean, Files
  <2>5. SourceInv'
    <3>1. None \notin Reels
      BY WalkAssumption
    <3>2. Used' = Used
      BY <1>1, <2>2, <3>1 DEF Used
    <3> QED
      BY <1>0, <3>2 DEF Inv, SourceInv
  <2>6. /\ log \in Seq(Seq(Events)) /\ Detected \in Seq(Events) /\ log' = Append(log, Detected)
    BY <1>3, EventFacts DEF Inv, LogShape, Detected
  <2>7. /\ log' \in Seq(Seq(Events)) /\ Len(log') = Len(log) + 1
        /\ \A i \in 1 .. Len(log) : log'[i] = log[i]
        /\ log'[Len(log) + 1] = Detected
    BY <2>6, AppendProperties
  <2>8. Len(log) \in Nat /\ Len(log') - 1 = Len(log) /\ Len(log') > 0
    BY <2>6, <2>7
  <2>9. LogShape'
    BY <2>0, <2>7, <2>8, LabelFacts DEF LogShape, Before
  <2>10. Told'
    <3>1. Passed \subseteq Passed'
      BY <1>0, <2>2, GainsGrow
    <3>2. kind.feed = "gesture" => \A i \in 1 .. Len(log) : log[i] \in Passed
      BY <1>0 DEF Inv, Told
    <3>3. log'[Len(log')] = Detected
      BY <2>7
    <3>4. kind.feed = "gesture" => \A i \in 1 .. Len(log') - 1 : log'[i] \in Passed'
      BY <2>7, <2>8, <3>1, <3>2
    <3>5. LastShape(log[Len(log)])'
      BY <2>0, <3>3 DEF LastShape
    <3> QED
      BY <1>0, <2>0, <3>4, <3>5 DEF Told
  <2>11. Counted'
    <3>1. Got' = Got
      BY <2>2 DEF Got
    <3>2. kind.stage = "3b" => Got = Len(log) /\ Got < Target
      BY <1>0, LabelFacts DEF Inv, Counted
    <3> QED
      BY <1>0, <2>0, <2>7, <3>1, <3>2, LabelFacts DEF Counted
  <2>12. Handed' /\ Judged'
    BY <1>0, <1>3, <2>0 DEF Inv, Handed, Judged
  <2> QED
    BY <2>1, <2>3, <2>4, <2>5, <2>9, <2>10, <2>11, <2>12 DEF Inv
<1> QED
  BY <1>2, <1>3 DEF Look

LEMMA Closing ==
    ASSUME files \subseteq Files, AttemptClosed
    PROVE  files' \subseteq {"orphan"}
<1>1. CASE files' = files \ {"attempt", "part"}
  BY <1>1 DEF Files
<1>2. CASE files' = {"orphan"}
  BY <1>2
<1> QED
  BY <1>1, <1>2 DEF AttemptClosed

LEMMA AttemptFailsInv ==
    ASSUME Inv, AttemptFails("failed"),
           kind' = kind, verdict' = verdict, open' = open, late' = late,
           touch' = touch, walk' = walk, log' = log, source' = source
    PROVE  Inv'
<1>1. files' \subseteq {"orphan"}
  BY Closing DEF Inv, Clean, AttemptFails
<1>2. pc' = "end" /\ status' = "failed" /\ jar' = FALSE
  BY DEF AttemptFails, Finish, Goto
<1> QED
  BY <1>1, <1>2, LeavesInv

\* What a position has when a Reel was found or must be acquired.
LEMMA InPositionFacts ==
    ASSUME Inv, pc \in InPosition
    PROVE  /\ log \in Seq(Seq(Events)) /\ Len(log) > 0 /\ walk \in Walks /\ walk.cand \in Reels
           /\ kind.feed = "gesture" => LastShape(log[Len(log)])
           /\ log[Len(log)] \in Seq(Events)
<1>1. /\ log \in Seq(Seq(Events)) /\ Len(log) > 0 /\ walk \in Walks /\ walk.cand \in Reels
      /\ kind.feed = "gesture" => LastShape(log[Len(log)])
  BY LabelFacts DEF Inv, LogShape, WalkShape, Told
<1>2. Len(log) \in 1 .. Len(log)
  BY <1>1
<1> QED
  BY <1>1, <1>2, ElementOfSeq

\* A step that acquires the Reel of the position and leaves the walk alone.
LEMMA AcquiringInv ==
    ASSUME Inv, pc \in Acquiring, pc' \in Fetching,
           kind' = kind, verdict' = verdict, open' = open, late' = late, status' = status,
           touch' = touch, walk' = walk, source' = source,
           jar' \in BOOLEAN, files' \subseteq Files,
           log' \in Seq(Seq(Events)), Len(log') = Len(log),
           \A p \in 1 .. Len(log) - 1 : log'[p] = log[p],
           kind.feed = "gesture" => LastShape(log[Len(log)])'
    PROVE  Inv'
<1>0. /\ pc' \in Acquiring /\ pc \in InPosition /\ pc' \in InPosition /\ pc' \in Walking
      /\ pc' \notin {"gesture", "sample", "reload", "arrive", "tally", "end"} /\ pc' \notin Before
      /\ pc # "tally" /\ pc \in Walking
  BY LabelFacts DEF Before
<1>1. WalkShape'
  BY <1>0, InPositionFacts DEF Inv, WalkShape
<1>2. Clean'
  BY DEF Clean
<1>3. SourceInv'
  BY DEF Inv, SourceInv, Used
<1>4. Handed'
  BY <1>0 DEF Handed
<1>5. Counted'
  BY <1>0 DEF Inv, Counted, Got
<1>6. touch' \in Touches /\ walk.available <= walk'.available
  BY DEF Inv, Shape, WalkShape, Walks
<1> QED
  BY <1>0, <1>1, <1>2, <1>3, <1>4, <1>5, <1>6, MovesInv

\* The Reel of the position is found: in the account, in the database or, below,
\* by its download.
LEMMA FoundInv ==
    ASSUME Inv, pc \in Acquiring, pc' = "tally",
           kind' = kind, verdict' = verdict, open' = open, late' = late, status' = status,
           touch' = touch, source' = source, jar' = FALSE, files' \subseteq {"orphan"},
           walk' \in Walks, walk'.cand = walk.cand, walk'.seen = walk.seen,
           walk'.mine \subseteq walk.mine \cup {walk.cand},
           walk.available <= walk'.available,
           kind.stage = "3b" => Got' = Got + 1,
           log' \in Seq(Seq(Events)), Len(log') = Len(log),
           \A p \in 1 .. Len(log) - 1 : log'[p] = log[p],
           kind.feed = "gesture" => log'[Len(log)] \in Gains'
    PROVE  Inv'
<1>0. /\ pc \in InPosition /\ pc' \in InPosition /\ pc' \in Walking /\ pc' \notin Acquiring
      /\ pc \in Walking /\ pc # "tally" /\ pc' \notin Before /\ pc' \notin Fetching
  BY LabelFacts DEF Before
<1>1. WalkShape'
  <2>1. walk.mine \subseteq walk.seen /\ walk.cand \in walk.seen /\ walk.cand \in Reels
    BY <1>0 DEF Inv, WalkShape
  <2> QED
    BY <1>0, <2>1 DEF WalkShape
<1>2. Clean'
  BY <1>0 DEF Clean, Files
<1>3. SourceInv'
  BY DEF Inv, SourceInv, Used
<1>4. Handed'
  BY DEF Handed
<1>5. Counted'
  <2>1. Got \in Nat /\ Len(log) \in Nat /\ Target \in Nat
    BY TargetAssumption DEF Inv, WalkShape, Walks, Got, LogShape
  <2>2. kind.stage = "3b" => Got + 1 = Len(log) /\ Got < Target
    BY <1>0 DEF Inv, Counted
  <2> QED
    BY <1>0, <2>1, <2>2 DEF Counted
<1>6. touch' \in Touches
  BY DEF Inv, Shape
<1>7. kind.feed = "gesture" => LastShape(log[Len(log)])'
  BY DEF LastShape
<1> QED
  BY <1>0, <1>1, <1>2, <1>3, <1>4, <1>5, <1>6, <1>7, MovesInv

LEMMA PauseInv ==
    ASSUME Inv, Pause
    PROVE  Inv'
<1>0. /\ pc = "pause" /\ touch' = touch /\ source' = source /\ late' = late
      /\ jar' = jar /\ files' = files /\ kind' = kind /\ open' = open /\ verdict' = verdict
  BY DEF Pause, feedVars, fetchVars, runVars
<1>1. jar = FALSE /\ files \subseteq {"orphan"} /\ pc \in InPosition /\ pc \in Acquiring
  BY <1>0, LabelFacts DEF Inv, Clean
<1>2. /\ log \in Seq(Seq(Events)) /\ Len(log) > 0 /\ walk \in Walks /\ walk.cand \in Reels
      /\ log[Len(log)] \in Seq(Events)
      /\ kind.feed = "gesture" => log[Len(log)] = Detected
  BY <1>0, <1>1, InPositionFacts DEF LastShape
<1>3. CASE Record("pause") /\ Goto("cookies") /\ walk' = walk /\ status' = status
  <2>1. /\ log' \in Seq(Seq(Events)) /\ Len(log') = Len(log)
        /\ log'[Len(log)] = Append(log[Len(log)], "pause")
        /\ \A p \in 1 .. Len(log) - 1 : log'[p] = log[p]
    BY <1>2, <1>3, EventFacts, RecordLog
  <2>2. pc' = "cookies" /\ pc' \in Fetching
    BY <1>3, LabelFacts DEF Goto
  <2>3. kind.feed = "gesture" => LastShape(log[Len(log)])'
    BY <1>2, <2>1, <2>2 DEF LastShape, Paused
  <2>4. jar' \in BOOLEAN /\ files' \subseteq Files
    BY <1>0, <1>1 DEF Files
  <2> QED
    BY <1>0, <1>1, <1>3, <2>1, <2>2, <2>3, <2>4, AcquiringInv
<1>4. CASE /\ Continuing /\ walk' = walk /\ Goto("tally") /\ status' = status
           /\ log' = [log EXCEPT ![Len(log)] = @ \o <<"pause", "duplicate_skipped">>]
  <2> DEFINE u == <<"pause", "duplicate_skipped">>
             x == log[Len(log)] \o u
  <2>1. u \in Seq(Events)
    BY EventFacts
  <2>2. log' = [log EXCEPT ![Len(log)] = x]
    BY <1>4
  <2>3. kind.feed = "gesture" => x = BySkipping
    <3>1. BySkipping = Detected \o u
      BY DEF BySkipping
    <3>2. kind.feed = "gesture" => log[Len(log)] = Detected
      BY <1>2
    <3> HIDE DEF u
    <3> QED
      BY <3>1, <3>2, Zenon
  <2> HIDE DEF u
  <2>4. x \in Seq(Events)
    BY <1>2, <2>1, ConcatProperties
  <2> HIDE DEF x
  <2>5. /\ log' \in Seq(Seq(Events)) /\ Len(log') = Len(log) /\ log'[Len(log)] = x
        /\ \A p \in 1 .. Len(log) - 1 : log'[p] = log[p]
    BY <1>2, <2>2, <2>4, Rewritten
  <2>6. pc' = "tally"
    BY <1>4 DEF Goto
  <2>7. BySkipping \in Gains'
    <3>1. Continuing' /\ BySkipping # ByDatabase
      BY <1>0, <1>4, EventSeqs DEF Continuing
    <3> QED
      BY <3>1 DEF Gains
  <2>8. kind.stage # "3b" /\ walk.available <= walk'.available
        /\ walk'.mine \subseteq walk.mine \cup {walk.cand}
    BY <1>2, <1>4 DEF Continuing, Walks
  <2> QED
    BY <1>0, <1>1, <1>2, <1>4, <2>3, <2>5, <2>6, <2>7, <2>8, FoundInv
<1>5. CASE /\ Goto("tally") /\ status' = status
           /\ log' = [log EXCEPT ![Len(log)] = @ \o <<"pause", "db_commit">>]
           /\ walk' = [walk EXCEPT !.available = @ + 1, !.mine = @ \cup {walk.cand}]
  <2> DEFINE u == <<"pause", "db_commit">>
             x == log[Len(log)] \o u
  <2>1. u \in Seq(Events)
    BY EventFacts
  <2>2. log' = [log EXCEPT ![Len(log)] = x]
    BY <1>5
  <2>3. kind.feed = "gesture" => x = ByDatabase
    <3>1. ByDatabase = Detected \o u
      BY DEF ByDatabase
    <3>2. kind.feed = "gesture" => log[Len(log)] = Detected
      BY <1>2
    <3> HIDE DEF u
    <3> QED
      BY <3>1, <3>2, Zenon
  <2> HIDE DEF u
  <2>4. x \in Seq(Events)
    BY <1>2, <2>1, ConcatProperties
  <2> HIDE DEF x
  <2>5. /\ log' \in Seq(Seq(Events)) /\ Len(log') = Len(log) /\ log'[Len(log)] = x
        /\ \A p \in 1 .. Len(log) - 1 : log'[p] = log[p]
    BY <1>2, <2>2, <2>4, Rewritten
  <2>6. pc' = "tally"
    BY <1>5 DEF Goto
  <2>7. /\ walk' \in Walks /\ walk'.cand = walk.cand /\ walk'.seen = walk.seen
        /\ walk'.mine = walk.mine \cup {walk.cand} /\ walk'.available = walk.available + 1
        /\ walk'.committed = walk.committed
        /\ walk.available \in Nat /\ walk.committed \in Nat
    <3>1. walk.available + 1 \in Nat /\ walk.mine \cup {walk.cand} \in SUBSET Reels
          /\ walk.available \in Nat /\ walk.committed \in Nat
      BY <1>2 DEF Walks
    <3>2. walk' = [walk EXCEPT !.available = walk.available + 1,
                               !.mine = walk.mine \cup {walk.cand}]
      BY <1>5
    <3> QED
      BY <1>2, <3>1, <3>2 DEF Walks
  <2>8. Got' = Got + 1 /\ walk.available <= walk'.available /\ walk'.available > 0
    BY <2>7 DEF Got
  <2>9. ByDatabase \in Gains'
    <3>1. ByDatabase # BySkipping
      BY EventSeqs
    <3> QED
      BY <2>8, <3>1 DEF Gains
  <2> QED
    BY <1>0, <1>1, <1>5, <2>3, <2>5, <2>6, <2>7, <2>8, <2>9, FoundInv
<1>6. ASSUME NEW st \in {"failed", "cancelled"}, Finish(st), walk' = walk, log' = log
      PROVE  Inv'
  BY <1>0, <1>1, <1>6, LeavesInv DEF Finish, Goto
<1> QED
  BY <1>3, <1>4, <1>5, <1>6 DEF Pause

-----------------------------------------------------------------------------
(* Acquiring a Reel *)

LEMMA CookiesInv ==
    ASSUME Inv, Cookies
    PROVE  Inv'
<1>0. /\ pc = "cookies" /\ touch' = touch /\ source' = source /\ late' = late /\ walk' = walk
      /\ log' = log /\ kind' = kind /\ open' = open /\ verdict' = verdict
  BY DEF Cookies, feedVars, runVars
<1>1. CASE AttemptFails("failed")
  BY <1>0, <1>1, AttemptFailsInv
<1>2. CASE jar' = TRUE /\ Goto("mkdtemp") /\ status' = status /\ files' = files
  <2>1. pc \in Acquiring /\ pc \in InPosition /\ pc' = "mkdtemp" /\ pc' \in Fetching
    BY <1>0, <1>2, LabelFacts DEF Goto
  <2>2. kind.feed = "gesture" => LastShape(log[Len(log)])'
    BY <1>0, <2>1, InPositionFacts DEF LastShape
  <2>3. log' \in Seq(Seq(Events)) /\ files' \subseteq Files
    BY <1>0, <1>2 DEF Inv, LogShape, Clean
  <2> QED
    BY <1>0, <1>2, <2>1, <2>2, <2>3, AcquiringInv
<1> QED
  BY <1>1, <1>2 DEF Cookies

LEMMA MakeAttemptInv ==
    ASSUME Inv, MakeAttempt
    PROVE  Inv'
<1>0. /\ pc = "mkdtemp" /\ touch' = touch /\ source' = source /\ late' = late /\ walk' = walk
      /\ log' = log /\ kind' = kind /\ open' = open /\ verdict' = verdict /\ status' = status
      /\ jar' = jar /\ files' = files \cup {"attempt"} /\ pc' = "media"
  BY DEF MakeAttempt, feedVars, runVars, Goto
<1>1. pc \in Acquiring /\ pc \in InPosition /\ pc' \in Fetching
  BY <1>0, LabelFacts
<1>2. kind.feed = "gesture" => LastShape(log[Len(log)])'
  BY <1>0, <1>1, InPositionFacts DEF LastShape
<1>3. log' \in Seq(Seq(Events)) /\ files' \subseteq Files /\ jar' \in BOOLEAN
  BY <1>0 DEF Inv, LogShape, Clean, Files
<1> QED
  BY <1>0, <1>1, <1>2, <1>3, AcquiringInv

LEMMA MediaInv ==
    ASSUME Inv, Media
    PROVE  Inv'
<1>0. /\ pc = "media" /\ touch' = touch /\ source' = source /\ late' = late /\ walk' = walk
      /\ kind' = kind /\ open' = open /\ verdict' = verdict
  BY DEF Media, feedVars, runVars
<1>1. CASE AttemptFails("failed") /\ log' = log
  BY <1>0, <1>1, AttemptFailsInv
<1>2. CASE /\ files' \in {{"part"}, {"part"} \cup (files \cap {"orphan"})}
           /\ jar' = FALSE /\ Record("download") /\ Goto("validate") /\ status' = status
  <2>1. pc \in Acquiring /\ pc \in InPosition /\ pc' = "validate" /\ pc' \in Fetching
    BY <1>0, <1>2, LabelFacts DEF Goto
  <2>2. /\ log' \in Seq(Seq(Events)) /\ Len(log') = Len(log)
        /\ log'[Len(log)] = Append(log[Len(log)], "download")
        /\ \A p \in 1 .. Len(log) - 1 : log'[p] = log[p]
    BY <1>2, <2>1, EventFacts, InPositionFacts, RecordLog
  <2>3. kind.feed = "gesture" => LastShape(log[Len(log)])'
    BY <1>0, <2>1, <2>2, InPositionFacts DEF LastShape, Downloaded
  <2>4. files' \subseteq Files /\ jar' \in BOOLEAN
    BY <1>2 DEF Files
  <2> QED
    BY <1>0, <1>2, <2>1, <2>2, <2>3, <2>4, AcquiringInv
<1> QED
  BY <1>1, <1>2 DEF Media

LEMMA AcquireInv ==
    ASSUME Inv, NEW label \in {"validate", "publish"}, NEW event \in Events,
           NEW then \in {"publish", "commit"}, Acquire(label, event, then),
           kind.feed = "gesture" /\ label = "validate" => event = "validation" /\ then = "publish",
           kind.feed = "gesture" /\ label = "publish" => event = "publish" /\ then = "commit"
    PROVE  Inv'
<1>0. /\ pc = label /\ touch' = touch /\ source' = source /\ late' = late /\ walk' = walk
      /\ kind' = kind /\ open' = open /\ verdict' = verdict
  BY DEF Acquire, feedVars, runVars
<1>1. CASE AttemptFails("failed") /\ log' = log
  BY <1>0, <1>1, AttemptFailsInv
<1>2. CASE Record(event) /\ Goto(then) /\ status' = status /\ files' = files /\ jar' = jar
  <2>1. pc \in Acquiring /\ pc \in InPosition /\ pc' = then /\ pc' \in Fetching
    BY <1>0, <1>2, LabelFacts DEF Goto
  <2>2. /\ log' \in Seq(Seq(Events)) /\ Len(log') = Len(log)
        /\ log'[Len(log)] = Append(log[Len(log)], event)
        /\ \A p \in 1 .. Len(log) - 1 : log'[p] = log[p]
    BY <1>2, <2>1, InPositionFacts, RecordLog
  <2>3. kind.feed = "gesture" => LastShape(log[Len(log)])'
    <3>1. CASE label = "validate"
      BY <1>0, <2>1, <2>2, <3>1, InPositionFacts DEF LastShape, Checked
    <3>2. CASE label = "publish"
      BY <1>0, <2>1, <2>2, <3>2, InPositionFacts DEF LastShape, Published
    <3> QED
      BY <3>1, <3>2
  <2>4. files' \subseteq Files /\ jar' \in BOOLEAN
    BY <1>2 DEF Inv, Clean
  <2> QED
    BY <1>0, <1>2, <2>1, <2>2, <2>3, <2>4, AcquiringInv
<1> QED
  BY <1>1, <1>2 DEF Acquire

LEMMA CommitInv ==
    ASSUME Inv, Commit
    PROVE  Inv'
<1>0. /\ pc = "commit" /\ touch' = touch /\ source' = source /\ late' = late
      /\ kind' = kind /\ open' = open /\ verdict' = verdict
  BY DEF Commit, feedVars, runVars
<1>1. CASE AttemptFails("failed") /\ walk' = walk /\ log' = log
  BY <1>0, <1>1, AttemptFailsInv
<1>2. CASE /\ Record("db_commit") /\ AttemptClosed /\ jar' = FALSE
           /\ walk' = [walk EXCEPT !.committed = @ + 1, !.mine = @ \cup {walk.cand}]
           /\ (Goto("tally") /\ status' = status) \/ Finish("failed")
  <2>1. pc \in Acquiring /\ pc \in InPosition
    BY <1>0, LabelFacts
  <2>2. /\ log \in Seq(Seq(Events)) /\ Len(log) > 0 /\ walk \in Walks /\ walk.cand \in Reels
        /\ kind.feed = "gesture" => log[Len(log)] = Published
    BY <1>0, <2>1, InPositionFacts DEF LastShape
  <2>3. /\ log' \in Seq(Seq(Events)) /\ Len(log') = Len(log)
        /\ log'[Len(log)] = Append(log[Len(log)], "db_commit")
        /\ \A p \in 1 .. Len(log) - 1 : log'[p] = log[p]
    BY <1>2, <2>2, EventFacts, RecordLog
  <2>4. kind.feed = "gesture" => log'[Len(log)] = ByDownload
    BY <2>2, <2>3 DEF ByDownload
  <2>5. files' \subseteq {"orphan"}
    BY <1>2, Closing DEF Inv, Clean
  <2>6. /\ walk' \in Walks /\ walk'.cand = walk.cand /\ walk'.seen = walk.seen
        /\ walk'.mine = walk.mine \cup {walk.cand} /\ walk'.available = walk.available
        /\ walk'.committed = walk.committed + 1
        /\ walk.available \in Nat /\ walk.committed \in Nat
    <3>1. walk.committed + 1 \in Nat /\ walk.mine \cup {walk.cand} \in SUBSET Reels
          /\ walk.available \in Nat /\ walk.committed \in Nat
      BY <2>2 DEF Walks
    <3>2. walk' = [walk EXCEPT !.committed = walk.committed + 1,
                               !.mine = walk.mine \cup {walk.cand}]
      BY <1>2
    <3> QED
      BY <2>2, <3>1, <3>2 DEF Walks
  <2>7. CASE Goto("tally") /\ status' = status
    <3>1. Got' = Got + 1 /\ walk.available <= walk'.available
      BY <2>6 DEF Got
    <3>2. ByDownload \in Gains'
      <4>1. ByDownload # BySkipping /\ ByDownload # ByDatabase
        BY EventSeqs
      <4> QED
        BY <4>1 DEF Gains
    <3>3. pc' = "tally"
      BY <2>7 DEF Goto
    <3> QED
      BY <1>0, <1>2, <2>1, <2>3, <2>4, <2>5, <2>6, <2>7, <3>1, <3>2, <3>3, FoundInv
  <2>8. CASE Finish("failed")
    <3>1. pc' = "end" /\ status' = "failed"
      BY <2>8 DEF Finish, Goto
    <3>2. walk'.mine \subseteq walk'.seen
      BY <2>1, <2>6 DEF Inv, WalkShape
    <3>3. Clean'
      BY <1>2, <2>5, <3>1, LabelFacts DEF Clean, Files
    <3>4. SourceInv'
      BY <1>0, <2>6 DEF Inv, SourceInv, Used
    <3>5. touch' \in Touches
      BY <1>0 DEF Inv, Shape
    <3> QED
      BY <1>0, <2>3, <2>6, <3>1, <3>2, <3>3, <3>4, <3>5, EndsInv
  <2> QED
    BY <1>2, <2>7, <2>8
<1> QED
  BY <1>1, <1>2 DEF Commit

LEMMA InterruptInv ==
    ASSUME Inv, Interrupt
    PROVE  Inv'
<1>0. /\ touch' = touch /\ source' = source /\ late' = late /\ walk' = walk /\ log' = log
      /\ kind' = kind /\ open' = open /\ verdict' = verdict /\ jar' = FALSE
      /\ pc' = "end" /\ status' = "cancelled"
  BY DEF Interrupt, feedVars, runVars, Finish, Goto
<1>1. files' \subseteq {"orphan"}
  <2>1. CASE pc \in Fetching
    BY <2>1, Closing DEF Inv, Clean, Interrupt
  <2>2. CASE pc \notin Fetching
    BY <2>2 DEF Inv, Clean, Interrupt
  <2> QED
    BY <2>1, <2>2
<1> QED
  BY <1>0, <1>1, LeavesInv

-----------------------------------------------------------------------------
(* To the next position *)

LEMMA TallyInv ==
    ASSUME Inv, Tally
    PROVE  Inv'
<1>0. /\ pc = "tally" /\ touch' = touch /\ source' = source /\ late' = late /\ walk' = walk
      /\ jar' = jar /\ files' = files /\ kind' = kind /\ open' = open /\ verdict' = verdict
  BY DEF Tally, feedVars, fetchVars, runVars
<1>1. jar = FALSE /\ files \subseteq {"orphan"} /\ pc \in InPosition /\ pc \in Walking
      /\ pc \notin Acquiring
  BY <1>0, LabelFacts DEF Inv, Clean
<1>2. /\ log \in Seq(Seq(Events)) /\ Len(log) > 0 /\ walk \in Walks /\ walk.cand \in Reels
      /\ log[Len(log)] \in Seq(Events)
      /\ kind.feed = "gesture" => log[Len(log)] \in Gains
  BY <1>0, <1>1, InPositionFacts DEF LastShape
<1>3. /\ Got \in Nat /\ Target \in Nat
      /\ kind.stage = "3b" => Got = Len(log) /\ Got <= Target /\ Wanted = Target
  BY <1>0, <1>1, <1>2, TargetAssumption DEF Inv, Counted, Got, Walks, Wanted
<1>4. CASE Finish("failed") /\ log' = log
  BY <1>0, <1>1, <1>4, LeavesInv DEF Finish, Goto
<1>5. CASE Got >= Wanted /\ Finish("completed") /\ log' = log
  <2>0. pc' = "end" /\ status' = "completed"
    BY <1>5 DEF Finish, Goto
  <2>1. Shape'
    BY <1>0, <2>0, LabelFacts DEF Inv, Shape
  <2>2. WalkShape'
    BY <1>0, <2>0, LabelFacts DEF Inv, WalkShape
  <2>3. Clean'
    BY <1>0, <1>1, <2>0, LabelFacts DEF Clean, Files
  <2>4. SourceInv' /\ Handed' /\ Judged'
    BY <1>0, <2>0 DEF Inv, SourceInv, Used, Handed, Judged
  <2>5. LogShape'
    BY <1>2, <1>5, <2>0, LabelFacts DEF LogShape
  <2>6. Told'
    <3>1. Gains \subseteq Gains' /\ Passed \subseteq Passed'
      BY <1>0, <1>2, GainsGrow DEF Walks
    <3>2. kind.feed = "gesture" => \A p \in 1 .. Len(log) - 1 : log[p] \in Passed
      BY <1>1 DEF Inv, Told
    <3> QED
      BY <1>0, <1>2, <1>5, <2>0, <3>1, <3>2, LabelFacts DEF Told
  <2>7. Counted'
    <3>1. Got' = Got
      BY <1>0 DEF Got
    <3> QED
      BY <1>0, <1>3, <1>5, <2>0, <3>1, LabelFacts DEF Counted
  <2> QED
    BY <2>1, <2>2, <2>3, <2>4, <2>5, <2>6, <2>7 DEF Inv
<1>6. CASE ~(Got >= Wanted) /\ Record("cooldown") /\ Goto("advance") /\ status' = status
  <2>0. pc' = "advance" /\ pc' \in InPosition /\ pc' \in Walking /\ pc' \notin Acquiring
        /\ pc' \notin Fetching
    BY <1>6, LabelFacts DEF Goto
  <2>1. /\ log' \in Seq(Seq(Events)) /\ Len(log') = Len(log)
        /\ log'[Len(log)] = Append(log[Len(log)], "cooldown")
        /\ \A p \in 1 .. Len(log) - 1 : log'[p] = log[p]
    BY <1>2, <1>6, EventFacts, RecordLog
  <2>2. WalkShape'
    BY <1>0, <1>1, <2>0, LabelFacts DEF Inv, WalkShape, Before
  <2>3. Clean'
    BY <1>0, <1>1, <2>0 DEF Clean, Files
  <2>4. SourceInv' /\ Handed'
    BY <1>0, <2>0 DEF Inv, SourceInv, Used, Handed
  <2>5. kind.feed = "gesture" => LastShape(log[Len(log)])'
    <3>1. Gains \subseteq Gains'
      BY <1>0, <1>2, GainsGrow DEF Walks
    <3>2. kind.feed = "gesture" => \E e \in Gains' : log'[Len(log')] = Cooled(e)
      <4>1. log'[Len(log')] = Cooled(log[Len(log)])
        BY <2>1 DEF Cooled
      <4>2. kind.feed = "gesture" => log[Len(log)] \in Gains'
        BY <1>2, <3>1
      <4> QED
        BY <4>1, <4>2, Zenon
    <3> QED
      BY <2>0, <3>2 DEF LastShape
  <2>6. Counted'
    <3>1. Got' = Got
      BY <1>0 DEF Got
    <3>2. kind.stage = "3b" => Got < Target
      BY <1>3, <1>6
    <3> QED
      BY <1>0, <1>3, <2>0, <2>1, <3>1, <3>2 DEF Counted
  <2>7. touch' \in Touches /\ walk.available <= walk'.available
    BY <1>0, <1>2 DEF Inv, Shape, Walks
  <2> QED
    BY <1>0, <1>1, <1>6, <2>0, <2>1, <2>2, <2>3, <2>4, <2>5, <2>6, <2>7, MovesInv
<1> QED
  BY <1>4, <1>5, <1>6 DEF Tally, Got

\* The labels between two positions.
Travelling == {"advance", "gesture", "sample", "navigate", "reload", "arrive"}

LEMMA TravelsInv ==
    ASSUME Inv, pc \in Travelling, pc' \in Travelling,
           kind' = kind, verdict' = verdict, open' = open, late' = late, status' = status,
           jar' = jar, files' = files, touch' \in Touches,
           walk' \in Walks, walk'.cand \in Reels, walk'.seen = walk.seen, walk'.mine = walk.mine,
           walk'.committed = walk.committed, walk'.available = walk.available,
           pc' \in {"sample", "reload"} /\ kind.feed = "gesture" =>
              walk'.wheels + walk'.attempt <= MaxWheels,
           pc' \in {"gesture", "sample"} => kind.feed = "gesture",
           SourceInv', Handed',
           log' \in Seq(Seq(Events)), Len(log') = Len(log),
           \A p \in 1 .. Len(log) - 1 : log'[p] = log[p],
           kind.feed = "gesture" => LastShape(log[Len(log)])'
    PROVE  Inv'
<1>0. /\ pc \in InPosition /\ pc' \in InPosition /\ pc' \in Walking /\ pc' \notin Acquiring
      /\ pc' \notin Fetching /\ pc \in Walking /\ pc \notin Acquiring /\ pc \notin Fetching
      /\ pc' \notin Before /\ pc # "tally" /\ pc' # "tally" /\ pc' # "end"
  BY LabelFacts DEF Travelling, Before
<1>1. WalkShape'
  <2>1. walk.mine \subseteq walk.seen
    BY DEF Inv, WalkShape
  <2> QED
    BY <1>0, <2>1 DEF WalkShape
<1>2. Clean'
  BY <1>0 DEF Inv, Clean
<1>3. Counted'
  BY <1>0 DEF Inv, Counted, Got
<1>4. walk.available <= walk'.available
  BY DEF Inv, WalkShape, Walks
<1> QED
  BY <1>0, <1>1, <1>2, <1>3, <1>4, MovesInv

\* What is at hand between two positions.
LEMMA TravelFacts ==
    ASSUME Inv, pc \in Travelling
    PROVE  /\ jar = FALSE /\ files \subseteq {"orphan"} /\ pc \in InPosition
           /\ log \in Seq(Seq(Events)) /\ Len(log) > 0 /\ walk \in Walks /\ walk.cand \in Reels
           /\ log[Len(log)] \in Seq(Events) /\ walk.mine \subseteq walk.seen
           /\ kind.feed = "gesture" => LastShape(log[Len(log)])
           /\ touch \in Touches /\ source \in Good(Used)
<1>1. pc \in InPosition /\ pc \notin Fetching
  BY LabelFacts DEF Travelling
<1>2. jar = FALSE /\ files \subseteq {"orphan"} /\ walk.mine \subseteq walk.seen
  BY <1>1 DEF Inv, Clean, WalkShape
<1>3. touch \in Touches /\ source \in Good(Used)
  BY DEF Inv, Shape, SourceInv
<1> QED
  BY <1>1, <1>2, <1>3, InPositionFacts

\* The same ways to gain a Reel, if no more come from the database.
LEMMA GainsSame ==
    ASSUME kind' = kind, walk'.available = walk.available
    PROVE  Gains' = Gains
BY DEF Gains, Continuing

LEMMA AdvanceInv ==
    ASSUME Inv, Advance
    PROVE  Inv'
<1>0. /\ pc = "advance" /\ touch' = touch /\ source' = source /\ late' = late /\ log' = log
      /\ jar' = jar /\ files' = files /\ kind' = kind /\ open' = open /\ verdict' = verdict
  BY DEF Advance, feedVars, fetchVars, runVars
<1>1. pc \in Travelling
  BY <1>0 DEF Travelling
<1>2. CASE Finish("failed") /\ walk' = walk
  BY <1>0, <1>1, <1>2, TravelFacts, LeavesInv DEF Finish, Goto
<1>3. CASE /\ Goto(IF kind.feed = "source" THEN "navigate" ELSE "gesture")
           /\ walk' = [walk EXCEPT !.attempt = 1] /\ status' = status
  <2>1. /\ pc' \in {"navigate", "gesture"} /\ pc' \in Travelling
        /\ kind.feed = "gesture" => pc' = "gesture"
    BY <1>3 DEF Goto, Travelling
  <2>2. /\ walk' \in Walks /\ walk'.cand = walk.cand /\ walk'.seen = walk.seen
        /\ walk'.mine = walk.mine /\ walk'.committed = walk.committed
        /\ walk'.available = walk.available /\ walk'.attempt = 1
    BY <1>1, <1>3, TravelFacts DEF Walks
  <2>3. SourceInv' /\ Handed'
    <3>1. Used' = Used
      BY <2>2 DEF Used
    <3> QED
      BY <1>0, <2>1, <3>1 DEF Inv, SourceInv, Handed
  <2>4. kind.feed = "gesture" => LastShape(log[Len(log)])'
    <3>1. kind.feed = "gesture" => \E e \in Gains : log[Len(log)] = Cooled(e)
      BY <1>0, <1>1, TravelFacts DEF LastShape
    <3>2. kind.feed = "gesture" => \E e \in Gains' : log'[Len(log')] = Cooled(e)
      <4>1. Gains' = Gains
        BY <1>0, <2>2, GainsSame
      <4> QED
        BY <1>0, <3>1, <4>1, Zenon
    <3> QED
      BY <2>1, <2>2, <3>2 DEF LastShape
  <2>5. pc' \in {"gesture", "sample"} => kind.feed = "gesture"
    BY <1>3 DEF Goto, Inv, Shape
  <2>6. touch' \in Touches /\ walk'.cand \in Reels /\ log' \in Seq(Seq(Events))
    BY <1>0, <1>1, <2>2, TravelFacts
  <2> QED
    BY <1>0, <1>1, <1>3, <2>1, <2>2, <2>3, <2>4, <2>5, <2>6, TravelsInv
<1> QED
  BY <1>2, <1>3 DEF Advance

LEMMA ArriveInv ==
    ASSUME Inv, Arrive
    PROVE  Inv'
<1>0. /\ pc = "arrive" /\ touch' = touch /\ source' = source /\ late' = late /\ walk' = walk
      /\ jar' = jar /\ files' = files /\ kind' = kind /\ open' = open /\ verdict' = verdict
  BY DEF Arrive, feedVars, fetchVars, runVars
<1>1. pc \in Travelling
  BY <1>0 DEF Travelling
<1>2. CASE Finish("failed") /\ log' = log
  BY <1>0, <1>1, <1>2, TravelFacts, LeavesInv DEF Finish, Goto
<1>3. CASE Record("transition_confirmed") /\ Goto("look") /\ status' = status
  <2>0. pc' = "look"
    BY <1>3 DEF Goto
  <2>1. /\ log' \in Seq(Seq(Events)) /\ Len(log') = Len(log) /\ Len(log) > 0
        /\ log'[Len(log)] = Append(log[Len(log)], "transition_confirmed")
        /\ \A p \in 1 .. Len(log) - 1 : log'[p] = log[p]
    BY <1>1, <1>3, EventFacts, TravelFacts, RecordLog
  <2>2. Shape'
    BY <1>0, <1>3, <2>0, LabelFacts DEF Inv, Shape
  <2>3. WalkShape'
    BY <1>0, <1>1, <2>0, LabelFacts, TravelFacts DEF Inv, WalkShape, Before
  <2>4. Clean'
    BY <1>0, <1>1, <2>0, LabelFacts, TravelFacts DEF Clean, Files
  <2>5. SourceInv' /\ Handed' /\ Judged'
    BY <1>0, <1>3, <2>0 DEF Inv, SourceInv, Used, Handed, Judged
  <2>6. LogShape'
    BY <2>0, <2>1, LabelFacts DEF LogShape, Before
  <2>7. Told'
    <3>1. SUFFICES ASSUME kind.feed = "gesture" PROVE \A p \in 1 .. Len(log') : log'[p] \in Passed'
      BY <1>0, <2>0, LabelFacts DEF Told
    <3>2. walk.available \in Nat /\ walk.attempt \in {1, 2}
      BY <1>1, TravelFacts DEF Walks
    <3>3. Passed \subseteq Passed'
      BY <1>0, <3>2, GainsGrow
    <3>4. \A p \in 1 .. Len(log) - 1 : log[p] \in Passed
      BY <1>1, <3>1, TravelFacts DEF Inv, Told
    <3>5. PICK e \in Gains : log[Len(log)] = Moving(e, walk.attempt)
      BY <1>0, <1>1, <3>1, TravelFacts DEF LastShape
    <3>6. log'[Len(log)] \in Passed
      <4>1. log'[Len(log)] = Append(Moving(e, walk.attempt), "transition_confirmed")
        BY <2>1, <3>5, Zenon
      <4>2. Append(Moving(e, walk.attempt), "transition_confirmed") \in Passed
        BY <3>2 DEF Passed
      <4> QED
        BY <4>1, <4>2, Zenon
    <3>7. ASSUME NEW p \in 1 .. Len(log') PROVE log'[p] \in Passed'
      <4>1. CASE p = Len(log)
        BY <3>3, <3>6, <4>1
      <4>2. CASE p # Len(log)
        <5>1. p \in 1 .. Len(log) - 1
          BY <1>1, <2>1, <4>2, TravelFacts
        <5> QED
          BY <2>1, <3>3, <3>4, <5>1
      <4> QED
        BY <4>1, <4>2
    <3> QED
      BY <3>7
  <2>8. Counted'
    BY <1>0, <2>0, <2>1, LabelFacts DEF Inv, Counted, Got
  <2> QED
    BY <2>2, <2>3, <2>4, <2>5, <2>6, <2>7, <2>8 DEF Inv
<1> QED
  BY <1>2, <1>3 DEF Arrive

-----------------------------------------------------------------------------
(* The next candidate from the source *)

LEMMA Outcomes ==
    ASSUME NEW reason
    PROVE  Outcome(reason) \in {"none", "failed", "cancelled"}
BY DEF Outcome

LEMMA TakesLess ==
    ASSUME NEW U, NEW V, V \subseteq U, NEW taken, Takes(taken, U)
    PROVE  Takes(taken, V)
<1>1. Good(U) \subseteq Good(V)
  BY GoodLess
<1> QED
  BY <1>1 DEF Takes

\* A candidate that the source chose is used up when it is handed out.
LEMMA TakenUsed ==
    ASSUME Inv, NEW taken, taken.source \in Good(Used), taken.code \in Reels,
           source' = MarkUsed(taken.source, taken.code),
           walk'.cand = taken.code, walk'.seen = walk.seen
    PROVE  SourceInv'
<1>1. source' \in Good(Used \cup {taken.code})
  BY MarkUsedGood
<1>2. Used' \subseteq Used \cup {taken.code}
  BY DEF Used
<1> QED
  BY <1>1, <1>2, GoodLess DEF SourceInv

LEMMA HandOutInv ==
    ASSUME Inv, pc \in Travelling, kind.feed = "source", NEW taken, Takes(taken, Used),
           taken.code # None, HandOut(taken, "feed_source_advance"),
           touch' = touch, late' = late, jar' = jar, files' = files, kind' = kind,
           open' = open, verdict' = verdict
    PROVE  Inv'
<1>1. taken.source \in Good(Used) /\ taken.code \in Reels
  BY DEF Takes
<1>2. /\ pc' = "arrive" /\ status' = status /\ walk' = [walk EXCEPT !.cand = taken.code]
      /\ source' = MarkUsed(taken.source, taken.code) /\ Record("feed_source_advance")
  BY DEF HandOut, Goto
<1>3. /\ walk' \in Walks /\ walk'.cand = taken.code /\ walk'.seen = walk.seen
      /\ walk'.mine = walk.mine /\ walk'.committed = walk.committed
      /\ walk'.available = walk.available
  BY <1>1, <1>2, TravelFacts DEF Walks
<1>4. SourceInv'
  BY <1>1, <1>2, <1>3, TakenUsed
<1>5. Handed'
  <2>1. Roomy => taken.code \notin Used
    BY DEF Takes
  <2> QED
    BY <1>3, <2>1 DEF Handed, Used
<1>6. /\ log' \in Seq(Seq(Events)) /\ Len(log') = Len(log)
      /\ \A p \in 1 .. Len(log) - 1 : log'[p] = log[p]
  BY <1>2, EventFacts, TravelFacts, RecordLog
<1>7. touch' \in Touches /\ pc' \in Travelling /\ walk'.cand \in Reels
  BY <1>1, <1>2, <1>3, TravelFacts DEF Travelling
<1> QED
  BY <1>2, <1>3, <1>4, <1>5, <1>6, <1>7, TravelsInv

LEMMA TakeQueuedInv ==
    ASSUME Inv, TakeQueued
    PROVE  Inv'
<1>0. /\ pc = "navigate" /\ touch' = touch /\ late' = late /\ kind.feed = "source"
      /\ jar' = jar /\ files' = files /\ kind' = kind /\ open' = open /\ verdict' = verdict
  BY DEF TakeQueued, fetchVars, runVars
<1>1. pc \in Travelling
  BY <1>0 DEF Travelling
<1> DEFINE taken == NextEmbedded(source, walk.cand)
<1>2. Takes(taken, Used)
  BY <1>1, TravelFacts, NextGood
<1>3. PICK stop \in ControlledStops :
          IF stop # None THEN Finish(Outcome(stop)) /\ UNCHANGED <<source, walk, log>>
          ELSE IF late THEN Finish("failed") /\ UNCHANGED <<source, walk, log>>
          ELSE IF taken.code # None THEN HandOut(taken, "feed_source_advance")
          ELSE /\ source' = ResetForNavigation(source)
               /\ Goto("reload")
               /\ UNCHANGED <<walk, log, status>>
  BY DEF TakeQueued
<1> HIDE DEF taken
<1>4. CASE Finish(Outcome(stop)) /\ UNCHANGED <<source, walk, log>>
  <2>1. pc' = "end" /\ status' \in {"none", "failed", "cancelled"}
    BY <1>4, Outcomes DEF Finish, Goto
  <2> QED
    BY <1>0, <1>1, <1>4, <2>1, TravelFacts, LeavesInv
<1>5. CASE Finish("failed") /\ UNCHANGED <<source, walk, log>>
  <2>1. pc' = "end" /\ status' \in {"none", "failed", "cancelled"}
    BY <1>5 DEF Finish, Goto
  <2> QED
    BY <1>0, <1>1, <1>5, <2>1, TravelFacts, LeavesInv
<1>6. CASE taken.code # None /\ HandOut(taken, "feed_source_advance")
  BY <1>0, <1>1, <1>2, <1>6, HandOutInv
<1>7. CASE source' = ResetForNavigation(source) /\ Goto("reload") /\ UNCHANGED <<walk, log, status>>
  <2>1. pc' = "reload" /\ pc' \in Travelling
    BY <1>7 DEF Goto, Travelling
  <2>2. SourceInv'
    <3>1. Used' = Used
      BY <1>7 DEF Used
    <3>2. source' \in Good(Used)
      BY <1>1, <1>7, TravelFacts, ResetGood
    <3> QED
      BY <3>1, <3>2 DEF SourceInv
  <2>3. Handed'
    BY <2>1 DEF Handed
  <2> QED
    BY <1>0, <1>1, <1>7, <2>1, <2>2, <2>3, TravelFacts, TravelsInv
<1> QED
  BY <1>3, <1>4, <1>5, <1>6, <1>7

\* The document and the Reel on the page after a navigation.
LEMMA FreshSource ==
    ASSUME NEW U, NEW s \in Good(U), NEW card \in Reels, NEW script \in Scripts, NEW previous
    PROVE  /\ MarkUsed(ObserveEmbedded(s, script), card) \in Good(U)
           /\ Takes(NextEmbedded(MarkUsed(ObserveEmbedded(s, script), card), previous), U)
<1>1. script \in Seq(Reels)
  BY WalkAssumption
<1> DEFINE fresh == MarkUsed(ObserveEmbedded(s, script), card)
<1>2. fresh \in Good(U \cup {card})
  BY <1>1, ObserveGood, MarkUsedGood
<1> HIDE DEF fresh
<1>3. U \subseteq U \cup {card}
  OBVIOUS
<1>4. fresh \in Good(U)
  BY <1>2, <1>3, GoodLess
<1>5. Takes(NextEmbedded(fresh, previous), U)
  BY <1>4, NextGood
<1> QED
  BY <1>4, <1>5 DEF fresh

LEMMA TakeReloadedInv ==
    ASSUME Inv, TakeReloaded
    PROVE  Inv'
<1>0. /\ pc = "reload" /\ touch' = touch /\ late' = late /\ kind.feed = "source"
      /\ jar' = jar /\ files' = files /\ kind' = kind /\ open' = open /\ verdict' = verdict
  BY DEF TakeReloaded, fetchVars, runVars
<1>1. pc \in Travelling
  BY <1>0 DEF Travelling
<1>2. ASSUME NEW reason, Finish(Outcome(reason)), UNCHANGED <<source, walk, log>>
      PROVE  Inv'
  <2>1. pc' = "end" /\ status' \in {"none", "failed", "cancelled"}
    BY <1>2, Outcomes DEF Finish, Goto
  <2> QED
    BY <1>0, <1>1, <1>2, <2>1, TravelFacts, LeavesInv
<1>3. ASSUME NEW card \in Reels, NEW script \in Scripts, NEW fresh, NEW taken,
             fresh = MarkUsed(ObserveEmbedded(source, script), card),
             taken = NextEmbedded(fresh, walk.cand),
             IF taken.code = None
             THEN source' = fresh /\ Finish("failed") /\ UNCHANGED <<walk, log>>
             ELSE HandOut(taken, "feed_source_advance")
      PROVE  Inv'
  <2>1. fresh \in Good(Used) /\ Takes(taken, Used)
    BY <1>1, <1>3, TravelFacts, FreshSource
  <2>2. CASE taken.code # None
    BY <1>0, <1>1, <1>3, <2>1, <2>2, HandOutInv
  <2>3. CASE taken.code = None
    <3>1. /\ pc' = "end" /\ status' = "failed" /\ source' = fresh
          /\ walk' = walk /\ log' = log
      BY <1>3, <2>3 DEF Finish, Goto
    <3>2. SourceInv'
      <4>1. Used' = Used
        BY <3>1 DEF Used
      <4> QED
        BY <2>1, <3>1, <4>1 DEF SourceInv
    <3>3. Clean'
      BY <1>0, <1>1, <3>1, LabelFacts, TravelFacts DEF Clean, Files
    <3> QED
      BY <1>0, <1>1, <3>1, <3>2, <3>3, TravelFacts, EndsInv
  <2> QED
    BY <2>2, <2>3
<1>4. CASE \E reason \in InitialReel \ Reels :
             Finish(Outcome(reason)) /\ UNCHANGED <<source, walk, log>>
  BY <1>2, <1>4
<1>5. CASE \E card \in InitialReel \cap Reels, script \in Scripts :
             LET fresh == MarkUsed(ObserveEmbedded(source, script), card)
                 taken == NextEmbedded(fresh, walk.cand)
             IN  IF taken.code = None
                 THEN source' = fresh /\ Finish("failed") /\ UNCHANGED <<walk, log>>
                 ELSE HandOut(taken, "feed_source_advance")
  BY <1>3, <1>5
<1> QED
  BY <1>4, <1>5 DEF TakeReloaded

-----------------------------------------------------------------------------
(* The next candidate by gestures *)

LEMMA GestureTouch ==
    ASSUME Inv, ~(touch.scrolls >= MaxScrolls), NEW confirmed \in BOOLEAN, NEW known \in BOOLEAN
    PROVE  [scrolls |-> touch.scrolls + 1, forced |-> FALSE, confirmed |-> confirmed,
            identity |-> known, checkpoint |-> source.obs] \in Touches
<1>1. touch.scrolls + 1 \in 0 .. MaxScrolls
  BY WalkAssumption DEF Inv, Shape, Touches
<1>2. source.obs \in Nat
  BY DEF Inv, SourceInv, Good, Sources
<1> QED
  BY <1>1, <1>2 DEF Touches

LEMMA GestureInv ==
    ASSUME Inv, Gesture
    PROVE  Inv'
<1>0. /\ pc = "gesture" /\ source' = source /\ walk' = walk /\ late' = late
      /\ jar' = jar /\ files' = files /\ kind' = kind /\ open' = open /\ verdict' = verdict
  BY DEF Gesture, fetchVars, runVars
<1>1. pc \in Travelling
  BY <1>0 DEF Travelling
<1>2. ASSUME NEW st \in {"failed", "cancelled"}, Finish(st), touch' = touch, log' = log
      PROVE  Inv'
  <2>1. pc' = "end" /\ status' \in {"none", "failed", "cancelled"}
    BY <1>2 DEF Finish, Goto
  <2> QED
    BY <1>0, <1>1, <1>2, <2>1, TravelFacts, LeavesInv
<1>3. ASSUME ~(walk.attempt > MaxWheels - walk.wheels \/ late \/ touch.scrolls >= MaxScrolls),
             NEW confirmed \in BOOLEAN, NEW known \in BOOLEAN,
             touch' = [scrolls |-> touch.scrolls + 1, forced |-> FALSE, confirmed |-> confirmed,
                       identity |-> known, checkpoint |-> source.obs],
             Record(GestureEvent), Goto("sample"), status' = status
      PROVE  Inv'
  <2>0. pc' = "sample" /\ pc' \in Travelling
    BY <1>3 DEF Goto, Travelling
  <2>1. touch' \in Touches
    BY <1>3, GestureTouch
  <2>2. walk.wheels \in Nat /\ walk.attempt \in {1, 2} /\ MaxWheels \in Nat
    BY <1>1, TravelFacts, WalkAssumption DEF Walks
  <2>3. walk'.wheels + walk'.attempt <= MaxWheels
    BY <1>0, <1>3, <2>2
  <2>4. kind.feed = "gesture"
    BY <1>0 DEF Inv, WalkShape
  <2>5. GestureEvent \in Events
    BY EventFacts DEF GestureEvent
  <2>6. /\ log' \in Seq(Seq(Events)) /\ Len(log') = Len(log)
        /\ log'[Len(log)] = Append(log[Len(log)], GestureEvent)
        /\ \A p \in 1 .. Len(log) - 1 : log'[p] = log[p]
    BY <1>1, <1>3, <2>5, TravelFacts, RecordLog
  <2>7. SourceInv' /\ Handed'
    BY <1>0, <2>0 DEF Inv, SourceInv, Used, Handed
  <2>8. LastShape(log[Len(log)])'
    <3>1. PICK e \in Gains :
              log[Len(log)] = IF walk.attempt = 1 THEN Cooled(e) ELSE Append(Cooled(e), "advance")
      BY <1>0, <1>1, <2>4, TravelFacts DEF LastShape
    <3>2. log'[Len(log)] = Moving(e, walk.attempt)
      BY <2>6, <3>1 DEF Moving, GestureEvent
    <3>3. Gains' = Gains
      BY <1>0, GainsSame
    <3>4. \E d \in Gains' : log'[Len(log')] = Moving(d, walk'.attempt)
      BY <1>0, <2>6, <3>2, <3>3, Zenon
    <3> QED
      BY <2>0, <3>4 DEF LastShape
  <2>9. walk' \in Walks /\ walk'.cand \in Reels
    BY <1>0, <1>1, TravelFacts
  <2> QED
    BY <1>0, <1>1, <1>3, <2>0, <2>1, <2>3, <2>4, <2>6, <2>7, <2>8, <2>9, TravelsInv
<1>4. CASE walk.attempt > MaxWheels - walk.wheels \/ late \/ touch.scrolls >= MaxScrolls
  BY <1>2, <1>4 DEF Gesture
<1>5. CASE ~(walk.attempt > MaxWheels - walk.wheels \/ late \/ touch.scrolls >= MaxScrolls)
  <2>1. CASE Finish("cancelled") /\ UNCHANGED <<touch, sample, log>>
    BY <1>2, <2>1
  <2>2. ASSUME NEW identity \in BOOLEAN, NEW found \in BOOLEAN, NEW changed \in BOOLEAN,
               NEW keyed \in BOOLEAN, NEW wheeled \in BOOLEAN,
               NEW start \in Surfaces, NEW end \in Surfaces, NEW confirmed,
               confirmed = GestureConfirmed(identity, SwipeAdvances(start, end, changed), keyed),
               IF confirmed \/ wheeled
               THEN /\ touch' = [scrolls |-> touch.scrolls + 1, forced |-> FALSE,
                                 confirmed |-> confirmed, identity |-> identity \/ found,
                                 checkpoint |-> source.obs]
                    /\ sample' = NoSample
                    /\ Record(GestureEvent)
                    /\ Goto("sample")
                    /\ UNCHANGED status
               ELSE Finish("failed") /\ UNCHANGED <<touch, sample, log>>
        PROVE  Inv'
    <3>1. confirmed \in BOOLEAN
      BY <2>2, Zenon DEF GestureConfirmed
    <3>2. (identity \/ found) \in BOOLEAN
      OBVIOUS
    <3>3. CASE ~(confirmed \/ wheeled)
      BY <1>2, <2>2, <3>3
    <3>4. CASE confirmed \/ wheeled
      BY <1>3, <1>5, <2>2, <3>1, <3>2, <3>4
    <3> QED
      BY <3>3, <3>4
  <2> QED
    BY <1>5, <2>1, <2>2 DEF Gesture
<1> QED
  BY <1>4, <1>5

\* A walk by gestures that waits for a Reel.
Waiting == pc \in {"sample", "reload"} /\ kind.feed = "gesture"

LEMMA SightedInv ==
    ASSUME Inv, Waiting, NEW taken, taken.source \in Good(Used), taken.code \in Reels,
           Sighted(taken), log' = log, late' = late, jar' = jar, files' = files, kind' = kind,
           open' = open, verdict' = verdict
    PROVE  Inv'
<1>0. pc \in Travelling /\ pc' = "arrive" /\ pc' \in Travelling /\ status' = status
  BY DEF Waiting, Travelling, Sighted, Goto
<1>1. walk.wheels + walk.attempt <= MaxWheels
  BY DEF Inv, WalkShape, Waiting
<1>2. walk.wheels + walk.attempt \in 0 .. MaxWheels
  BY <1>0, <1>1, TravelFacts, WalkAssumption DEF Walks
<1>3. walk' = [walk EXCEPT !.cand = taken.code, !.wheels = walk.wheels + walk.attempt]
  BY DEF Sighted
<1>4. /\ walk' \in Walks /\ walk'.cand = taken.code /\ walk'.seen = walk.seen
      /\ walk'.mine = walk.mine /\ walk'.committed = walk.committed
      /\ walk'.available = walk.available /\ walk'.attempt = walk.attempt
  BY <1>0, <1>2, <1>3, TravelFacts DEF Walks
<1>5. touch' \in Touches
  BY <1>0, TravelFacts DEF Sighted, Touches
<1>6. SourceInv'
  BY <1>4, TakenUsed DEF Sighted
<1>7. Handed'
  BY DEF Handed, Waiting
<1>8. LastShape(log[Len(log)])'
  <2>1. \E e \in Gains : log[Len(log)] = Moving(e, walk.attempt)
    BY <1>0, TravelFacts DEF LastShape, Waiting
  <2>2. Gains' = Gains
    BY <1>4, GainsSame
  <2>3. \E e \in Gains' : log'[Len(log')] = Moving(e, walk'.attempt)
    BY <1>4, <2>1, <2>2, Zenon
  <2> QED
    BY <1>0, <2>3 DEF LastShape
<1>9. log' \in Seq(Seq(Events))
  BY <1>0, TravelFacts
<1> QED
  BY <1>0, <1>4, <1>5, <1>6, <1>7, <1>8, <1>9, TravelsInv

\* Another poll, a refresh or the one retry; the walk else ends.
LEMMA WaitsInv ==
    ASSUME Inv, Waiting, pc' \in {"sample", "reload"}, status' = status, source' \in Good(Used),
           touch' = touch, walk' = walk, log' = log, late' = late, jar' = jar, files' = files,
           kind' = kind, open' = open, verdict' = verdict
    PROVE  Inv'
<1>0. pc \in Travelling /\ pc' \in Travelling
  BY DEF Waiting, Travelling
<1>1. walk.wheels + walk.attempt <= MaxWheels
  BY DEF Inv, WalkShape, Waiting
<1>2. SourceInv' /\ Handed'
  BY DEF SourceInv, Used, Handed
<1>3. LastShape(log[Len(log)])'
  <2>1. \E e \in Gains : log[Len(log)] = Moving(e, walk.attempt)
    BY <1>0, TravelFacts DEF LastShape, Waiting
  <2>2. Gains' = Gains
    BY GainsSame
  <2>3. \E e \in Gains' : log'[Len(log')] = Moving(e, walk'.attempt)
    BY <2>1, <2>2, Zenon
  <2> QED
    BY <2>3 DEF LastShape
<1>4. walk' \in Walks /\ walk'.cand \in Reels /\ touch' \in Touches /\ log' \in Seq(Seq(Events))
  BY <1>0, TravelFacts
<1> QED
  BY <1>0, <1>1, <1>2, <1>3, <1>4, TravelsInv DEF Waiting

LEMMA UnsightedInv ==
    ASSUME Inv, Waiting, NEW s \in Good(Used), NEW next, Unsighted(s, next),
           log' = log, late' = late, jar' = jar, files' = files,
           kind' = kind, open' = open, verdict' = verdict
    PROVE  Inv'
<1>0. pc \in Travelling /\ source' = s
  BY DEF Waiting, Travelling, Unsighted
<1>1. CASE PollsLeft(next)
  <2>1. pc' = "sample" /\ touch' = touch /\ walk' = walk /\ status' = status
    BY <1>1 DEF Unsighted, Goto
  <2> QED
    BY <1>0, <2>1, WaitsInv
<1>2. CASE ~PollsLeft(next)
  <2>1. touch' = [touch EXCEPT !.forced = touch.forced \/ touch.confirmed]
    BY <1>2 DEF Unsighted
  <2>2. touch' \in Touches
    <3>1. (touch.forced \/ touch.confirmed) \in BOOLEAN
      OBVIOUS
    <3> QED
      BY <1>0, <2>1, <3>1, TravelFacts DEF Touches
  <2>3. CASE walk.attempt = 1 /\ ~late
    <3>1. /\ walk' = [walk EXCEPT !.attempt = 2] /\ pc' = "gesture" /\ status' = status
          /\ pc' \in Travelling
      BY <1>2, <2>3 DEF Unsighted, Goto, Travelling
    <3>2. /\ walk' \in Walks /\ walk'.cand = walk.cand /\ walk'.seen = walk.seen
          /\ walk'.mine = walk.mine /\ walk'.committed = walk.committed
          /\ walk'.available = walk.available /\ walk'.attempt = 2
      BY <1>0, <3>1, TravelFacts DEF Walks
    <3>3. SourceInv' /\ Handed'
      <4>1. Used' = Used
        BY <3>2 DEF Used
      <4> QED
        BY <1>0, <3>1, <4>1 DEF SourceInv, Handed
    <3>4. LastShape(log[Len(log)])'
      <4>1. PICK e \in Gains : log[Len(log)] = Moving(e, walk.attempt)
        BY <1>0, TravelFacts DEF LastShape, Waiting
      <4>2. log[Len(log)] = Append(Cooled(e), "advance")
        BY <2>3, <4>1 DEF Moving
      <4>3. Gains' = Gains
        BY <3>2, GainsSame
      <4>4. \E d \in Gains' : log'[Len(log')] = Append(Cooled(d), "advance")
        BY <4>2, <4>3, Zenon
      <4> QED
        BY <3>1, <3>2, <4>4 DEF LastShape
    <3>5. walk'.cand \in Reels /\ log' \in Seq(Seq(Events))
      BY <1>0, <3>2, TravelFacts
    <3> QED
      BY <1>0, <2>2, <3>1, <3>2, <3>3, <3>4, <3>5, TravelsInv DEF Waiting
  <2>4. CASE ~(walk.attempt = 1 /\ ~late)
    <3>1. pc' = "end" /\ status' = "failed" /\ walk' = walk
      BY <1>2, <2>4 DEF Unsighted, Finish, Goto
    <3>2. SourceInv'
      BY <1>0, <3>1 DEF SourceInv, Used
    <3>3. Clean'
      BY <1>0, <3>1, LabelFacts, TravelFacts DEF Clean, Files
    <3> QED
      BY <1>0, <2>2, <3>1, <3>2, <3>3, TravelFacts, EndsInv
  <2> QED
    BY <2>3, <2>4
<1> QED
  BY <1>1, <1>2

\* The Reel on the screen, or one that the source chose.
LEMMA SightingGood ==
    ASSUME NEW U, NEW s \in Good(U), NEW card \in Reels \cup {None}
    PROVE  Sighting(s, card).source \in Good(U) /\ Sighting(s, card).code \in Reels \cup {None}
<1>1. CASE ~ObservedAfter(s, touch.checkpoint)
  BY <1>1, NextGood DEF Sighting, Takes
<1>2. CASE ObservedAfter(s, touch.checkpoint) /\ card \notin {None, walk.cand}
  BY <1>2 DEF Sighting
<1>3. CASE ObservedAfter(s, touch.checkpoint) /\ card \in {None, walk.cand}
  <2> DEFINE after == NextAfter(s, walk.cand, touch.checkpoint)
  <2>1. Sighting(s, card) = IF after.code # None THEN after ELSE NextFromCurrentFeed(s, walk.cand)
    BY <1>3 DEF Sighting
  <2>2. Takes(after, U) /\ Takes(NextFromCurrentFeed(s, walk.cand), U)
    BY NextGood
  <2> HIDE DEF after
  <2> QED
    BY <2>1, <2>2 DEF Takes
<1> QED
  BY <1>1, <1>2, <1>3

LEMMA SampleStableInv ==
    ASSUME Inv, Waiting, NEW next, NEW s \in Good(Used), NEW card \in Reels \cup {None},
           SampleStable(next, s, card),
           log' = log, late' = late, jar' = jar, files' = files,
           kind' = kind, open' = open, verdict' = verdict
    PROVE  Inv'
<1> DEFINE taken == Sighting(s, card)
           once == [next EXCEPT !.refreshed = TRUE]
<1>1. taken.source \in Good(Used) /\ taken.code \in Reels \cup {None}
  BY SightingGood
<1>2. IF taken.code # None THEN Sighted(taken)
      ELSE \/ /\ ~sample.refreshed
              /\ source' = ResetForNavigation(s)
              /\ sample' = once
              /\ Goto("reload") /\ UNCHANGED <<touch, walk, status>>
           \/ Unsighted(s, once)
  BY DEF SampleStable
<1> HIDE DEF taken, once
<1>3. CASE taken.code # None
  <2>1. taken.code \in Reels
    BY <1>1, <1>3
  <2> QED
    BY <1>1, <1>2, <1>3, <2>1, SightedInv
<1>4. CASE source' = ResetForNavigation(s) /\ Goto("reload") /\ UNCHANGED <<touch, walk, status>>
  <2>1. pc' = "reload" /\ source' \in Good(Used)
    BY <1>4, ResetGood DEF Goto
  <2> QED
    BY <1>4, <2>1, WaitsInv
<1>5. CASE Unsighted(s, once)
  BY <1>5, UnsightedInv
<1> QED
  BY <1>2, <1>3, <1>4, <1>5

LEMMA SampleInv ==
    ASSUME Inv, Sample
    PROVE  Inv'
<1>0. /\ pc = "sample" /\ log' = log /\ late' = late
      /\ jar' = jar /\ files' = files /\ kind' = kind /\ open' = open /\ verdict' = verdict
  BY DEF Sample, fetchVars, runVars
<1>1. Waiting /\ pc \in Travelling
  BY <1>0 DEF Inv, WalkShape, Waiting, Travelling
<1>2. source \in Good(Used)
  BY DEF Inv, SourceInv
<1>3. ASSUME NEW st \in {"none", "failed", "cancelled"}, Finish(st), UNCHANGED <<feedVars, walk>>
      PROVE  Inv'
  <2>1. pc' = "end" /\ status' = st /\ touch' = touch /\ source' = source /\ walk' = walk
    BY <1>3 DEF Finish, Goto, feedVars
  <2> QED
    BY <1>0, <1>1, <2>1, TravelFacts, LeavesInv
<1>4. CASE \E stop \in ControlledStops \ {None} :
              Finish(Outcome(stop)) /\ UNCHANGED <<feedVars, walk>>
  BY <1>3, <1>4, Outcomes
<1>5. ASSUME NEW next, IF next.stable < 2 THEN Unsighted(source, next)
                       ELSE \E script \in Scripts, card \in Reels \cup {None} :
                               SampleStable(next, ObserveEmbedded(source, script), card)
      PROVE  Inv'
  <2>1. CASE Unsighted(source, next)
    BY <1>0, <1>1, <1>2, <2>1, UnsightedInv
  <2>2. ASSUME NEW script \in Scripts, NEW card \in Reels \cup {None},
               SampleStable(next, ObserveEmbedded(source, script), card)
        PROVE  Inv'
    <3>1. ObserveEmbedded(source, script) \in Good(Used)
      BY <1>2, ObserveGood, WalkAssumption
    <3> QED
      BY <1>0, <1>1, <2>2, <3>1, SampleStableInv
  <2> QED
    BY <1>5, <2>1, <2>2
<1>6. CASE \E media \in {"no", "same", "new"} :
              LET next == Sampled(media) IN
              IF next.stable < 2 THEN Unsighted(source, next)
              ELSE \E script \in Scripts, card \in Reels \cup {None} :
                      SampleStable(next, ObserveEmbedded(source, script), card)
  BY <1>5, <1>6
<1> QED
  BY <1>3, <1>4, <1>6 DEF Sample

LEMMA SampleReloadedInv ==
    ASSUME Inv, SampleReloaded
    PROVE  Inv'
<1>0. /\ pc = "reload" /\ log' = log /\ late' = late /\ kind.feed = "gesture"
      /\ jar' = jar /\ files' = files /\ kind' = kind /\ open' = open /\ verdict' = verdict
  BY DEF SampleReloaded, fetchVars, runVars
<1>1. Waiting /\ pc \in Travelling
  BY <1>0 DEF Waiting, Travelling
<1>2. source \in Good(Used)
  BY DEF Inv, SourceInv
<1>3. ASSUME NEW reason, Finish(Outcome(reason)), UNCHANGED <<feedVars, walk>>
      PROVE  Inv'
  <2>1. /\ pc' = "end" /\ status' \in {"none", "failed", "cancelled"}
        /\ touch' = touch /\ source' = source /\ walk' = walk
    BY <1>3, Outcomes DEF Finish, Goto, feedVars
  <2> QED
    BY <1>0, <1>1, <2>1, TravelFacts, LeavesInv
<1>4. ASSUME NEW card \in Reels, NEW script \in Scripts, NEW fresh, NEW taken,
             fresh = MarkUsed(ObserveEmbedded(source, script), card),
             taken = NextEmbedded(fresh, walk.cand),
             IF taken.code = None THEN Unsighted(fresh, sample) ELSE Sighted(taken)
      PROVE  Inv'
  <2>1. fresh \in Good(Used) /\ Takes(taken, Used)
    BY <1>2, <1>4, FreshSource
  <2>2. CASE taken.code = None
    BY <1>0, <1>1, <1>4, <2>1, <2>2, UnsightedInv
  <2>3. CASE taken.code # None
    <3>1. taken.source \in Good(Used) /\ taken.code \in Reels
      BY <2>1, <2>3 DEF Takes
    <3> QED
      BY <1>0, <1>1, <1>4, <2>3, <3>1, SightedInv
  <2> QED
    BY <2>2, <2>3
<1>5. CASE \E reason \in InitialReel \ Reels :
             Finish(Outcome(reason)) /\ UNCHANGED <<feedVars, walk>>
  BY <1>3, <1>5
<1>6. CASE \E card \in InitialReel \cap Reels, script \in Scripts :
             LET fresh == MarkUsed(ObserveEmbedded(source, script), card)
                 taken == NextEmbedded(fresh, walk.cand)
             IN  IF taken.code = None THEN Unsighted(fresh, sample) ELSE Sighted(taken)
  BY <1>4, <1>6
<1> QED
  BY <1>5, <1>6 DEF SampleReloaded

-----------------------------------------------------------------------------
(* The verification of a completed walk by gestures *)

\* How a position is left, at once or with a retry.
Cool == <<"cooldown", "advance">>
Done == <<"transition_confirmed">>
Retried == <<"advance_retry", "transition_confirmed">>
Skip == <<"duplicate_skipped">>
Leaving(n) == IF n = 1 THEN Done ELSE Retried
Move(n) == Cool \o Leaving(n)

LEMMA MoveSeqs ==
    /\ Cool \in Seq(Events) /\ Len(Cool) = 2 /\ Cool[1] = "cooldown" /\ Cool[2] = "advance"
    /\ Done \in Seq(Events) /\ Len(Done) = 1 /\ Done[1] = "transition_confirmed"
    /\ Retried \in Seq(Events) /\ Len(Retried) = 2 /\ Retried[1] = "advance_retry"
    /\ Retried[2] = "transition_confirmed"
    /\ Skip \in Seq(Events) /\ Len(Skip) = 1 /\ Skip[1] = "duplicate_skipped"
    /\ Seen \in Seq(Events) /\ Len(Seen) = 2 /\ Seen[1] = "detect" /\ Seen[2] = "pause"
    /\ Acquired \in Seq(Events) /\ Len(Acquired) = 4 /\ Acquired[1] = "download"
    /\ Acquired[2] = "validation" /\ Acquired[3] = "publish" /\ Acquired[4] = "db_commit"
BY DEF Events, Cool, Done, Retried, Skip, Seen, Acquired

\* A sequence followed by a short one, event by event.
LEMMA Joined ==
    ASSUME NEW s \in Seq(Events), NEW t \in Seq(Events), NEW q \in Seq(Events),
           Len(q) = Len(s) + Len(t),
           \A i \in 1 .. Len(s) : q[i] = s[i],
           \A i \in 1 .. Len(t) : q[Len(s) + i] = t[i]
    PROVE  q = s \o t
<1>1. /\ s \o t \in Seq(Events) /\ Len(s \o t) = Len(s) + Len(t)
      /\ \A i \in 1 .. Len(s) + Len(t) : (s \o t)[i] = IF i <= Len(s) THEN s[i] ELSE t[i - Len(s)]
  BY ConcatProperties
<1>2. ASSUME NEW i \in 1 .. Len(q) PROVE q[i] = (s \o t)[i]
  <2>1. CASE i <= Len(s)
    BY <1>1, <2>1
  <2>2. CASE ~(i <= Len(s))
    <3>1. i - Len(s) \in 1 .. Len(t) /\ Len(s) + (i - Len(s)) = i
      BY <2>2
    <3>2. q[Len(s) + (i - Len(s))] = t[i - Len(s)]
      BY <3>1
    <3> QED
      BY <1>1, <2>2, <3>1, <3>2
  <2> QED
    BY <2>1, <2>2
<1> QED
  BY <1>1, <1>2, SeqEqual

\* Appending two or three events.
LEMMA AppendTwo ==
    ASSUME NEW s \in Seq(Events), NEW a \in Events, NEW b \in Events,
           NEW t \in Seq(Events), Len(t) = 2, t[1] = a, t[2] = b
    PROVE  Append(Append(s, a), b) = s \o t
<1> DEFINE x == Append(s, a)
           q == Append(x, b)
<1>1. /\ x \in Seq(Events) /\ Len(x) = Len(s) + 1 /\ x[Len(s) + 1] = a
      /\ \A i \in 1 .. Len(s) : x[i] = s[i]
  BY AppendProperties
<1> HIDE DEF x
<1>2. /\ q \in Seq(Events) /\ Len(q) = Len(x) + 1 /\ q[Len(x) + 1] = b
      /\ \A i \in 1 .. Len(x) : q[i] = x[i]
  BY <1>1, AppendProperties
<1> HIDE DEF q
<1>3. Len(s) \in Nat /\ Len(s) + 1 \in 1 .. Len(x) /\ Len(x) + 1 = Len(s) + 2
  BY <1>1
<1>4. q[Len(s) + 1] = a /\ q[Len(s) + 2] = b
  BY <1>1, <1>2, <1>3
<1>5. \A i \in 1 .. Len(s) : q[i] = s[i]
  BY <1>1, <1>2, <1>3
<1>6. \A i \in 1 .. Len(t) : q[Len(s) + i] = t[i]
  BY <1>4
<1>7. Len(q) = Len(s) + Len(t)
  BY <1>1, <1>2, <1>3
<1>8. q = s \o t
  BY <1>2, <1>5, <1>6, <1>7, Joined
<1> QED
  BY <1>8 DEF q, x

LEMMA AppendOne ==
    ASSUME NEW s \in Seq(Events), NEW a \in Events, NEW t \in Seq(Events), Len(t) = 1, t[1] = a
    PROVE  Append(s, a) = s \o t
<1> DEFINE q == Append(s, a)
<1>1. /\ q \in Seq(Events) /\ Len(q) = Len(s) + 1 /\ q[Len(s) + 1] = a
      /\ \A i \in 1 .. Len(s) : q[i] = s[i]
  BY AppendProperties
<1> HIDE DEF q
<1>2. \A i \in 1 .. Len(t) : q[Len(s) + i] = t[i]
  BY <1>1
<1>3. q = s \o t
  BY <1>1, <1>2, Joined
<1> QED
  BY <1>3 DEF q

LEMMA Moved ==
    ASSUME NEW e \in Seq(Events), NEW n \in {1, 2}
    PROVE  /\ Append(Moving(e, n), "transition_confirmed") = (e \o Cool) \o Leaving(n)
           /\ Append(Moving(e, n), "transition_confirmed") = e \o Move(n)
           /\ Leaving(n) \in Seq(Events) /\ Move(n) \in Seq(Events)
<1>1. Append(Cooled(e), "advance") = e \o Cool
  <2> DEFINE a == "cooldown"
             b == "advance"
  <2>1. a \in Events /\ b \in Events /\ Cool[1] = a /\ Cool[2] = b
    BY EventFacts, MoveSeqs
  <2>2. Cool \in Seq(Events) /\ Len(Cool) = 2
    BY MoveSeqs
  <2> HIDE DEF a, b
  <2>3. Append(Append(e, a), b) = e \o Cool
    BY <2>1, <2>2, AppendTwo
  <2> QED
    BY <2>3 DEF Cooled, a, b
<1>2. e \o Cool \in Seq(Events)
  BY MoveSeqs, ConcatProperties
<1>3. Append(Moving(e, n), "transition_confirmed") = (e \o Cool) \o Leaving(n)
  <2>1. CASE n = 1
    <3>1. Moving(e, n) = e \o Cool /\ Leaving(n) = Done
      BY <1>1, <2>1 DEF Moving, Leaving
    <3>2. Append(e \o Cool, "transition_confirmed") = (e \o Cool) \o Done
      BY <1>2, EventFacts, MoveSeqs, AppendOne
    <3> QED
      BY <3>1, <3>2
  <2>2. CASE n = 2
    <3>1. Moving(e, n) = Append(e \o Cool, "advance_retry") /\ Leaving(n) = Retried
      BY <1>1, <2>2 DEF Moving, Leaving
    <3>2. Append(Append(e \o Cool, "advance_retry"), "transition_confirmed") = (e \o Cool) \o Retried
      <4> DEFINE a == "advance_retry"
                 b == "transition_confirmed"
                 s == e \o Cool
      <4>1. a \in Events /\ b \in Events /\ Retried[1] = a /\ Retried[2] = b
        BY EventFacts, MoveSeqs
      <4>2. Retried \in Seq(Events) /\ Len(Retried) = 2 /\ s \in Seq(Events)
        BY <1>2, MoveSeqs
      <4> HIDE DEF a, b, s
      <4>3. Append(Append(s, a), b) = s \o Retried
        BY <4>1, <4>2, AppendTwo
      <4> QED
        BY <4>3 DEF s, a, b
    <3> QED
      BY <3>1, <3>2
  <2> QED
    BY <2>1, <2>2
<1>4. Leaving(n) \in Seq(Events)
  BY MoveSeqs DEF Leaving
<1>5. (e \o Cool) \o Leaving(n) = e \o Move(n)
  <2>1. Cool \in Seq(Events)
    BY MoveSeqs
  <2> DEFINE c == Cool
             l == Leaving(n)
  <2>2. c \in Seq(Events) /\ l \in Seq(Events)
    BY <1>4, <2>1
  <2> HIDE DEF c, l
  <2>3. (e \o c) \o l = e \o (c \o l)
    BY <2>2, ConcatAssociative
  <2> QED
    BY <2>3 DEF Move, c, l
<1>6. Move(n) \in Seq(Events)
  BY <1>4, MoveSeqs, ConcatProperties DEF Move
<1> QED
  BY <1>3, <1>4, <1>5, <1>6

LEMMA Whole == ByDownload = Seen \o Acquired /\ BySkipping = Seen \o Skip
<1>1. ByDownload = Seen \o Acquired
  <2>1. \A i \in 1 .. Len(Seen) : ByDownload[i] = Seen[i]
    BY EventSeqs, MoveSeqs
  <2>2. \A i \in 1 .. Len(Acquired) : ByDownload[Len(Seen) + i] = Acquired[i]
    BY EventSeqs, MoveSeqs
  <2>3. /\ ByDownload \in Seq(Events) /\ Seen \in Seq(Events) /\ Acquired \in Seq(Events)
        /\ Len(ByDownload) = Len(Seen) + Len(Acquired)
    BY EventSeqs, MoveSeqs
  <2> QED
    BY <2>1, <2>2, <2>3, Joined
<1>2. BySkipping = Seen \o Skip
  <2>1. \A i \in 1 .. Len(Seen) : BySkipping[i] = Seen[i]
    BY EventSeqs, MoveSeqs
  <2>2. \A i \in 1 .. Len(Skip) : BySkipping[Len(Seen) + i] = Skip[i]
    BY EventSeqs, MoveSeqs
  <2>3. /\ BySkipping \in Seq(Events) /\ Seen \in Seq(Events) /\ Skip \in Seq(Events)
        /\ Len(BySkipping) = Len(Seen) + Len(Skip)
    BY EventSeqs, MoveSeqs
  <2> QED
    BY <2>1, <2>2, <2>3, Joined
<1> QED
  BY <1>1, <1>2

LEMMA MoveListed ==
    ASSUME NEW n \in {1, 2}
    PROVE  Move(n) \in Moves
<1>1. CASE n = 1
  <2> DEFINE q == <<"cooldown", "advance", "transition_confirmed">>
  <2>1. /\ q \in Seq(Events) /\ Len(q) = 3 /\ q[1] = "cooldown" /\ q[2] = "advance"
        /\ q[3] = "transition_confirmed" /\ q \in Moves
    BY DEF Events, Moves
  <2> HIDE DEF q
  <2>2. \A i \in 1 .. Len(Cool) : q[i] = Cool[i]
    BY <2>1, MoveSeqs
  <2>3. \A i \in 1 .. Len(Done) : q[Len(Cool) + i] = Done[i]
    BY <2>1, MoveSeqs
  <2>4. Cool \in Seq(Events) /\ Done \in Seq(Events) /\ Len(q) = Len(Cool) + Len(Done)
    BY <2>1, MoveSeqs
  <2>5. q = Cool \o Done
    BY <2>1, <2>2, <2>3, <2>4, Joined
  <2> QED
    BY <1>1, <2>1, <2>5 DEF Move, Leaving
<1>2. CASE n = 2
  <2> DEFINE q == <<"cooldown", "advance", "advance_retry", "transition_confirmed">>
  <2>1. /\ q \in Seq(Events) /\ Len(q) = 4 /\ q[1] = "cooldown" /\ q[2] = "advance"
        /\ q[3] = "advance_retry" /\ q[4] = "transition_confirmed" /\ q \in Moves
    BY DEF Events, Moves
  <2> HIDE DEF q
  <2>2. \A i \in 1 .. Len(Cool) : q[i] = Cool[i]
    BY <2>1, MoveSeqs
  <2>3. \A i \in 1 .. Len(Retried) : q[Len(Cool) + i] = Retried[i]
    BY <2>1, MoveSeqs
  <2>4. Cool \in Seq(Events) /\ Retried \in Seq(Events) /\ Len(q) = Len(Cool) + Len(Retried)
    BY <2>1, MoveSeqs
  <2>5. q = Cool \o Retried
    BY <2>1, <2>2, <2>3, <2>4, Joined
  <2> QED
    BY <1>2, <2>1, <2>5 DEF Move, Leaving
<1> QED
  BY <1>1, <1>2

LEMMA PrefixOf ==
    ASSUME NEW s \in Seq(Events), Len(s) > 0, NEW t \in Seq(Events)
    PROVE  IsPrefix(s, s \o t) /\ IsPrefix(s, s)
<1>1. Len(s \o t) = Len(s) + Len(t) /\ Len(s) <= Len(s) + Len(t) /\ Len(s) \in Nat
  BY ConcatProperties
<1>2. 1 \in 1 .. Len(s) /\ Len(s) \in 1 .. Len(s)
  BY <1>1
<1>3. SubSeq(s \o t, 1, Len(s)) = SubSeq(s, 1, Len(s))
  BY <1>2, SubSeqOfConcat1
<1> QED
  BY <1>1, <1>3 DEF IsPrefix

LEMMA TailOf ==
    ASSUME NEW t \in Seq(Events), Len(t) > 0, NEW q, q = Seen \o t
    PROVE  /\ q \in Seq(Events) /\ Len(q) = Len(t) + 2 /\ q[3] = t[1]
           /\ SubSeq(q, 3, Len(q)) = t
<1> DEFINE s == Seen
<1>1. s \in Seq(Events) /\ Len(s) = 2
  BY MoveSeqs
<1> HIDE DEF s
<1>2. q = s \o t
  BY DEF s
<1>3. /\ q \in Seq(Events) /\ Len(q) = Len(s) + Len(t)
      /\ \A i \in 1 .. Len(s) + Len(t) : q[i] = IF i <= Len(s) THEN s[i] ELSE t[i - Len(s)]
  <2>1. /\ s \o t \in Seq(Events) /\ Len(s \o t) = Len(s) + Len(t)
        /\ \A i \in 1 .. Len(s) + Len(t) : (s \o t)[i] = IF i <= Len(s) THEN s[i] ELSE t[i - Len(s)]
    <3>1. s \in Seq(Events)
      BY <1>1
    <3> QED
      BY <3>1, ConcatProperties
  <2> QED
    BY <1>2, <2>1, Zenon
<1>4. Len(q) = Len(t) + 2 /\ q[3] = t[1] /\ Len(t) \in Nat
  BY <1>1, <1>3
<1>5. 3 \in Len(s) + 1 .. Len(s) + Len(t) /\ Len(q) \in Len(s) + 1 .. Len(s) + Len(t)
  BY <1>1, <1>4
<1>6. SubSeq(s \o t, 3, Len(q)) = SubSeq(t, 3 - Len(s), Len(q) - Len(s))
  BY <1>1, <1>5, SubSeqOfConcat2
<1>7. 3 - Len(s) = 1 /\ Len(q) - Len(s) = Len(t)
  BY <1>1, <1>4
<1>8. SubSeq(t, 1, Len(t)) = t
  BY SubSeqFull
<1> QED
  BY <1>2, <1>3, <1>4, <1>6, <1>7, <1>8

\* What the validator of stage 3C1 asks of every position.
Continued(q) ==
    /\ IsPrefix(Seen, q)
    /\ \E variant \in Acquisitions(q) : IsPrefix(SubSeq(q, 3, Len(q)), variant)

LEMMA StartOf ==
    ASSUME NEW start \in {Acquired, Skip}, NEW q \in Seq(Events), Len(q) >= 3, q[3] = start[1]
    PROVE  Acquisitions(q) = {start} \cup {start \o move : move \in Moves}
<1> DEFINE first == SubSeq(q, 3, 3)
           commit == <<"db_commit">>
<1>1. first \in Seq(Events) /\ Len(first) = 1 /\ first[1] = q[3]
  <2>1. \A i \in 3 .. 3 : q[i] \in Events
    OBVIOUS
  <2> QED
    BY <2>1, SubSeqProperties
<1>2. commit \in Seq(Events) /\ Len(commit) = 1 /\ commit[1] = "db_commit"
  BY DEF Events
<1> HIDE DEF first, commit
<1>3. CASE start = Acquired
  <2>1. first # Skip /\ first # commit
    BY <1>1, <1>2, <1>3, MoveSeqs
  <2> QED
    BY <1>3, <2>1 DEF Acquisitions, first, Skip, commit
<1>4. CASE start = Skip
  <2>1. \A i \in 1 .. Len(first) : first[i] = Skip[i]
    BY <1>1, <1>4, MoveSeqs
  <2>2. first = Skip
    BY <1>1, <2>1, MoveSeqs, SeqEqual
  <2> QED
    BY <1>4, <2>2 DEF Acquisitions, first, Skip
<1> QED
  BY <1>3, <1>4

LEMMA GainContinued ==
    ASSUME NEW start \in {Acquired, Skip}, NEW e \in Seq(Events), e = Seen \o start, NEW n \in {1, 2}
    PROVE  Continued(e) /\ Continued(Append(Moving(e, n), "transition_confirmed"))
<1> DEFINE move == Move(n)
           q == Append(Moving(e, n), "transition_confirmed")
           long == start \o move
<1>1. start \in Seq(Events) /\ Len(start) > 0 /\ Seen \in Seq(Events) /\ Len(Seen) > 0
  BY MoveSeqs
<1>2. move \in Seq(Events) /\ move \in Moves /\ q = e \o move
  BY Moved, MoveListed
<1> HIDE DEF move, q
<1>3. /\ long \in Seq(Events) /\ Len(long) = Len(start) + Len(move)
      /\ \A i \in 1 .. Len(start) + Len(move) :
            long[i] = IF i <= Len(start) THEN start[i] ELSE move[i - Len(start)]
  BY <1>1, <1>2, ConcatProperties
<1>4. Len(long) > 0 /\ long[1] = start[1]
  BY <1>1, <1>2, <1>3
<1>5. q = Seen \o long
  <2> DEFINE s == Seen
  <2>1. s \in Seq(Events) /\ e = s \o start
    BY <1>1
  <2> HIDE DEF s
  <2>2. (s \o start) \o move = s \o (start \o move)
    BY <1>1, <1>2, <2>1, ConcatAssociative
  <2> QED
    BY <1>2, <2>1, <2>2 DEF s
<1>6. Continued(e)
  <2>1. /\ Len(e) = Len(start) + 2 /\ e[3] = start[1] /\ SubSeq(e, 3, Len(e)) = start
    BY <1>1, TailOf
  <2>2. Acquisitions(e) = {start} \cup {start \o m : m \in Moves}
    <3>1. Len(e) >= 3 /\ e[3] = start[1]
      BY <1>1, <2>1
    <3> QED
      BY <3>1, StartOf
  <2>3. IsPrefix(Seen, e) /\ IsPrefix(start, start)
    BY <1>1, PrefixOf
  <2> QED
    BY <2>1, <2>2, <2>3 DEF Continued
<1>7. Continued(q)
  <2>1. /\ Len(q) = Len(long) + 2 /\ q[3] = start[1] /\ SubSeq(q, 3, Len(q)) = long
        /\ q \in Seq(Events)
    BY <1>3, <1>4, <1>5, TailOf
  <2>2. Acquisitions(q) = {start} \cup {start \o m : m \in Moves}
    <3>1. Len(q) >= 3 /\ q[3] = start[1] /\ q \in Seq(Events)
      BY <1>3, <1>4, <2>1
    <3> QED
      BY <3>1, StartOf
  <2>3. long \in Acquisitions(q)
    BY <1>2, <2>2
  <2>4. IsPrefix(Seen, q) /\ IsPrefix(long, long)
    BY <1>1, <1>3, <1>4, <1>5, PrefixOf
  <2> QED
    BY <2>1, <2>3, <2>4 DEF Continued
<1> QED
  BY <1>6, <1>7 DEF q

LEMMA NoInputs ==
    ASSUME NEW e \in {ByDownload, BySkipping}
    PROVE  ToSet(e) \cap Inputs = {}
<1>1. CASE e = ByDownload
  <2>1. \A i \in 1 .. 6 : e[i] \in {"detect", "pause", "download", "validation", "publish", "db_commit"}
    BY <1>1, EventSeqs
  <2>2. DOMAIN e = 1 .. 6
    BY <1>1, EventSeqs
  <2> QED
    BY <2>1, <2>2 DEF ToSet, Inputs
<1>2. CASE e = BySkipping
  <2>1. \A i \in 1 .. 3 : e[i] \in {"detect", "pause", "duplicate_skipped"}
    BY <1>2, EventSeqs
  <2>2. DOMAIN e = 1 .. 3
    BY <1>2, EventSeqs
  <2> QED
    BY <2>1, <2>2 DEF ToSet, Inputs
<1> QED
  BY <1>1, <1>2

LEMMA PassedConfirmed ==
    ASSUME NEW e \in Seq(Events), NEW n \in {1, 2}
    PROVE  Confirmed(Append(Moving(e, n), "transition_confirmed"))
<1> DEFINE b == "transition_confirmed"
           q == Append(Moving(e, n), b)
<1>1. Moving(e, n) \in Seq(Events)
  <2>1. Cooled(e) \in Seq(Events)
    BY EventFacts, AppendProperties DEF Cooled
  <2>2. Append(Cooled(e), "advance") \in Seq(Events)
    BY <2>1, EventFacts, AppendProperties
  <2>3. Append(Append(Cooled(e), "advance"), "advance_retry") \in Seq(Events)
    BY <2>2, EventFacts, AppendProperties
  <2> QED
    BY <2>2, <2>3 DEF Moving
<1>2. b \in Events
  BY EventFacts
<1>3. b = "transition_confirmed"
  OBVIOUS
<1> HIDE DEF b
<1>4. q # <<>> /\ Len(q) = Len(Moving(e, n)) + 1 /\ q[Len(Moving(e, n)) + 1] = b
  BY <1>1, <1>2, AppendProperties
<1>5. Confirmed(q)
  BY <1>3, <1>4 DEF Confirmed, Last
<1> QED
  BY <1>5 DEF b

LEMMA DownloadValid ==
    ASSUME NEW position, NEW n \in {1, 2}
    PROVE  /\ ValidPosition(ByDownload, position)
           /\ position # Target =>
                 ValidPosition(Append(Moving(ByDownload, n), "transition_confirmed"), position)
<1> DEFINE transition == Seen \o Acquired \o <<"cooldown", "advance">>
           q == Append(Moving(ByDownload, n), "transition_confirmed")
<1>1. transition = ByDownload \o Cool
  BY Whole DEF Cool
<1>2. ByDownload \in Seq(Events) /\ Len(ByDownload) > 0 /\ Cool \in Seq(Events)
  BY EventSeqs, MoveSeqs
<1>3. IsPrefix(ByDownload, ByDownload \o Cool)
  BY <1>2, PrefixOf
<1>4. q = (ByDownload \o Cool) \o Leaving(n)
  BY <1>2, Moved
<1>5. Leaving(n) \in {<<"transition_confirmed">>, <<"advance_retry">>,
                      <<"advance_retry", "transition_confirmed">>}
  BY DEF Leaving, Done, Retried
<1>6. ValidPosition(ByDownload, position)
  BY <1>1, <1>3, NoInputs, Zenon DEF ValidPosition
<1>7. position # Target => ValidPosition(q, position)
  BY <1>1, <1>4, <1>5, Zenon DEF ValidPosition
<1> QED
  BY <1>6, <1>7

LEMMA CompletedVerifies ==
    ASSUME Inv, pc = "end", status = "completed", kind.feed = "gesture",
           walk.available = 0, files = {}
    PROVE  Verified
<1>1. log \in Seq(Seq(Events)) /\ Len(log) > 0
  BY DEF Inv, LogShape
<1>2. /\ \A p \in 1 .. Len(log) - 1 : log[p] \in Passed
      /\ log[Len(log)] \in Gains
  BY DEF Inv, Told
<1>3. \A e \in Gains : e \in {ByDownload, BySkipping} /\ (e = BySkipping => Continuing)
  BY DEF Gains
<1>4. DOMAIN log = 1 .. Len(log) /\ Len(log) \in 1 .. Len(log)
  BY <1>1
<1>5. ASSUME NEW p \in 1 .. Len(log), p # Len(log)
      PROVE  \E e \in Gains, n \in {1, 2} : log[p] = Append(Moving(e, n), "transition_confirmed")
  <2>1. p \in 1 .. Len(log) - 1
    BY <1>1, <1>5
  <2>2. log[p] \in Passed
    BY <1>2, <2>1
  <2> QED
    BY <2>2 DEF Passed
<1>6. \A e \in {ByDownload, BySkipping} : e \in Seq(Events)
  BY EventSeqs
<1>7. ASSUME NEW p \in 1 .. Len(log), p # Len(log) PROVE Confirmed(log[p])
  BY <1>3, <1>5, <1>6, <1>7, PassedConfirmed
<1>8. CASE Continuing
  <2>1. \A e \in {ByDownload, BySkipping}, n \in {1, 2} :
            Continued(e) /\ Continued(Append(Moving(e, n), "transition_confirmed"))
    BY <1>6, Whole, GainContinued
  <2>2. ASSUME NEW p \in 1 .. Len(log) PROVE Continued(log[p])
    <3>1. CASE p = Len(log)
      BY <1>2, <1>3, <2>1, <3>1
    <3>2. CASE p # Len(log)
      BY <1>3, <1>5, <2>1, <3>2
    <3> QED
      BY <3>1, <3>2
  <2>3. ToSet(log[Len(log)]) \cap Inputs = {}
    BY <1>2, <1>3, NoInputs
  <2>4. log # <<>>
    BY <1>1
  <2>5. ValidContinuation(log, "completed", Len(log))
    <3>1. ASSUME NEW p \in DOMAIN log
          PROVE  /\ IsPrefix(Seen, log[p])
                 /\ \E variant \in Acquisitions(log[p]) :
                       IsPrefix(SubSeq(log[p], 3, Len(log[p])), variant)
                 /\ p # Len(log) => Confirmed(log[p])
      BY <1>4, <1>7, <2>2, Zenon DEF Continued
    <3> QED
      BY <2>3, <2>4, <3>1, Zenon DEF ValidContinuation
  <2> QED
    BY <1>8, <2>5 DEF Verified
<1>9. CASE ~Continuing
  <2>1. kind.stage = "3b"
    BY <1>9 DEF Inv, Shape, Continuing
  <2>2. Len(log) = Target
    BY <2>1 DEF Inv, Counted
  <2>3. \A e \in Gains : e = ByDownload
    BY <1>3, <1>9
  <2>4. ASSUME NEW p \in 1 .. Len(log) PROVE ValidPosition(log[p], p)
    <3>1. CASE p = Len(log)
      BY <1>2, <2>3, <3>1, DownloadValid
    <3>2. CASE p # Len(log)
      BY <1>5, <2>2, <2>3, <3>2, DownloadValid
    <3> QED
      BY <3>1, <3>2
  <2>5. log[Target] = Seen \o Acquired
    BY <1>2, <2>2, <2>3, Whole
  <2>6. \A p \in 1 .. Len(log) - 1 : Confirmed(log[p])
    <3>1. \A p \in 1 .. Len(log) - 1 : p \in 1 .. Len(log) /\ p # Len(log)
      BY <1>1
    <3> QED
      BY <1>7, <3>1, Zenon
  <2>7. ValidTranscript(log, "completed")
    BY <1>4, <2>2, <2>4, <2>5, <2>6, Zenon DEF ValidTranscript
  <2> QED
    BY <1>9, <2>7 DEF Verified
<1> QED
  BY <1>8, <1>9

LEMMA EndInv ==
    ASSUME Inv, End
    PROVE  Inv'
<1>1. PICK moved \in BOOLEAN :
          verdict' = IF status # "completed" THEN "none"
                     ELSE IF Verified /\ ~moved THEN "verified"
                     ELSE IF moved \/ walk.available > 0 \/ files # {} THEN "changed"
                     ELSE "refused"
  BY DEF End
<1>2. pc = "end" /\ Gone /\ jar' = jar /\ files' = files
  BY DEF End, fetchVars
<1>3. kind.feed = "gesture" => verdict' # "refused"
  <2>1. walk.available \in Nat
    BY DEF Inv, WalkShape, Walks
  <2>2. /\ kind.feed = "gesture" /\ status = "completed" /\ ~(walk.available > 0) /\ files = {}
        => Verified
    BY <1>2, <2>1, CompletedVerifies
  <2> QED
    BY <1>1, <2>2
<1>4. verdict' \in {"none", "verified", "changed", "refused"}
  BY <1>1
<1>5. jar = FALSE /\ files \subseteq {"orphan"}
  BY <1>2, LabelFacts DEF Inv, Clean
<1>6. Fresh'
  BY <1>2, <1>3, <1>4, <1>5 DEF Inv, Shape, Gone, Goto, Fresh
<1> QED
  BY <1>6, FreshNext

-----------------------------------------------------------------------------
(* Theorems *)

LEMMA NextInv == Inv /\ [Next]_vars => Inv'
<1> SUFFICES ASSUME Inv, [Next]_vars PROVE Inv'
  OBVIOUS
<1>1. CASE Open
  BY <1>1, OpenInv
<1>2. CASE Walk
  <2>1. CASE Ready \/ First \/ Look \/ Pause
    BY <2>1, ReadyInv, FirstInv, LookInv, PauseInv
  <2>2. CASE Cookies \/ MakeAttempt \/ Media \/ Commit
    BY <2>2, CookiesInv, MakeAttemptInv, MediaInv, CommitInv
  <2>3. CASE Validate \/ Publish
    <3>1. "validation" \in Events /\ "publish" \in Events
      BY EventFacts
    <3>2. CASE Validate
      BY <3>1, <3>2, AcquireInv DEF Validate
    <3>3. CASE Publish
      BY <3>1, <3>3, AcquireInv DEF Publish
    <3> QED
      BY <2>3, <3>2, <3>3
  <2>4. CASE Tally \/ Advance \/ TakeQueued \/ TakeReloaded
    BY <2>4, TallyInv, AdvanceInv, TakeQueuedInv, TakeReloadedInv
  <2>5. CASE Gesture \/ Sample \/ SampleReloaded \/ Arrive \/ End
    BY <2>5, GestureInv, SampleInv, SampleReloadedInv, ArriveInv, EndInv
  <2> QED
    BY <1>2, <2>1, <2>2, <2>3, <2>4, <2>5 DEF Walk
<1>3. CASE Interrupt
  BY <1>3, InterruptInv
<1>4. CASE Kill
  BY <1>4, KillInv
<1>5. CASE DeadlinePasses
  BY <1>5, DeadlinePassesInv
<1>6. CASE \E payload \in Payloads : Respond(payload)
  BY <1>6, RespondInv
<1>7. CASE UNCHANGED vars
  <2>1. /\ pc' = pc /\ kind' = kind /\ touch' = touch /\ walk' = walk /\ log' = log
        /\ status' = status /\ late' = late /\ open' = open /\ jar' = jar /\ files' = files
        /\ verdict' = verdict /\ source' = source
    BY <1>7 DEF vars
  <2>2. SourceInv'
    BY <2>1 DEF Inv, SourceInv, Used
  <2> QED
    BY <2>1, <2>2, SameWalk DEF Inv, Shape
<1> QED
  BY <1>1, <1>2, <1>3, <1>4, <1>5, <1>6, <1>7 DEF Next

\* The inductive invariant holds throughout every walk.
THEOREM Invariance == Spec => []Inv
BY InitInv, NextInv, PTL DEF Spec

\* Types, with the bounds of the two deques of the feed source
\* (AuthenticatedFeedSource), of the scrolls and of the counted wheel attempts.
THEOREM TypeCorrect == Spec => []TypeOK
<1>1. Inv => TypeOK
  <2> SUFFICES ASSUME Inv PROVE TypeOK
    OBVIOUS
  <2>1. Proper(source)
    BY DEF Inv, SourceInv, Good
  <2>2. /\ source.known \in Seq(Reels) /\ Len(source.known) <= MaxKnown
        /\ IsInjective(source.known)
        /\ source.codes \in Seq([obs : Nat, code : Reels]) /\ Len(source.codes) <= MaxCodes
    BY <2>1 DEF Proper, Sources, Entries
  <2>3. /\ walk.cand \in Reels \cup {None} /\ walk.seen \subseteq Reels
        /\ walk.mine \subseteq walk.seen /\ walk.wheels \in 0 .. MaxWheels
    BY DEF Inv, WalkShape, Walks
  <2>4. /\ touch \in [scrolls : 0 .. MaxScrolls, forced : BOOLEAN, confirmed : BOOLEAN,
                      identity : BOOLEAN, checkpoint : Nat]
    BY DEF Inv, Shape, Touches
  <2>5. {late, open, jar} \subseteq BOOLEAN /\ files \subseteq Files
    BY DEF Inv, Shape, Clean
  <2> QED
    BY <2>2, <2>3, <2>4, <2>5 DEF Inv, Shape, LogShape, TypeOK
<1> QED
  BY <1>1, Invariance, PTL

\* "Session-wide deduplication prevents reuse after refresh" (browser_feed.py:1208):
\* as long as the memory of the source has room for the Reels of the walk, no
\* document, response or navigation makes it hand a Reel out twice.
THEOREM NoReelHandedTwice ==
    ASSUME IsFiniteSet(Reels), Cardinality(Reels) <= MaxKnown
    PROVE  Spec => []HandedOnce
<1>1. Inv => HandedOnce
  BY DEF Inv, Handed, HandedOnce, Roomy
<1> QED
  BY <1>1, Invariance, PTL

\* A completed walk by gestures is verified, unless others changed what the
\* verifier compares (validate_event_transcript, validate_stage3c1_transcript).
THEOREM GesturesVerified == Spec => []GestureVerified
<1>1. Inv => GestureVerified
  BY DEF Inv, Judged, GestureVerified
<1> QED
  BY <1>1, Invariance, PTL

\* Only close() and a kill end a process.
LEMMA Ends ==
    ASSUME Inv, Next, pc # "off", pc' = "off"
    PROVE  End \/ Kill
<1>1. ~Open /\ ~Ready /\ ~First /\ ~Look /\ ~Pause
  BY DEF Open, Ready, First, Look, Pause, Finish, Goto
<1>2. ~Cookies /\ ~MakeAttempt /\ ~Media /\ ~Validate /\ ~Publish /\ ~Commit
  BY DEF Cookies, MakeAttempt, Media, Validate, Publish, Acquire, Commit, AttemptFails, Finish, Goto
<1>3. ~Tally /\ ~Advance /\ ~Arrive /\ ~Interrupt
  BY DEF Tally, Advance, Arrive, Interrupt, Finish, Goto
<1>4. ~TakeQueued /\ ~TakeReloaded
  BY DEF TakeQueued, TakeReloaded, HandOut, Finish, Goto
<1>5. ~Gesture
  BY DEF Gesture, Finish, Goto
<1>6. ~Sample /\ ~SampleReloaded
  <2>1. \A taken : ~Sighted(taken)
    BY DEF Sighted, Goto
  <2>2. \A s, next : ~Unsighted(s, next)
    BY DEF Unsighted, Finish, Goto
  <2>3. \A next, s, card : ~SampleStable(next, s, card)
    BY <2>1, <2>2 DEF SampleStable, Goto
  <2> QED
    BY <2>1, <2>2, <2>3 DEF Sample, SampleReloaded, Finish, Goto
<1>7. ~DeadlinePasses /\ ~(\E payload \in Payloads : Respond(payload))
  BY DEF DeadlinePasses, Respond
<1> QED
  BY <1>1, <1>2, <1>3, <1>4, <1>5, <1>6, <1>7 DEF Next, Walk

\* A walk that ends by itself has tried to remove its temporary files and holds
\* neither cookies nor the browser; a killed one holds nothing either.
THEOREM AlwaysTidy == Spec => Tidy
<1>1. Inv /\ [Next]_vars =>
         [pc # "off" /\ pc' = "off" =>
             /\ ~open' /\ ~jar'
             /\ Kill \/ files' \subseteq {"orphan"}]_vars
  <2> SUFFICES ASSUME Inv, Next, pc # "off", pc' = "off"
               PROVE  ~open' /\ ~jar' /\ (Kill \/ files' \subseteq {"orphan"})
    BY DEF vars
  <2>1. CASE Kill
    BY <2>1 DEF Kill, Gone
  <2>2. CASE End
    <3>1. jar = FALSE /\ files \subseteq {"orphan"}
      BY <2>2, LabelFacts DEF Inv, Clean, End
    <3> QED
      BY <2>2, <3>1 DEF End, Gone, fetchVars
  <2> QED
    BY <2>1, <2>2, Ends
<1> QED
  BY <1>1, Invariance, PTL DEF Spec, Tidy
=============================================================================
