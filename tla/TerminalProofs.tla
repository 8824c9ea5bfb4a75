--------------------------- MODULE TerminalProofs ---------------------------
(***************************************************************************)
(* Proofs about Terminal and the lookup it composes, for any finite set of *)
(* cards, any number of payments and any sizes of batch and page.          *)
(***************************************************************************)
EXTENDS Terminal, FiniteSetTheorems, SequenceTheorems, TLAPS

-----------------------------------------------------------------------------
(* The payments, newest first.                                             *)

(* How many of S are newer than k.                                         *)
Newer(S, k) == {j \in S : j > k}

(* There are finitely many of them, fewer than in S.                       *)
LEMMA NewerBounded ==
    ASSUME NEW S \in SUBSET Nat, IsFiniteSet(S), NEW k \in S
    PROVE  /\ IsFiniteSet(Newer(S, k))
           /\ Cardinality(Newer(S, k)) \in Nat
           /\ Cardinality(Newer(S, k)) \in 0..(Cardinality(S) - 1)
<1>1. IsFiniteSet(S \ {k}) /\ Cardinality(S \ {k}) = Cardinality(S) - 1 /\ Cardinality(S) \in Nat
  BY FS_RemoveElement, FS_CardinalityType
<1>2. Newer(S, k) \in SUBSET (S \ {k})
  BY DEF Newer
<1>3. /\ IsFiniteSet(Newer(S, k)) /\ Cardinality(Newer(S, k)) <= Cardinality(S \ {k})
      /\ Cardinality(Newer(S, k)) \in Nat
  BY <1>1, <1>2, FS_Subset, FS_CardinalityType
<1> QED BY <1>1, <1>3

(* The newer a payment, the fewer there are before it.                     *)
LEMMA NewerOrders ==
    ASSUME NEW S \in SUBSET Nat, IsFiniteSet(S), NEW i \in S, NEW j \in S, i < j
    PROVE  Cardinality(Newer(S, j)) < Cardinality(Newer(S, i))
<1>0. \A k \in S : k \in Nat
  OBVIOUS
<1>1. Newer(S, j) \subseteq Newer(S, i) /\ j \in Newer(S, i) /\ j \notin Newer(S, j)
  <2>1. \A k \in S : k > j => k > i
    BY <1>0
  <2>2. j > i /\ ~(j > j)
    BY <1>0
  <2> QED BY <2>1, <2>2 DEF Newer
<1>2. /\ IsFiniteSet(Newer(S, i))
      /\ Cardinality(Newer(S, i)) \in Nat /\ Cardinality(Newer(S, j)) \in Nat
  BY NewerBounded, FS_CardinalityType
<1>3. /\ Cardinality(Newer(S, j)) <= Cardinality(Newer(S, i))
      /\ Cardinality(Newer(S, j)) # Cardinality(Newer(S, i))
  BY <1>1, <1>2, FS_Subset
<1> QED BY <1>2, <1>3

(* The first n of a set are of it, and are all newer than the rest.        *)
LEMMA NewestFirst ==
    ASSUME NEW S \in SUBSET Nat, IsFiniteSet(S), NEW n \in Nat
    PROVE  /\ Newest(S, n) \subseteq S
           /\ \A j \in Newest(S, n), i \in S \ Newest(S, n) : j > i
<1>1. \A k \in S : k \in Newest(S, n) <=> Cardinality(Newer(S, k)) < n
  BY DEF Newest, Newer
<1>2. ASSUME NEW j \in Newest(S, n), NEW i \in S \ Newest(S, n) PROVE j > i
  <2>1. /\ j \in S /\ Cardinality(Newer(S, j)) \in Nat /\ Cardinality(Newer(S, i)) \in Nat
        /\ Cardinality(Newer(S, j)) < Cardinality(Newer(S, i))
    BY <1>1, NewerBounded DEF Newest
  <2>2. ~(j < i) /\ j # i
    BY <2>1, NewerOrders
  <2> QED BY <2>1, <2>2
<1> QED BY <1>2 DEF Newest

(* What was not among the first n is not when there are more of them.      *)
LEMMA NewestRecedes ==
    ASSUME NEW S \in SUBSET Nat, NEW T \in SUBSET Nat, IsFiniteSet(T), S \subseteq T,
           NEW n \in Nat, NEW i \in S \ Newest(S, n)
    PROVE  i \notin Newest(T, n)
<1>1. Newer(S, i) \in SUBSET Newer(T, i)
  BY DEF Newer
<1>2. IsFiniteSet(S)
  BY FS_Subset
<1>3. /\ IsFiniteSet(Newer(T, i)) /\ Cardinality(Newer(T, i)) \in Nat
      /\ Cardinality(Newer(S, i)) \in Nat
  BY <1>2, NewerBounded
<1>4. Cardinality(Newer(S, i)) <= Cardinality(Newer(T, i))
  BY <1>1, <1>3, FS_Subset
<1>5. ~(Cardinality(Newer(S, i)) < n)
  BY DEF Newest, Newer
<1> QED BY <1>3, <1>4, <1>5 DEF Newest, Newer

(* Numbering a set from its newest uses every number below its size.       *)
LEMMA EveryPlaceTaken ==
    ASSUME NEW S \in SUBSET Nat, IsFiniteSet(S), NEW p \in 0..(Cardinality(S) - 1)
    PROVE  \E k \in S : Cardinality(Newer(S, k)) = p
<1> DEFINE place == [k \in S |-> Cardinality(Newer(S, k))]
           P == 0..(Cardinality(S) - 1)
<1>1. Cardinality(S) \in Nat
  BY FS_CardinalityType
<1>2. IsFiniteSet(P) /\ Cardinality(P) = Cardinality(S)
  BY <1>1, FS_Interval
<1>3. place \in [S -> P]
  BY NewerBounded
<1>4. \A i, j \in S : place[i] = place[j] => i = j
  <2> SUFFICES ASSUME NEW i \in S, NEW j \in S, place[i] = place[j], i # j PROVE FALSE
      OBVIOUS
  <2>1. Cardinality(Newer(S, i)) \in Nat /\ Cardinality(Newer(S, j)) \in Nat
    BY NewerBounded
  <2>2. i < j \/ j < i
    OBVIOUS
  <2> QED BY <2>1, <2>2, NewerOrders
<1>5. place \in Injection(S, P)
  BY <1>3, <1>4 DEF Injection, IsInjective
<1>6. place \in Surjection(S, P)
  BY <1>2, <1>5, FS_Injection
<1> QED BY <1>6 DEF Surjection

(* A batch is full unless it reaches the end.                              *)
LEMMA ShortBatchIsLast ==
    ASSUME NEW S \in SUBSET Nat, IsFiniteSet(S), NEW o \in Nat, NEW b \in Nat,
           Cardinality(Newest(S, o + b) \ Newest(S, o)) < b
    PROVE  Newest(S, o + b) = S
<1> DEFINE B == Newest(S, o + b) \ Newest(S, o)
           place == [k \in B |-> Cardinality(Newer(S, k))]
           P == o..(o + b - 1)
<1>1. SUFFICES ASSUME NEW k \in S \ Newest(S, o + b) PROVE FALSE
  BY DEF Newest
<1>2. \A j \in S, n \in Nat : j \in Newest(S, n) <=> Cardinality(Newer(S, j)) < n
  BY DEF Newest, Newer
<1>3. Cardinality(S) \in Nat /\ Cardinality(S) > o + b
  BY <1>1, <1>2, NewerBounded, FS_CardinalityType
<1>4. B \in SUBSET S /\ IsFiniteSet(B) /\ Cardinality(B) \in Nat
  <2>1. B \in SUBSET S
    BY DEF Newest
  <2>2. IsFiniteSet(B)
    BY <2>1, FS_Subset
  <2> QED BY <2>1, <2>2, FS_CardinalityType
<1>5. place \in [B -> P]
  <2> SUFFICES ASSUME NEW j \in B PROVE Cardinality(Newer(S, j)) \in P
      OBVIOUS
  <2>1. j \in S /\ j \in Newest(S, o + b) /\ j \notin Newest(S, o)
    BY <1>4
  <2>2. Cardinality(Newer(S, j)) \in Nat
    BY <2>1, NewerBounded
  <2>3. Cardinality(Newer(S, j)) < o + b /\ ~(Cardinality(Newer(S, j)) < o)
    BY <1>2, <2>1
  <2> QED BY <2>2, <2>3
<1>6. \A p \in P : \E j \in B : place[j] = p
  <2> SUFFICES ASSUME NEW p \in P PROVE \E j \in B : place[j] = p
      OBVIOUS
  <2>1. p \in 0..(Cardinality(S) - 1)
    BY <1>3
  <2>2. PICK j \in S : Cardinality(Newer(S, j)) = p
    BY <2>1, EveryPlaceTaken
  <2>3. j \in B
    BY <1>2, <2>2
  <2> QED BY <2>2, <2>3
<1>7. place \in Surjection(B, P)
  BY <1>5, <1>6 DEF Surjection
<1>8. Cardinality(P) <= Cardinality(B) /\ Cardinality(P) = b
  <2>1. Cardinality(P) <= Cardinality(B)
    BY <1>4, <1>7, FS_Surjection
  <2>2. Cardinality(P) = b
    BY FS_Interval
  <2> QED BY <2>1, <2>2
<1> QED BY <1>4, <1>8
(* The first n are at most n, and fewer only when they are all.            *)
LEMMA NewestSize ==
    ASSUME NEW S \in SUBSET Nat, IsFiniteSet(S), NEW n \in Nat
    PROVE  /\ Cardinality(Newest(S, n)) \in Nat /\ Cardinality(Newest(S, n)) <= n
           /\ Cardinality(Newest(S, n)) < n => Newest(S, n) = S
<1> DEFINE N == Newest(S, n)
           place == [k \in N |-> Cardinality(Newer(S, k))]
<1>1. N \in SUBSET S
  BY DEF Newest
<1>2. IsFiniteSet(N) /\ Cardinality(N) \in Nat
  <2>1. IsFiniteSet(N)
    BY <1>1, FS_Subset
  <2> QED BY <2>1, FS_CardinalityType
<1>3. \A k \in N : Cardinality(Newer(S, k)) \in Nat /\ Cardinality(Newer(S, k)) < n
  BY <1>1, NewerBounded DEF Newest, Newer
<1>4. place \in [N -> 0..(n - 1)]
  BY <1>3
<1>5. \A i, j \in N : place[i] = place[j] => i = j
  <2> SUFFICES ASSUME NEW i \in N, NEW j \in N, place[i] = place[j], i # j PROVE FALSE
      OBVIOUS
  <2>1. i \in S /\ j \in S /\ i \in Nat /\ j \in Nat
    BY <1>1
  <2>2. i < j \/ j < i
    BY <2>1
  <2>3. Cardinality(Newer(S, i)) = Cardinality(Newer(S, j)) /\ Cardinality(Newer(S, i)) \in Nat
    BY <1>3
  <2> QED BY <2>1, <2>2, <2>3, NewerOrders
<1>6. place \in Injection(N, 0..(n - 1))
  BY <1>4, <1>5 DEF Injection, IsInjective
<1>7. IsFiniteSet(0..(n - 1)) /\ Cardinality(0..(n - 1)) = n
  BY FS_Interval
<1>8. Cardinality(N) <= n
  BY <1>6, <1>7, FS_Injection
<1>9. Newest(S, 0) = {}
  <2> SUFFICES ASSUME NEW k \in S, Cardinality(Newer(S, k)) < 0 PROVE FALSE
      BY DEF Newest, Newer
  <2>1. Cardinality(Newer(S, k)) \in Nat
    BY NewerBounded
  <2> QED BY <2>1
<1>10. ASSUME Cardinality(N) < n PROVE N = S
  <2>1. 0 + n = n /\ 0 \in Nat
    OBVIOUS
  <2>2. Cardinality(Newest(S, 0 + n) \ Newest(S, 0)) < n
    BY <1>9, <1>10, <2>1
  <2> HIDE DEF N
  <2>3. Newest(S, 0 + n) = S
    BY <2>1, <2>2, ShortBatchIsLast
  <2> QED BY <2>1, <2>3 DEF N
<1> QED BY <1>2, <1>8, <1>10


-----------------------------------------------------------------------------
(* The lookup.                                                             *)

(* Numbers up to a length are finitely many naturals.                      *)
LEMMA NumbersFinite ==
    ASSUME NEW n \in Nat, NEW S \in SUBSET (1..n)
    PROVE  S \in SUBSET Nat /\ IsFiniteSet(S)
<1>1. IsFiniteSet(1..n)
  BY FS_Interval
<1>2. IsFiniteSet(S)
  BY <1>1, FS_Subset
<1> QED BY <1>2

(* The payments listed are finitely many numbers.                          *)
LEMMA PaidType ==
    ASSUME LookupTypeOK
    PROVE  /\ Paid \in SUBSET Nat /\ IsFiniteSet(Paid)
           /\ DOMAIN pays = 1..Len(pays) /\ Len(pays) \in Nat
<1>1. DOMAIN pays = 1..Len(pays) /\ Len(pays) \in Nat
  BY DEF LookupTypeOK
<1>2. Paid \in SUBSET (1..Len(pays))
  BY <1>1 DEF Paid
<1> QED BY <1>1, <1>2, NumbersFinite

(* Nothing has been asked: nothing can be wrong.                           *)
LEMMA IdleSafe ==
    ASSUME lpc = "idle", out = "none", before = {}, \A c \in Cards : HasRow(c) => c \in made
    PROVE  LookupSafe
BY DEF LookupSafe, NothingReadYet, MissingLiesBehind, BeforeStillPaid, SeenTogether, HistoryHasNoGap, FoundCardWasWhole

(* A step that leaves the lookup and what it reads alone keeps all of it.  *)
LEMMA LookupUntouched ==
    ASSUME LookupTypeOK, LookupSafe, UNCHANGED <<life, pays, lookup>>
    PROVE  LookupTypeOK' /\ LookupSafe'
<1>1. LookupTypeOK'
  BY DEF LookupTypeOK, lookup, life
<1>2. LookupSafe <=> LookupSafe'
  BY DEF LookupSafe, NothingReadYet, MissingLiesBehind, BeforeStillPaid, SeenTogether, HistoryHasNoGap,
     FoundCardWasWhole, lookup, life, Complete, HasRow, HasWallet, HasLink, Paid, Newest
<1> QED BY <1>1, <1>2

(* The answer is dismissed.                                                *)
LEMMA DismissSafe ==
    ASSUME LookupTypeOK, LookupSafe, Dismiss, UNCHANGED <<life, pays>>
    PROVE  LookupTypeOK' /\ LookupSafe'
<1>1. LookupTypeOK'
  <2>1. /\ UNCHANGED <<life, pays>> /\ lpc' = "idle" /\ asked' = None /\ shown' = {} /\ offset' = 0
        /\ out' = "none" /\ before' = {} /\ whole' = FALSE
    BY DEF Dismiss
  <2>2. size' \in 0..Limit
    BY LookupAssumption DEF Dismiss
  <2> QED BY <2>1, <2>2 DEF LookupTypeOK, life
<1>2. LookupSafe'
  BY DEF Dismiss, LookupSafe, NothingReadYet, MissingLiesBehind, BeforeStillPaid, SeenTogether, HistoryHasNoGap,
     FoundCardWasWhole, HasRow, life
<1> QED BY <1>1, <1>2

(* A lookup begins with the payments that count.                           *)
LEMMA AskSafe ==
    ASSUME LookupTypeOK, LookupSafe, NEW c \in Cards, Ask(c)
    PROVE  LookupTypeOK' /\ LookupSafe'
<1>1. LookupTypeOK'
  <2>1. before' \subseteq DOMAIN pays /\ whole' \in BOOLEAN
    BY DEF Ask, Complete
  <2> QED BY <2>1, LookupAssumption DEF LookupTypeOK, Ask, life
<1>2. Complete(c)' <=> Complete(c)
  BY DEF Ask, Complete, life
<1>3. BeforeStillPaid'
  BY DEF BeforeStillPaid, Ask
<1>4. SeenTogether' /\ NothingReadYet'
  BY <1>2 DEF LookupSafe, SeenTogether, NothingReadYet, Ask, HasRow, life
<1>5. MissingLiesBehind' /\ HistoryHasNoGap' /\ FoundCardWasWhole'
  BY DEF MissingLiesBehind, HistoryHasNoGap, FoundCardWasWhole, Ask
<1> QED BY <1>1, <1>3, <1>4, <1>5 DEF LookupSafe

(* What a step of a card's life does: with its row it is made, and once it *)
(* is made it only loses.                                                  *)
LEMMA LifeMoves ==
    ASSUME LookupTypeOK, NEW c \in Cards, Builds(c) \/ Loses(c) \/ Abandoned({c})
    PROVE  /\ parts' \in [Cards -> SUBSET Parts] /\ made' \subseteq Cards /\ made \subseteq made'
           /\ \A d \in Cards \ {c} : parts'[d] = parts[d]
           /\ c \in made => parts'[c] \subseteq parts[c]
           /\ "card" \in parts'[c] => "card" \in parts[c] \/ c \in made'
           /\ ~Loses(c) => parts[c] \subseteq parts'[c]
<1>1. CASE Builds(c)
  BY <1>1 DEF Builds, LookupTypeOK
<1>2. CASE Loses(c)
  BY <1>2 DEF Loses, LookupTypeOK
<1>3. CASE Abandoned({c})
  BY <1>3 DEF Abandoned, LookupTypeOK
<1> QED BY <1>1, <1>2, <1>3

(* A card goes on in its life: what the lookup has seen of it one after    *)
(* the other was there at once.                                            *)
LEMMA CardMovesSafe ==
    ASSUME LookupTypeOK, LookupSafe, NEW c \in Cards, CardMoves(c)
    PROVE  LookupTypeOK' /\ LookupSafe'
<1>1. /\ parts' \in [Cards -> SUBSET Parts] /\ made' \subseteq Cards /\ made \subseteq made'
      /\ \A d \in Cards \ {c} : parts'[d] = parts[d]
      /\ c \in made => parts'[c] \subseteq parts[c]
      /\ "card" \in parts'[c] => "card" \in parts[c] \/ c \in made'
  BY LifeMoves DEF CardMoves
<1>2. UNCHANGED <<pays, lpc, asked, shown, size, offset, out, before>>
  BY DEF CardMoves
<1>3. /\ whole' \in BOOLEAN /\ (whole => whole')
      /\ lpc # "idle" /\ c = asked /\ Complete(c)' => whole'
  BY DEF CardMoves, LookupTypeOK, Complete
<1>4. LookupTypeOK'
  BY <1>1, <1>2, <1>3 DEF LookupTypeOK
<1>5. SeenTogether'
  <2>1. SeenTogether
    BY DEF LookupSafe
  <2>2. \A d \in Cards : HasRow(d)' => d \in made'
    BY <1>1, <2>1 DEF SeenTogether, HasRow
  <2>3. lpc # "idle" => (Complete(asked)' => whole')
    BY <1>1, <1>2, <1>3, <2>1 DEF SeenTogether, Complete
  <2>4. asked \in made => (HasWallet(asked)' => HasWallet(asked)) /\ (HasLink(asked)' => HasLink(asked))
    BY <1>1, <1>2 DEF HasWallet, HasLink, LookupTypeOK
  <2> QED BY <1>1, <1>2, <1>3, <2>1, <2>2, <2>3, <2>4 DEF SeenTogether
<1>6. NothingReadYet' /\ MissingLiesBehind' /\ BeforeStillPaid' /\ HistoryHasNoGap'
  BY <1>2 DEF LookupSafe, NothingReadYet, MissingLiesBehind, BeforeStillPaid, HistoryHasNoGap, Newest, Paid
<1>7. FoundCardWasWhole'
  BY <1>2, <1>3 DEF LookupSafe, FoundCardWasWhole
<1> QED BY <1>4, <1>5, <1>6, <1>7 DEF LookupSafe

(* Payments only ever push the missing ones further behind.                *)
LEMMA PaymentSafe ==
    ASSUME LookupTypeOK, LookupSafe, PaymentArrives \/ PaymentSucceeds
    PROVE  LookupTypeOK' /\ LookupSafe'
<1>0. UNCHANGED <<life, lookup>>
  BY DEF PaymentArrives, PaymentSucceeds
<1>1. /\ pays' \in Seq([own : BOOLEAN, ok : BOOLEAN])
      /\ Len(pays) \in Nat /\ Len(pays') \in Nat /\ Len(pays') >= Len(pays)
      /\ DOMAIN pays = 1..Len(pays) /\ DOMAIN pays' = 1..Len(pays')
      /\ \A i \in 1..Len(pays) : pays'[i].own = pays[i].own /\ (pays[i].ok => pays'[i].ok)
  <2>0. pays \in Seq([own : BOOLEAN, ok : BOOLEAN])
    BY DEF LookupTypeOK
  <2>1. CASE PaymentArrives
    BY <2>0, <2>1 DEF PaymentArrives
  <2>2. CASE PaymentSucceeds
    <3>1. PICK i \in DOMAIN pays : pays' = [pays EXCEPT ![i].ok = TRUE]
      BY <2>2 DEF PaymentSucceeds
    <3> DEFINE p == [pays[i] EXCEPT !.ok = TRUE]
    <3>2. i \in 1..Len(pays) /\ pays[i] \in [own : BOOLEAN, ok : BOOLEAN]
      <4>1. i \in 1..Len(pays)
        BY <2>0, <3>1, LenProperties
      <4> QED BY <2>0, <4>1, ElementOfSeq
    <3>3. p \in [own : BOOLEAN, ok : BOOLEAN] /\ p.own = pays[i].own /\ p.ok = TRUE
      BY <3>2
    <3>4. pays' = [pays EXCEPT ![i] = p]
      BY <3>1
    <3> HIDE DEF p
    <3>5. /\ pays' \in Seq([own : BOOLEAN, ok : BOOLEAN]) /\ Len(pays') = Len(pays)
          /\ \A j \in 1..Len(pays) : pays'[j] = IF j = i THEN p ELSE pays[j]
      BY <2>0, <3>2, <3>3, <3>4, ExceptSeq
    <3>6. \A j \in 1..Len(pays) : pays'[j].own = pays[j].own
      BY <3>3, <3>5
    <3>7. \A j \in 1..Len(pays) : pays[j].ok => pays'[j].ok
      BY <3>3, <3>5
    <3>8. DOMAIN pays = 1..Len(pays) /\ DOMAIN pays' = 1..Len(pays) /\ Len(pays) \in Nat
      BY <2>0, <3>5
    <3> QED BY <3>5, <3>6, <3>7, <3>8
  <2> QED BY <2>1, <2>2
<1>2. DOMAIN pays \subseteq DOMAIN pays'
  BY <1>1
<1>3. LookupTypeOK'
  BY <1>0, <1>1, <1>2 DEF LookupTypeOK, lookup, life
<1>4. Paid \subseteq Paid'
  BY <1>1, <1>2 DEF Paid
<1>5. BeforeStillPaid'
  BY <1>0, <1>1 DEF LookupTypeOK, LookupSafe, BeforeStillPaid, lookup
<1>6. MissingLiesBehind'
  <2>1. SUFFICES ASSUME lpc = "history", NEW i \in before \ shown
                 PROVE  i \notin Newest(Paid', offset)
    BY <1>0 DEF LookupSafe, MissingLiesBehind, lookup
  <2>2. i \in Paid \ Newest(Paid, offset) /\ offset \in Nat
    BY <2>1 DEF LookupTypeOK, LookupSafe, MissingLiesBehind, BeforeStillPaid, Paid
  <2>3. /\ Paid \in SUBSET Nat /\ Paid' \in SUBSET Nat /\ IsFiniteSet(Paid')
    <3>1. Paid' \in SUBSET (1..Len(pays'))
      BY <1>1 DEF Paid
    <3> QED BY <1>1, <3>1, PaidType, NumbersFinite
  <2> QED BY <1>4, <2>2, <2>3, NewestRecedes
<1>7. NothingReadYet' /\ SeenTogether' /\ HistoryHasNoGap' /\ FoundCardWasWhole'
  BY <1>0 DEF LookupSafe, NothingReadYet, SeenTogether, HistoryHasNoGap, FoundCardWasWhole, lookup, life,
     Complete, HasRow, HasWallet, HasLink
<1> QED BY <1>3, <1>5, <1>6, <1>7 DEF LookupSafe

(* The lookup that goes no further shows nothing.                          *)
LEMMA NotFoundSafe ==
    ASSUME LookupTypeOK, LookupSafe, lpc # "idle", NEW o \in {"404", "500"}, Answer(o)
    PROVE  LookupTypeOK' /\ LookupSafe'
<1>1. LookupTypeOK'
  BY DEF LookupTypeOK, Answer, life
<1>2. BeforeStillPaid'
  BY DEF LookupSafe, BeforeStillPaid, Answer
<1>3. NothingReadYet' /\ MissingLiesBehind' /\ SeenTogether' /\ HistoryHasNoGap' /\ FoundCardWasWhole'
  BY DEF LookupSafe, NothingReadYet, MissingLiesBehind, SeenTogether, HistoryHasNoGap, FoundCardWasWhole,
     Answer, HasRow, life
<1> QED BY <1>1, <1>2, <1>3 DEF LookupSafe

(* Its three questions are answered yes by a card that was whole: once it  *)
(* has its row, whatever else is seen of it was there with the row.        *)
LEMMA QuestionsSafe ==
    ASSUME LookupTypeOK, LookupSafe, FindRow \/ FindWallet \/ CheckLink
    PROVE  LookupTypeOK' /\ LookupSafe'
<1>1. lpc \in {"row", "wallet", "link"}
  BY DEF FindRow, FindWallet, CheckLink
<1>2. CASE Answer("404") \/ Answer("500")
  BY <1>1, <1>2, NotFoundSafe
<1>3. ASSUME NEW next \in {"wallet", "link", "history"}, Proceed(next),
             \/ next = "wallet" /\ HasRow(asked)
             \/ next = "link" /\ lpc = "wallet" /\ HasWallet(asked)
             \/ next = "history" /\ lpc = "link" /\ HasLink(asked)
      PROVE  LookupTypeOK' /\ LookupSafe'
  <2>0. /\ UNCHANGED <<life, pays, asked, shown, size, offset, out, before, whole>>
        /\ lpc' = next
    BY <1>3 DEF Proceed
  <2>1. LookupTypeOK'
    BY <2>0 DEF LookupTypeOK, life
  <2>2. SeenTogether /\ asked \in Cards /\ out # "found"
    BY <1>1 DEF LookupSafe, SeenTogether
  <2>3. parts[asked] \subseteq Parts
    BY <2>2 DEF LookupTypeOK
  <2>4. HasRow(asked) /\ HasWallet(asked) /\ HasLink(asked) => Complete(asked)
    BY <2>3 DEF Complete, Parts, HasRow, HasWallet, HasLink
  <2>5. /\ next # "history" => asked \in made
        /\ HasWallet(asked) /\ HasLink(asked) => whole
        /\ next = "link" /\ HasLink(asked) => whole
        /\ next = "history" => whole
    BY <1>1, <1>3, <2>2, <2>4 DEF SeenTogether
  <2>6. parts' = parts /\ made' = made
    BY <2>0 DEF life
  <2>7. SeenTogether'
    BY <1>1, <2>0, <2>2, <2>5, <2>6 DEF SeenTogether, Complete, HasRow, HasWallet, HasLink
  <2>8. NothingReadYet' /\ MissingLiesBehind'
    <3>1. shown = {} /\ size = 0 /\ offset = 0 /\ Limit > 0
      BY <1>1, LookupAssumption DEF LookupSafe, NothingReadYet
    <3>2. Newest(Paid, 0) = {}
      BY PaidType, NewerBounded DEF Newest, Newer
    <3>3. Newest(Paid, offset)' = Newest(Paid, 0)
      BY <2>0, <3>1 DEF Newest, Paid
    <3> QED BY <2>0, <3>1, <3>2, <3>3 DEF NothingReadYet, MissingLiesBehind
  <2>9. BeforeStillPaid' /\ HistoryHasNoGap' /\ FoundCardWasWhole'
    BY <2>0, <2>2 DEF LookupSafe, BeforeStillPaid, HistoryHasNoGap, FoundCardWasWhole
  <2> QED BY <2>1, <2>7, <2>8, <2>9 DEF LookupSafe
<1> QED BY <1>1, <1>2, <1>3 DEF FindRow, FindWallet, CheckLink

(* A batch takes what comes next; what it passes over is older than all of *)
(* it, and when it ends the history nothing is passed over but what a full *)
(* history has no room for.                                                *)
LEMMA BatchSafe ==
    ASSUME LookupTypeOK, LookupSafe, ReadHistory
    PROVE  LookupTypeOK' /\ LookupSafe'
<1>1. CASE lpc = "history" /\ Answer("404")
  BY <1>1, NotFoundSafe
<1> DEFINE batch == Newest(Paid, offset + Batch) \ Newest(Paid, offset)
           mine == {i \in batch : pays[i].own}
           entries == Newest(mine, Limit - size)
<1>2. CASE /\ lpc = "history"
           /\ shown' = shown \cup entries
           /\ size' = size + Cardinality(entries)
           /\ offset' = offset + Batch
           /\ IF size' = Limit \/ Short(batch, entries)
                THEN lpc' = "idle" /\ out' = "found"
                ELSE UNCHANGED <<lpc, out>>
           /\ UNCHANGED <<life, pays, asked, before, whole>>
  <2>1. /\ Paid \in SUBSET Nat /\ IsFiniteSet(Paid) /\ Paid \subseteq DOMAIN pays
        /\ offset \in Nat /\ Batch \in Nat /\ size \in Nat /\ Limit \in Nat /\ size < Limit
        /\ offset + Batch \in Nat /\ Limit - size \in Nat
    BY <1>2, PaidType, LookupAssumption DEF LookupTypeOK, LookupSafe, MissingLiesBehind, Paid
  <2>2. mine \in SUBSET Paid /\ batch \in SUBSET Paid
    BY DEF Newest
  <2>3. mine \in SUBSET Nat /\ IsFiniteSet(mine)
    BY <2>1, <2>2, FS_Subset
  <2>4. /\ entries \subseteq mine
        /\ \A j \in entries, i \in mine \ entries : j > i
    BY <2>1, <2>3, NewestFirst
  <2>5. Cardinality(entries) \in Nat /\ Cardinality(entries) <= Limit - size
    BY <2>1, <2>3, NewestSize
  <2>6. Cardinality(entries) < Limit - size => entries = mine
    BY <2>1, <2>3, NewestSize
  <2>7. \A j \in Newest(Paid, offset + Batch), i \in Paid \ Newest(Paid, offset + Batch) : j > i
    BY <2>1, NewestFirst
  <2>8. Short(batch, entries) => Newest(Paid, offset + Batch) = Paid
    BY <2>1, ShortBatchIsLast DEF Short
  <2>9. ASSUME NEW i \in before \ shown'
        PROVE  /\ \A j \in shown' : j > i
               /\ size' # Limit => i \notin Newest(Paid, offset + Batch)
    <3>1. /\ i \in before \ shown /\ i \notin entries
          /\ i \in Paid /\ pays[i].own
          /\ i \notin Newest(Paid, offset)
          /\ \A j \in shown : j > i
      BY <1>2, <2>9 DEF LookupSafe, LookupTypeOK, MissingLiesBehind, BeforeStillPaid, Paid
    <3>2. CASE i \in mine
      <4>1. \A j \in shown' : j > i
        BY <1>2, <2>4, <3>1, <3>2
      <4>2. Cardinality(entries) = Limit - size
        BY <2>1, <2>5, <2>6, <3>1, <3>2
      <4>3. size' = Limit
        BY <1>2, <2>1, <4>2
      <4> QED BY <4>1, <4>3
    <3>3. CASE i \notin Newest(Paid, offset + Batch)
      BY <1>2, <2>4, <2>7, <3>1, <3>3
    <3> QED BY <3>1, <3>2, <3>3
  <2>10. LookupTypeOK'
    <3>1. size' \in 0..Limit /\ offset' \in Nat
      BY <1>2, <2>1, <2>5
    <3>2. shown' \subseteq DOMAIN pays
      BY <1>2, <2>1, <2>2, <2>4 DEF LookupTypeOK
    <3> QED BY <1>2, <3>1, <3>2 DEF LookupTypeOK, life
  <2>11. CASE size' = Limit \/ Short(batch, entries)
    <3>1. HistoryHasNoGap'
      BY <1>2, <2>1, <2>8, <2>9, <2>11 DEF HistoryHasNoGap, LookupSafe, BeforeStillPaid, LookupTypeOK, Paid
    <3>2. NothingReadYet' /\ MissingLiesBehind' /\ BeforeStillPaid' /\ SeenTogether' /\ FoundCardWasWhole'
      BY <1>2, <2>11 DEF LookupSafe, NothingReadYet, MissingLiesBehind, BeforeStillPaid, SeenTogether,
         FoundCardWasWhole, Complete, HasRow, life
    <3> QED BY <2>10, <3>1, <3>2 DEF LookupSafe
  <2>12. CASE ~(size' = Limit \/ Short(batch, entries))
    <3>1. MissingLiesBehind'
      <4>1. Newest(Paid, offset)' = Newest(Paid, offset + Batch)
        BY <1>2 DEF Newest, Paid
      <4>2. size' < Limit
        BY <2>1, <2>5, <1>2, <2>12
      <4> QED BY <1>2, <2>9, <2>12, <4>1, <4>2 DEF MissingLiesBehind
    <3>2. NothingReadYet' /\ BeforeStillPaid' /\ HistoryHasNoGap' /\ FoundCardWasWhole'
      BY <1>2, <2>12 DEF LookupSafe, NothingReadYet, BeforeStillPaid, SeenTogether, HistoryHasNoGap,
         FoundCardWasWhole
    <3>3. SeenTogether'
      BY <1>2, <2>12 DEF LookupSafe, SeenTogether, Complete, HasRow, HasWallet, HasLink, life
    <3> QED BY <2>10, <3>1, <3>2, <3>3 DEF LookupSafe
  <2> QED BY <2>11, <2>12
<1> QED BY <1>1, <1>2 DEF ReadHistory
-----------------------------------------------------------------------------
(* The lists the program reads by page.                                    *)

(* A slice of a list, entry by entry.                                      *)
LEMMA SliceOfList ==
    ASSUME NEW S, NEW s \in Seq(S), NEW n \in Nat, NEW e \in Nat, e <= Len(s)
    PROVE  /\ SubSeq(s, n + 1, e) \in Seq(S)
           /\ Len(SubSeq(s, n + 1, e)) \in Nat
           /\ Len(SubSeq(s, n + 1, e)) = IF n < e THEN e - n ELSE 0
           /\ \A i \in 1..(e - n) : SubSeq(s, n + 1, e)[i] = s[n + i]
<1>1. Len(s) \in Nat
  BY LenProperties
<1>2. ASSUME NEW i \in (n + 1)..e PROVE s[i] \in S
  <2>1. i \in 1..Len(s)
    BY <1>1
  <2> QED BY <2>1, ElementOfSeq
<1>3. /\ SubSeq(s, n + 1, e) \in Seq(S)
      /\ Len(SubSeq(s, n + 1, e)) = IF n + 1 <= e THEN e - (n + 1) + 1 ELSE 0
      /\ \A i \in 1..(e - (n + 1) + 1) : SubSeq(s, n + 1, e)[i] = s[(n + 1) + i - 1]
  <2>1. n + 1 \in Int /\ e \in Int
    OBVIOUS
  <2> QED BY <1>2, <2>1, SubSeqProperties
<1>4. Len(SubSeq(s, n + 1, e)) = IF n < e THEN e - n ELSE 0
  BY <1>3
<1>5. ASSUME NEW i \in 1..(e - n) PROVE SubSeq(s, n + 1, e)[i] = s[n + i]
  <2>1. i \in 1..(e - (n + 1) + 1) /\ (n + 1) + i - 1 = n + i
    OBVIOUS
  <2> QED BY <1>3, <2>1
<1> QED BY <1>3, <1>4, <1>5

(* A new entry anywhere hides none, and moves none towards the front.      *)
LEMMA EntryAdded ==
    ASSUME NEW list \in Seq(Cards), NEW c \in Cards, NEW new \in Insertions(list, c)
    PROVE  /\ new \in Seq(Cards)
           /\ c \in Range(new)
           /\ \A k \in DOMAIN list :
                 k \in Nat /\ \E j \in DOMAIN new : j \in Nat /\ j >= k /\ new[j] = list[k]
<1>1. DOMAIN list = 1..Len(list) /\ Len(list) \in Nat
  BY LenProperties
<1>2. PICK i \in 1..(Len(list) + 1) : new = InsertAt(list, i, c)
  BY DEF Insertions
<1> DEFINE l == SubSeq(list, 1, i - 1)
           r == SubSeq(list, i, Len(list))
<1>3. /\ l \in Seq(Cards) /\ Len(l) = i - 1 /\ \A k \in 1..(i - 1) : l[k] = list[k]
  <2>1. i - 1 \in Nat /\ i - 1 <= Len(list) /\ 0 + 1 = 1 /\ 0 \in Nat
    BY <1>1
  <2>2. /\ SubSeq(list, 0 + 1, i - 1) \in Seq(Cards)
        /\ Len(SubSeq(list, 0 + 1, i - 1)) = IF 0 < i - 1 THEN (i - 1) - 0 ELSE 0
        /\ \A k \in 1..((i - 1) - 0) : SubSeq(list, 0 + 1, i - 1)[k] = list[0 + k]
    BY <2>1, SliceOfList
  <2> QED BY <1>1, <2>1, <2>2
<1>4. /\ r \in Seq(Cards) /\ Len(r) = Len(list) - (i - 1)
      /\ \A k \in 1..(Len(list) - (i - 1)) : r[k] = list[(i - 1) + k]
  <2>1. i - 1 \in Nat /\ Len(list) \in Nat /\ Len(list) <= Len(list) /\ (i - 1) + 1 = i
        /\ i - 1 <= Len(list)
    BY <1>1
  <2>2. /\ SubSeq(list, (i - 1) + 1, Len(list)) \in Seq(Cards)
        /\ Len(SubSeq(list, (i - 1) + 1, Len(list)))
              = IF i - 1 < Len(list) THEN Len(list) - (i - 1) ELSE 0
        /\ \A k \in 1..(Len(list) - (i - 1)) :
              SubSeq(list, (i - 1) + 1, Len(list))[k] = list[(i - 1) + k]
    BY <2>1, SliceOfList
  <2> QED BY <2>1, <2>2
<1> HIDE DEF l, r
<1>5. PICK one \in Seq(Cards) : one = <<c>> /\ Len(one) = 1 /\ one[1] = c
  <2>1. <<c>> \in Seq(Cards) /\ Len(<<c>>) = 1 /\ <<c>>[1] = c
    OBVIOUS
  <2> QED BY <2>1, Zenon
<1>6. new = (l \o one) \o r
  BY <1>2, <1>5 DEF InsertAt, l, r
<1>7. /\ l \o one \in Seq(Cards) /\ Len(l \o one) = i
      /\ \A k \in 1..i : (l \o one)[k] = IF k <= i - 1 THEN l[k] ELSE one[k - (i - 1)]
  <2>1. /\ l \o one \in Seq(Cards) /\ Len(l \o one) = Len(l) + Len(one)
        /\ \A k \in 1..(Len(l) + Len(one)) :
              (l \o one)[k] = IF k <= Len(l) THEN l[k] ELSE one[k - Len(l)]
    BY <1>3, <1>5, ConcatProperties
  <2>2. Len(l) = i - 1 /\ Len(one) = 1 /\ (i - 1) + 1 = i
    BY <1>1, <1>3, <1>5
  <2> QED BY <2>1, <2>2
<1>8. /\ new \in Seq(Cards) /\ DOMAIN new = 1..(Len(list) + 1)
      /\ \A k \in 1..(Len(list) + 1) : new[k] = IF k <= i THEN (l \o one)[k] ELSE r[k - i]
  <2>1. /\ new \in Seq(Cards) /\ Len(new) = Len(l \o one) + Len(r)
        /\ \A k \in 1..(Len(l \o one) + Len(r)) :
              new[k] = IF k <= Len(l \o one) THEN (l \o one)[k] ELSE r[k - Len(l \o one)]
    <3>1. PICK left \in Seq(Cards) : left = l \o one
      BY <1>7
    <3>2. /\ left \o r \in Seq(Cards) /\ Len(left \o r) = Len(left) + Len(r)
          /\ \A k \in 1..(Len(left) + Len(r)) :
                (left \o r)[k] = IF k <= Len(left) THEN left[k] ELSE r[k - Len(left)]
      BY <1>4, ConcatProperties
    <3>3. new = left \o r
      BY <1>6, <3>1
    <3> QED BY <3>1, <3>2, <3>3, Zenon
  <2>2. Len(l \o one) = i /\ i + Len(r) = Len(list) + 1
    BY <1>1, <1>4, <1>7
  <2> QED BY <2>1, <2>2, LenProperties
<1>9. c \in Range(new)
  <2>1. i \in 1..i /\ i \in 1..(Len(list) + 1) /\ ~(i <= i - 1) /\ i - (i - 1) = 1 /\ i <= i
    BY <1>1
  <2>2. new[i] = c
    BY <1>5, <1>7, <1>8, <2>1
  <2> QED BY <1>8, <2>1, <2>2 DEF Range
<1>10. ASSUME NEW k \in DOMAIN list
       PROVE  k \in Nat /\ \E j \in DOMAIN new : j \in Nat /\ j >= k /\ new[j] = list[k]
  <2>1. k \in 1..Len(list)
    BY <1>1
  <2>2. CASE k < i
    <3>1. k \in 1..(i - 1) /\ k \in 1..i /\ k \in 1..(Len(list) + 1) /\ k <= i - 1 /\ k <= i
      BY <1>1, <2>1, <2>2
    <3>2. new[k] = list[k]
      BY <1>3, <1>7, <1>8, <3>1
    <3> QED BY <1>8, <3>1, <3>2
  <2>3. CASE k >= i
    <3>1. /\ k + 1 \in 1..(Len(list) + 1) /\ ~(k + 1 <= i)
          /\ (k + 1) - i \in 1..(Len(list) - (i - 1)) /\ (i - 1) + ((k + 1) - i) = k
      BY <1>1, <2>1, <2>3
    <3>2. new[k + 1] = list[k]
      BY <1>4, <1>8, <3>1
    <3>3. k \in Nat /\ k + 1 \in Nat /\ k + 1 >= k
      BY <2>1
    <3>4. k + 1 \in DOMAIN new
      BY <1>8, <3>1
    <3> QED BY <3>2, <3>3, <3>4
  <2> QED BY <1>1, <2>1, <2>2, <2>3
<1> QED BY <1>8, <1>9, <1>10

(* Taking out an entry of one card loses no other card.                    *)
LEMMA EntryRemoved ==
    ASSUME NEW list \in Seq(Cards), NEW c \in Cards, NEW new \in Without(list, c)
    PROVE  /\ new \in Seq(Cards)
           /\ \A d \in Cards \ {c} : d \in Range(list) => d \in Range(new)
<1>1. DOMAIN list = 1..Len(list) /\ Len(list) \in Nat /\ \A k \in 1..Len(list) : list[k] \in Cards
  BY LenProperties, ElementOfSeq
<1>2. PICK i \in 1..Len(list) : list[i] = c /\ new = RemoveAt(list, i)
  BY <1>1 DEF Without
<1> DEFINE l == SubSeq(list, 1, i - 1)
           r == SubSeq(list, i + 1, Len(list))
<1>3. /\ l \in Seq(Cards) /\ Len(l) = i - 1 /\ \A k \in 1..(i - 1) : l[k] = list[k]
  <2>1. i - 1 \in Nat /\ i - 1 <= Len(list) /\ 0 + 1 = 1 /\ 0 \in Nat
    BY <1>1
  <2>2. /\ SubSeq(list, 0 + 1, i - 1) \in Seq(Cards)
        /\ Len(SubSeq(list, 0 + 1, i - 1)) = IF 0 < i - 1 THEN (i - 1) - 0 ELSE 0
        /\ \A k \in 1..((i - 1) - 0) : SubSeq(list, 0 + 1, i - 1)[k] = list[0 + k]
    BY <2>1, SliceOfList
  <2> QED BY <1>1, <2>1, <2>2
<1>4. /\ r \in Seq(Cards) /\ Len(r) = Len(list) - i
      /\ \A k \in 1..(Len(list) - i) : r[k] = list[i + k]
  <2>1. i \in Nat /\ Len(list) \in Nat /\ Len(list) <= Len(list) /\ i <= Len(list)
    BY <1>1
  <2>2. /\ r \in Seq(Cards)
        /\ Len(r) = IF i < Len(list) THEN Len(list) - i ELSE 0
        /\ \A k \in 1..(Len(list) - i) : r[k] = list[i + k]
    BY <2>1, SliceOfList
  <2> QED BY <2>1, <2>2
<1> HIDE DEF l, r
<1>5. new = l \o r
  BY <1>2 DEF RemoveAt, l, r
<1>6. new \in Seq(Cards) /\ Range(new) = Range(l) \cup Range(r)
  BY <1>3, <1>4, <1>5, ConcatProperties, RangeConcatenation
<1>7. ASSUME NEW d \in Cards \ {c}, d \in Range(list) PROVE d \in Range(new)
  <2>1. PICK k \in 1..Len(list) : list[k] = d
    BY <1>1, <1>7 DEF Range
  <2>2. k # i
    BY <1>2, <1>7, <2>1
  <2>3. CASE k < i
    <3>1. k \in 1..(i - 1)
      BY <1>1, <2>3
    <3>2. l[k] = d /\ k \in DOMAIN l
      BY <1>3, <2>1, <3>1, LenProperties
    <3> QED BY <1>6, <3>2 DEF Range
  <2>4. CASE k > i
    <3>1. k - i \in 1..(Len(list) - i) /\ i + (k - i) = k
      BY <1>1, <2>4
    <3>2. r[k - i] = d /\ k - i \in DOMAIN r
      BY <1>4, <2>1, <3>1, LenProperties
    <3> QED BY <1>6, <3>2 DEF Range
  <2> QED BY <1>1, <2>2, <2>3, <2>4
<1> QED BY <1>6, <1>7

(* The page at the offset: what comes next, and nothing only at the end.   *)
LEMMA PageIsNext ==
    ASSUME NEW list \in Seq(Cards), items \in Seq(Cards)
    PROVE  /\ PageOf(list) \in Seq(Cards) /\ items \o PageOf(list) \in Seq(Cards)
           /\ Len(items) \in Nat /\ Len(items \o PageOf(list)) \in Nat
           /\ \A k \in Nat :
                 k > Len(items) /\ k <= Len(items \o PageOf(list)) =>
                    (items \o PageOf(list))[k] = list[k]
           /\ PageOf(list) = <<>> => Len(items \o PageOf(list)) >= Len(list)
<1> DEFINE n == Len(items)
           m == Len(list)
           e == Min({n + PageSize, m})
           page == SubSeq(list, n + 1, e)
<1>1. n \in Nat /\ m \in Nat /\ PageSize \in Nat /\ PageSize > 0
  BY TerminalAssumption, LenProperties
<1> HIDE DEF n, m
<1>2. e \in Nat /\ e <= m /\ (n < m => n < e)
  <2>1. \E x \in {n + PageSize, m} : \A y \in {n + PageSize, m} : x <= y
    BY <1>1
  <2>2. e \in {n + PageSize, m} /\ \A y \in {n + PageSize, m} : e <= y
    BY <2>1 DEF Min
  <2> QED BY <1>1, <2>2
<1>3. PageOf(list) = page
  BY DEF PageOf, n, m
<1> HIDE DEF e
<1>4. /\ page \in Seq(Cards) /\ Len(page) \in Nat /\ Len(page) = IF n < e THEN e - n ELSE 0
      /\ \A i \in 1..(e - n) : page[i] = list[n + i]
  BY <1>1, <1>2, SliceOfList DEF m
<1> HIDE DEF page
<1>5. /\ items \o page \in Seq(Cards) /\ Len(items \o page) = n + Len(page)
      /\ \A k \in 1..(n + Len(page)) : (items \o page)[k] = IF k <= n THEN items[k] ELSE page[k - n]
  BY <1>4, ConcatProperties DEF n
<1>6. ASSUME NEW k \in Nat, k > n, k <= Len(items \o page)
      PROVE  (items \o page)[k] = list[k]
  <2>1. k \in 1..(n + Len(page)) /\ ~(k <= n) /\ k - n \in 1..Len(page)
    BY <1>1, <1>4, <1>5, <1>6
  <2>2. k - n \in 1..(e - n) /\ n + (k - n) = k
    BY <1>1, <1>2, <1>4, <1>6, <2>1
  <2> QED BY <1>4, <1>5, <2>1, <2>2
<1>7. ASSUME page = <<>> PROVE Len(items \o page) >= m
  <2>1. Len(page) = 0
    BY <1>7
  <2> QED BY <1>1, <1>2, <1>4, <1>5, <2>1
<1> QED BY <1>1, <1>3, <1>4, <1>5, <1>6, <1>7 DEF n, m

(* What a page adds, and what is left when the loop ends.                  *)
LEMMA PageKeepsAhead ==
    ASSUME NEW list \in Seq(Cards), items \in Seq(Cards), NEW c \in Cards, Ahead(list, c)
    PROVE  \/ c \in Range(items \o PageOf(list))
           \/ \E k \in DOMAIN list : k > Len(items \o PageOf(list)) /\ list[k] = c
<1>1. /\ PageOf(list) \in Seq(Cards) /\ items \o PageOf(list) \in Seq(Cards)
      /\ Range(items \o PageOf(list)) = Range(items) \cup Range(PageOf(list))
  BY PageIsNext, RangeConcatenation
<1>2. CASE c \in Range(items)
  BY <1>1, <1>2
<1>3. ASSUME NEW k \in DOMAIN list, k > Len(items), list[k] = c
      PROVE  \/ c \in Range(items \o PageOf(list))
             \/ k > Len(items \o PageOf(list))
  <2>1. k \in Nat /\ k >= 1 /\ Len(items \o PageOf(list)) \in Nat
        /\ DOMAIN (items \o PageOf(list)) = 1..Len(items \o PageOf(list))
    <3>1. k \in 1..Len(list)
      BY <1>3, LenProperties
    <3> QED BY <1>1, <3>1, LenProperties
  <2>2. CASE k <= Len(items \o PageOf(list))
    <3>1. (items \o PageOf(list))[k] = list[k]
      BY <1>3, <2>1, <2>2, PageIsNext
    <3>2. k \in DOMAIN (items \o PageOf(list))
      BY <2>1, <2>2
    <3> QED BY <1>3, <3>1, <3>2 DEF Range
  <2> QED BY <1>3, <2>1, <2>2
<1> QED BY <1>2, <1>3 DEF Ahead

(* When the loop ends, nothing is left ahead.                              *)
LEMMA FetchedAllHasAll ==
    ASSUME NEW list \in Seq(Cards), items \in Seq(Cards), NEW c \in Cards, Ahead(list, c),
           FetchedAll(PageOf(list), Len(list))
    PROVE  c \in Range(items \o PageOf(list))
<1>1. Len(items \o PageOf(list)) \in Nat /\ Len(list) \in Nat /\ DOMAIN list = 1..Len(list)
  BY PageIsNext, LenProperties
<1>2. Len(items \o PageOf(list)) >= Len(list)
  BY <1>1, PageIsNext DEF FetchedAll
<1>3. ~\E k \in DOMAIN list : k > Len(items \o PageOf(list)) /\ list[k] = c
  BY <1>1, <1>2
<1> QED BY <1>3, PageKeepsAhead

(* A list that has not been begun is ahead from end to end.                *)
LEMMA ListedIsAhead ==
    ASSUME NEW list \in Seq(Cards), NEW c \in Range(list), items' = <<>>
    PROVE  Ahead(list, c)'
<1>1. DOMAIN list = 1..Len(list) /\ Len(list) \in Nat
  BY LenProperties
<1>2. PICK k \in DOMAIN list : list[k] = c
  BY DEF Range
<1>3. Len(items') = 0 /\ k > 0
  BY <1>1, <1>2
<1> QED BY <1>2, <1>3 DEF Ahead

(* All but the first of a list are in its tail.                            *)
LEMMA TailHasRest ==
    ASSUME NEW list \in Seq(Cards), list # <<>>, NEW c \in Range(list), c # Head(list)
    PROVE  c \in Range(Tail(list))
<1>1. DOMAIN list = 1..Len(list) /\ Len(list) \in Nat /\ Head(list) = list[1]
  BY LenProperties
<1>2. /\ Tail(list) \in Seq(Cards) /\ Len(Tail(list)) = Len(list) - 1
      /\ \A i \in 1..Len(Tail(list)) : Tail(list)[i] = list[i + 1]
  BY HeadTailProperties
<1>3. PICK k \in 1..Len(list) : list[k] = c
  BY <1>1 DEF Range
<1>4. k - 1 \in 1..Len(Tail(list)) /\ (k - 1) + 1 = k
  BY <1>1, <1>2, <1>3
<1>5. k - 1 \in DOMAIN Tail(list) /\ Tail(list)[k - 1] = c
  BY <1>2, <1>3, <1>4, LenProperties
<1> QED BY <1>5 DEF Range

-----------------------------------------------------------------------------
(* The program.                                                            *)

(* A list that has grown keeps ahead what was ahead.                       *)
LEMMA AheadGrows ==
    ASSUME NEW list \in Seq(Cards), NEW c \in Cards, NEW new \in {list} \cup Insertions(list, c),
           NEW d \in Cards, items \in Seq(Cards), Ahead(list, d)
    PROVE  Ahead(new, d)
<1>1. Len(items) \in Nat
  BY LenProperties
<1>2. CASE d \in Range(items) \/ new = list
  BY <1>2 DEF Ahead
<1>3. ASSUME NEW k \in DOMAIN list, k > Len(items), list[k] = d, new # list
      PROVE  Ahead(new, d)
  <2>1. PICK j \in DOMAIN new : j \in Nat /\ k \in Nat /\ j >= k /\ new[j] = list[k]
    BY <1>3, EntryAdded
  <2>2. j > Len(items)
    BY <1>1, <1>3, <2>1
  <2> QED BY <1>3, <2>1, <2>2 DEF Ahead
<1> QED BY <1>2, <1>3 DEF Ahead

(* The cards in use are cards.                                             *)
LEMMA InUseType == InUse \subseteq Cards
BY LookupAssumption DEF InUse

(* The rows there are in the beginning are all listed.                     *)
LEMMA SetListed ==
    ASSUME NEW S \in SUBSET Cards
    PROVE  SetToSeq(S) \in Seq(Cards) /\ Range(SetToSeq(S)) = S
<1> DEFINE n == Cardinality(S)
           f == SetToSeq(S)
<1>1. IsFiniteSet(S)
  BY LookupAssumption, FS_Subset
<1>2. n \in Nat /\ ExistsBijection(1..n, S)
  BY <1>1, FS_CardinalityType
<1>3. \E g \in [1..n -> S] : IsInjective(g)
  BY <1>2 DEF ExistsBijection, Bijection, Injection
<1>4. f \in [1..n -> S] /\ IsInjective(f)
  BY <1>3 DEF SetToSeq
<1> HIDE DEF f
<1>5. f \in Injection(1..n, S)
  BY <1>4 DEF Injection
<1>6. Cardinality(1..n) = n
  BY <1>2, FS_Interval
<1>7. f \in Surjection(1..n, S)
  BY <1>1, <1>5, <1>6, FS_Injection
<1>8. Range(f) = S
  BY <1>4, <1>7 DEF Range, Surjection
<1>9. f \in Seq(Cards)
  <2>1. f \in Seq(S)
    BY <1>2, <1>4
  <2> QED BY <2>1, SeqMonotonic
<1> QED BY <1>8, <1>9 DEF f

(* Everything is well typed in the beginning, and nothing is wrong yet.    *)
LEMMA TerminalInit == Init => TypeOK /\ LookupSafe /\ TableSafe
<1> SUFFICES ASSUME Init PROVE TypeOK /\ LookupSafe /\ TableSafe
    OBVIOUS
<1>1. LookupTypeOK
  <2>1. parts \in [Cards -> SUBSET Parts] /\ made \subseteq Cards
    BY DEF Init, LifeInit
  <2>2. size \in 0..Limit
    BY LookupAssumption DEF Init, LookupInit
  <2>3. pays \in Seq([own : BOOLEAN, ok : BOOLEAN])
    BY EmptySeq DEF Init, LookupInit
  <2> QED BY <2>1, <2>2, <2>3 DEF Init, LookupInit, LookupTypeOK
<1>2. LookupSafe
  <2>1. \A c \in Cards : HasRow(c) => c \in made
    BY DEF Init, LifeInit, HasRow, Complete
  <2> QED BY <2>1, IdleSafe DEF Init, LookupInit
<1>3. rows \in Seq(Cards) /\ wallets = rows /\ Range(rows) = {c \in Cards : HasRow(c)}
  BY SetListed DEF Init
<1>4. ProgramTypeOK
  <2>1. items \in Seq(Cards) /\ todo \in Seq(Cards)
    BY EmptySeq DEF Init
  <2> QED BY <1>3, <2>1 DEF Init, ProgramTypeOK
<1>5. ListsAreTrue
  <2>1. \A c \in Cards : HasWallet(c) => HasRow(c)
    BY DEF Init, LifeInit, HasRow, HasWallet, Parts
  <2> QED BY <1>3, <2>1 DEF ListsAreTrue
<1>6. StartsAfresh /\ NoCardPassedOver /\ TableIsComplete
  BY DEF Init, StartsAfresh, NoCardPassedOver, TableIsComplete, Starting, Serving
<1> QED BY <1>1, <1>2, <1>4, <1>5, <1>6 DEF TypeOK, TableSafe

(* What the calls of the terminal itself do to the lookup: nothing.        *)
LEMMA LookupIdleStep ==
    ASSUME TypeOK, LookupSafe,
           \/ Launch \/ Login \/ FetchWallets \/ CountCards \/ FetchCards \/ ReadLink \/ Ready
           \/ ReadBalance \/ PrintReceipt \/ Released \/ UNCHANGED vars
    PROVE  LookupTypeOK' /\ LookupSafe'
<1>1. UNCHANGED <<life, pays, lookup>>
  BY DEF Launch, Login, FetchWallets, CountCards, FetchCards, ReadLink, Ready, ReadBalance,
     PrintReceipt, Released, Program, vars
<1> QED BY <1>1, LookupUntouched DEF TypeOK

(* Every step of the composition keeps the lookup safe.                    *)
LEMMA LookupStepKept == TypeOK /\ LookupSafe /\ [Next]_vars => LookupTypeOK' /\ LookupSafe'
<1> SUFFICES ASSUME TypeOK, LookupSafe, [Next]_vars PROVE LookupTypeOK' /\ LookupSafe'
    OBVIOUS
<1>0. LookupTypeOK
  BY DEF TypeOK
<1>1. CASE \/ Launch \/ Login \/ FetchWallets \/ CountCards \/ FetchCards \/ ReadLink \/ Ready
           \/ ReadBalance \/ PrintReceipt \/ Released \/ UNCHANGED vars
  BY <1>1, LookupIdleStep
<1>2. CASE SetupFails \/ Quit \/ Shown \/ TimedOut
  BY <1>0, <1>2, DismissSafe DEF SetupFails, Quit, Exit, Shown, TimedOut, Program
<1>3. CASE Served
  BY <1>0, <1>3, QuestionsSafe, BatchSafe DEF Served, LookupStep
<1>4. CASE Payments
  BY <1>0, <1>4, PaymentSafe DEF Payments
<1>5. ASSUME NEW c \in Cards, Tap(c) PROVE LookupTypeOK' /\ LookupSafe'
  <2>1. CASE Ask(c)
    BY <1>0, <2>1, AskSafe
  <2>2. CASE UNCHANGED lookup
    <3>1. UNCHANGED <<life, pays, lookup>>
      BY <1>5, <2>2 DEF Tap, Program, Ask
    <3> QED BY <1>0, <3>1, LookupUntouched
  <2> QED BY <1>5, <2>1, <2>2 DEF Tap
<1>6. ASSUME NEW c \in InUse, CardChanges(c) PROVE LookupTypeOK' /\ LookupSafe'
  BY <1>0, <1>6, InUseType, CardMovesSafe DEF CardChanges
<1> QED BY <1>1, <1>2, <1>3, <1>4, <1>5, <1>6 DEF Next, Work

(* What a change of one card does to the two lists, and to what is listed. *)
LEMMA CardChangesLists ==
    ASSUME TypeOK, ListsAreTrue, NEW c \in Cards, CardChanges(c)
    PROVE  /\ rows' \in Seq(Cards) /\ wallets' \in Seq(Cards)
           /\ ListsAreTrue'
           /\ (HasRow(c) => HasRow(c)') => rows' \in {rows} \cup Insertions(rows, c)
           /\ (HasWallet(c) => HasWallet(c)') => wallets' \in {wallets} \cup Insertions(wallets, c)
           /\ \A d \in Cards \ {c} : parts'[d] = parts[d]
<1>1. rows \in Seq(Cards) /\ wallets \in Seq(Cards)
  BY DEF TypeOK, ProgramTypeOK
<1>2. \A d \in Cards \ {c} : parts'[d] = parts[d]
  BY LifeMoves DEF CardChanges, CardMoves, TypeOK
<1>3. \A d \in Cards \ {c} : (HasRow(d)' <=> HasRow(d)) /\ (HasWallet(d)' <=> HasWallet(d))
  BY <1>2 DEF HasRow, HasWallet
<1>4. /\ rows' \in Seq(Cards)
      /\ \A d \in Cards : HasRow(d)' => d \in Range(rows')
      /\ (HasRow(c) => HasRow(c)') => rows' \in {rows} \cup Insertions(rows, c)
  <2>1. CASE (HasRow(c)' <=> HasRow(c)) /\ rows' = rows
    BY <1>1, <1>3, <2>1 DEF ListsAreTrue
  <2>2. CASE ~HasRow(c) /\ HasRow(c)' /\ rows' \in Insertions(rows, c)
    <3>1. rows' \in Seq(Cards) /\ c \in Range(rows') /\ \A d \in Range(rows) : d \in Range(rows')
      BY <1>1, <2>2, EntryAdded DEF Range
    <3> QED BY <1>3, <2>2, <3>1 DEF ListsAreTrue
  <2>3. CASE HasRow(c) /\ ~HasRow(c)' /\ rows' \in Without(rows, c)
    BY <1>1, <1>3, <2>3, EntryRemoved DEF ListsAreTrue
  <2> QED BY <2>1, <2>2, <2>3 DEF CardChanges
<1>5. /\ wallets' \in Seq(Cards)
      /\ \A d \in Cards : HasWallet(d)' => d \in Range(wallets')
      /\ (HasWallet(c) => HasWallet(c)') => wallets' \in {wallets} \cup Insertions(wallets, c)
  <2>1. CASE (HasWallet(c)' <=> HasWallet(c)) /\ wallets' = wallets
    BY <1>1, <1>3, <2>1 DEF ListsAreTrue
  <2>2. CASE ~HasWallet(c) /\ HasWallet(c)' /\ wallets' \in Insertions(wallets, c)
    <3>1. /\ wallets' \in Seq(Cards) /\ c \in Range(wallets')
          /\ \A d \in Range(wallets) : d \in Range(wallets')
      BY <1>1, <2>2, EntryAdded DEF Range
    <3> QED BY <1>3, <2>2, <3>1 DEF ListsAreTrue
  <2>3. CASE HasWallet(c) /\ ~HasWallet(c)' /\ wallets' \in Without(wallets, c)
    BY <1>1, <1>3, <2>3, EntryRemoved DEF ListsAreTrue
  <2> QED BY <2>1, <2>2, <2>3 DEF CardChanges
<1> QED BY <1>2, <1>4, <1>5 DEF ListsAreTrue

(* Every step of the composition keeps the types of the program.           *)
LEMMA ProgramTypeStep == TypeOK /\ ListsAreTrue /\ [Next]_vars => ProgramTypeOK'
<1> SUFFICES ASSUME TypeOK, ListsAreTrue, [Next]_vars PROVE ProgramTypeOK'
    OBVIOUS
<1> USE DEF ProgramTypeOK, Starting, Serving
<1>0. ProgramTypeOK /\ <<>> \in Seq(Cards)
  BY DEF TypeOK
<1>1. CASE UNCHANGED vars
  BY <1>0, <1>1 DEF vars, program
<1>2. CASE Launch
  BY <1>0, <1>2 DEF Launch, Program, Kept
<1>3. CASE SetupFails \/ Quit
  <2>1. /\ UNCHANGED <<mode, rows, wallets>> /\ tpc' = "off"
        /\ items' = <<>> /\ todo' = <<>> /\ total' = 0 /\ tapped' = None
        /\ walletOf' = {} /\ table' = {} /\ present' = {} /\ disturbed' = FALSE
    BY <1>3 DEF SetupFails, Quit, Exit, Program
  <2> QED BY <1>0, <2>1
<1>4. CASE \/ Login \/ Ready \/ Shown \/ TimedOut \/ ReadBalance \/ PrintReceipt \/ Released
  BY <1>0, <1>4 DEF Login, Ready, Shown, TimedOut, ReadBalance, PrintReceipt, Released, Program, Kept
<1>5. CASE FetchWallets
  <2>1. items \o PageOf(wallets) \in Seq(Cards) /\ Range(items \o PageOf(wallets)) \subseteq Cards
    <3>1. items \o PageOf(wallets) \in Seq(Cards)
      BY <1>0, PageIsNext
    <3>2. Range(items \o PageOf(wallets)) \in SUBSET Cards
      BY <3>1, RangeOfSeq
    <3> QED BY <3>1, <3>2
  <2> QED BY <1>0, <1>5, <2>1 DEF FetchWallets, Program
<1>6. CASE CountCards
  <2>1. Len(rows) \in Nat
    BY <1>0, LenProperties
  <2> QED BY <1>0, <1>6, <2>1 DEF CountCards, Program
<1>7. CASE FetchCards
  <2>1. items \o PageOf(rows) \in Seq(Cards)
    BY <1>0, PageIsNext
  <2> QED BY <1>0, <1>7, <2>1 DEF FetchCards, Program
<1>8. CASE ReadLink
  <2>1. Head(todo) \in Cards /\ Tail(todo) \in Seq(Cards)
    BY <1>0, <1>8, HeadTailProperties DEF ReadLink
  <2> QED BY <1>0, <1>8, <2>1 DEF ReadLink, Program
<1>9. CASE Served \/ Payments
  BY <1>0, <1>9 DEF Served, Payments, program
<1>10. ASSUME NEW c \in Cards, Tap(c) PROVE ProgramTypeOK'
  BY <1>0, <1>10 DEF Tap, Program, Kept
<1>11. ASSUME NEW c \in InUse, CardChanges(c) PROVE ProgramTypeOK'
  <2>1. rows' \in Seq(Cards) /\ wallets' \in Seq(Cards)
    BY <1>11, InUseType, CardChangesLists
  <2>2. disturbed' \in BOOLEAN /\ UNCHANGED <<mode, program, present>>
    BY <1>0, <1>11 DEF CardChanges, Disturbs
  <2> QED BY <1>0, <2>1, <2>2 DEF program
<1> QED BY <1>1, <1>2, <1>3, <1>4, <1>5, <1>6, <1>7, <1>8, <1>9, <1>10, <1>11 DEF Next, Work

(* Nothing else changes the lists, or what they list.                      *)
LEMMA ListsStep == TypeOK /\ ListsAreTrue /\ [Next]_vars => ListsAreTrue'
<1> SUFFICES ASSUME TypeOK, ListsAreTrue, [Next]_vars PROVE ListsAreTrue'
    OBVIOUS
<1>1. CASE \E c \in InUse : CardChanges(c)
  BY <1>1, InUseType, CardChangesLists
<1>2. CASE ~\E c \in InUse : CardChanges(c)
  <2>1. UNCHANGED <<life, rows, wallets>>
    BY <1>2 DEF Next, Work, vars, Launch, SetupFails, Quit, Exit, Login, Ready, Shown, TimedOut,
       ReadBalance, PrintReceipt, Released, Program, FetchWallets, CountCards, FetchCards, ReadLink,
       Served, LookupStep, FindRow, FindWallet, CheckLink, ReadHistory, Answer, Proceed, Payments,
       PaymentArrives, PaymentSucceeds, Tap
  <2> QED BY <2>1 DEF ListsAreTrue, HasRow, HasWallet, life
<1> QED BY <1>1, <1>2

(* A change that does not disturb a start passes over no card.             *)
LEMMA CardChangesTable ==
    ASSUME TypeOK, TableSafe, NEW c \in Cards, CardChanges(c)
    PROVE  StartsAfresh' /\ NoCardPassedOver' /\ TableIsComplete'
<1>1. /\ UNCHANGED <<mode, tpc, items, total, walletOf, todo, table, present>>
      /\ disturbed' = (disturbed \/ Disturbs(c))
  BY DEF CardChanges, program
<1>2. ProgramTypeOK /\ LookupTypeOK /\ ListsAreTrue /\ StartsAfresh /\ NoCardPassedOver
      /\ TableIsComplete
  BY DEF TypeOK, TableSafe
<1>3. StartsAfresh'
  BY <1>1, <1>2 DEF StartsAfresh
<1>4. TableIsComplete'
  BY <1>1, <1>2 DEF TableIsComplete
<1>6. NoCardPassedOver'
  <2>1. SUFFICES ASSUME tpc \in Starting, ~disturbed, ~Disturbs(c), NEW d \in present
                 PROVE  /\ Complete(d)'
                        /\ tpc = "wallets" => Ahead(wallets, d)'
                        /\ tpc \in {"count", "cards"} => Ahead(rows, d)'
    BY <1>1, <1>2 DEF NoCardPassedOver, ProgramTypeOK
  <2>2. /\ d \in Cards /\ Complete(d)
        /\ tpc = "wallets" => Ahead(wallets, d)
        /\ tpc \in {"count", "cards"} => Ahead(rows, d)
    BY <1>2, <2>1 DEF NoCardPassedOver, ProgramTypeOK
  <2>3. parts[c] \subseteq parts'[c] /\ parts' \in [Cards -> SUBSET Parts]
    BY <1>2, <2>1, LifeMoves DEF Disturbs, CardChanges, CardMoves
  <2>4. (HasRow(c) => HasRow(c)') /\ (HasWallet(c) => HasWallet(c)')
    BY <2>3 DEF HasRow, HasWallet
  <2>5. /\ rows' \in {rows} \cup Insertions(rows, c)
        /\ wallets' \in {wallets} \cup Insertions(wallets, c)
        /\ \A e \in Cards \ {c} : parts'[e] = parts[e]
    BY <1>2, <2>4, CardChangesLists
  <2>6. Complete(d)'
    BY <2>2, <2>3, <2>5 DEF Complete
  <2>7. /\ tpc = "wallets" => Ahead(wallets', d)
        /\ tpc \in {"count", "cards"} => Ahead(rows', d)
    BY <1>2, <2>2, <2>5, AheadGrows DEF ProgramTypeOK
  <2> QED BY <1>1, <2>6, <2>7 DEF Ahead
<1> QED BY <1>3, <1>4, <1>6

(* The wallets are fetched whole, a page after the other.                  *)
LEMMA FetchWalletsTable ==
    ASSUME TypeOK, TableSafe, FetchWallets
    PROVE  StartsAfresh' /\ NoCardPassedOver' /\ TableIsComplete'
<1>1. /\ tpc = "wallets" /\ tpc' \in {"wallets", "count"}
      /\ UNCHANGED <<life, rows, wallets, mode, total, todo, table, present, disturbed>>
  BY DEF FetchWallets, Program
<1>2. ProgramTypeOK /\ ListsAreTrue /\ StartsAfresh /\ NoCardPassedOver
  BY DEF TypeOK, TableSafe
<1>3. StartsAfresh' /\ TableIsComplete'
  BY <1>1, <1>2 DEF StartsAfresh, TableIsComplete, Starting, Serving
<1>4. NoCardPassedOver'
  <2>1. SUFFICES ASSUME ~disturbed, NEW d \in present
                 PROVE  /\ Complete(d)'
                        /\ tpc' = "wallets" => Ahead(wallets, d)'
                        /\ tpc' = "count" => d \in walletOf' /\ Ahead(rows, d)'
    BY <1>1 DEF NoCardPassedOver
  <2>2. d \in Cards /\ Complete(d) /\ Ahead(wallets, d)
    BY <1>1, <1>2, <2>1 DEF NoCardPassedOver, ProgramTypeOK, Starting
  <2>3. Complete(d)'
    BY <1>1, <2>2 DEF Complete, life
  <2>4. wallets \in Seq(Cards) /\ rows \in Seq(Cards) /\ items \in Seq(Cards)
    BY <1>2 DEF ProgramTypeOK
  <2>5. CASE FetchedAll(PageOf(wallets), Len(wallets))
    <3>1. walletOf' = Range(items \o PageOf(wallets)) /\ items' = <<>> /\ tpc' = "count"
      BY <2>5 DEF FetchWallets, Program
    <3>2. d \in Range(items \o PageOf(wallets))
      BY <2>2, <2>4, <2>5, FetchedAllHasAll
    <3>3. d \in Range(rows)
      BY <1>2, <2>2 DEF ListsAreTrue, Complete, Parts, HasRow
    <3>4. Ahead(rows, d)'
      BY <1>1, <2>4, <3>1, <3>3, ListedIsAhead
    <3> QED BY <2>3, <3>1, <3>2, <3>4
  <2>6. CASE ~FetchedAll(PageOf(wallets), Len(wallets))
    <3>1. items' = items \o PageOf(wallets) /\ tpc' = "wallets"
      BY <2>6 DEF FetchWallets, Program
    <3>2. Ahead(wallets, d)'
      BY <1>1, <2>2, <2>4, <3>1, PageKeepsAhead DEF Ahead
    <3> QED BY <2>3, <3>1, <3>2
  <2> QED BY <2>5, <2>6
<1> QED BY <1>3, <1>4

(* So are the rows, unless the loop ends on a count that is out of date.   *)
LEMMA FetchCardsTable ==
    ASSUME TypeOK, TableSafe, FetchCards
    PROVE  StartsAfresh' /\ NoCardPassedOver' /\ TableIsComplete'
<1>1. /\ tpc = "cards" /\ tpc' \in {"count", "links"}
      /\ UNCHANGED <<life, rows, wallets, mode, walletOf, table, present>>
      /\ disturbed => disturbed'
  BY DEF FetchCards, Program, ProgramTypeOK, TypeOK
<1>2. ProgramTypeOK /\ ListsAreTrue /\ StartsAfresh /\ NoCardPassedOver
  BY DEF TypeOK, TableSafe
<1>3. StartsAfresh' /\ TableIsComplete'
  BY <1>1, <1>2 DEF StartsAfresh, TableIsComplete, Starting, Serving
<1>4. NoCardPassedOver'
  <2>1. SUFFICES ASSUME ~disturbed, ~disturbed', NEW d \in present
                 PROVE  /\ Complete(d)' /\ d \in walletOf'
                        /\ tpc' = "count" => Ahead(rows, d)'
                        /\ tpc' = "links" => d \in Range(todo')
    BY <1>1 DEF NoCardPassedOver
  <2>2. d \in Cards /\ Complete(d) /\ Ahead(rows, d) /\ d \in walletOf
    BY <1>1, <1>2, <2>1 DEF NoCardPassedOver, ProgramTypeOK, Starting
  <2>3. Complete(d)' /\ d \in walletOf'
    BY <1>1, <2>2 DEF Complete, life
  <2>4. rows \in Seq(Cards) /\ items \in Seq(Cards)
    BY <1>2 DEF ProgramTypeOK
  <2>5. CASE FetchedAll(PageOf(rows), total)
    <3>1. todo' = items \o PageOf(rows) /\ tpc' = "links" /\ total = Len(rows)
      BY <2>1, <2>5 DEF FetchCards, Program
    <3>2. d \in Range(items \o PageOf(rows))
      BY <2>2, <2>4, <2>5, <3>1, FetchedAllHasAll
    <3> QED BY <2>3, <3>1, <3>2
  <2>6. CASE ~FetchedAll(PageOf(rows), total)
    <3>1. items' = items \o PageOf(rows) /\ tpc' = "count"
      BY <2>6 DEF FetchCards, Program
    <3>2. Ahead(rows, d)'
      BY <1>1, <2>2, <2>4, <3>1, PageKeepsAhead DEF Ahead
    <3> QED BY <2>3, <3>1, <3>2
  <2> QED BY <2>5, <2>6
<1> QED BY <1>3, <1>4

(* The cards fetched become entries of the table, one by one.              *)
LEMMA ReadLinkTable ==
    ASSUME TypeOK, TableSafe, ReadLink
    PROVE  StartsAfresh' /\ NoCardPassedOver' /\ TableIsComplete'
<1>1. /\ tpc = "links" /\ tpc' = "links" /\ todo # <<>> /\ todo' = Tail(todo)
      /\ table' = IF Head(todo) \in walletOf THEN table \cup {Head(todo)} ELSE table
      /\ UNCHANGED <<life, rows, wallets, mode, items, walletOf, present, disturbed>>
  BY DEF ReadLink, Program
<1>2. ProgramTypeOK /\ StartsAfresh /\ NoCardPassedOver
  BY DEF TypeOK, TableSafe
<1>3. StartsAfresh' /\ TableIsComplete'
  BY <1>1, <1>2 DEF StartsAfresh, TableIsComplete, Starting, Serving
<1>4. NoCardPassedOver'
  <2>1. SUFFICES ASSUME ~disturbed, NEW d \in present
                 PROVE  Complete(d)' /\ d \in walletOf' /\ d \in table' \cup Range(todo')
    BY <1>1 DEF NoCardPassedOver
  <2>2. Complete(d) /\ d \in walletOf /\ d \in table \cup Range(todo) /\ todo \in Seq(Cards)
    BY <1>1, <1>2, <2>1 DEF NoCardPassedOver, ProgramTypeOK, Starting
  <2>3. Complete(d)'
    BY <1>1, <2>2 DEF Complete, life
  <2>4. d \in Range(todo) => d = Head(todo) \/ d \in Range(Tail(todo))
    BY <1>1, <2>2, TailHasRest
  <2> QED BY <1>1, <2>2, <2>3, <2>4
<1> QED BY <1>3, <1>4

(* Every step keeps the table complete and what its fetch rests on.        *)
LEMMA TableStep == TypeOK /\ TableSafe /\ [Next]_vars => TableSafe'
<1> SUFFICES ASSUME TypeOK, TableSafe, [Next]_vars
             PROVE  StartsAfresh' /\ NoCardPassedOver' /\ TableIsComplete'
    BY ListsStep DEF TableSafe
<1>0. ProgramTypeOK /\ ListsAreTrue /\ StartsAfresh /\ NoCardPassedOver /\ TableIsComplete
  BY DEF TypeOK, TableSafe
<1>1. CASE \/ FetchWallets \/ FetchCards \/ ReadLink \/ \E c \in InUse : CardChanges(c)
  BY <1>1, FetchWalletsTable, FetchCardsTable, ReadLinkTable, InUseType, CardChangesTable
<1>2. CASE Launch
  <2>1. /\ mode' = mode /\ tpc' \in {"prompt", "login"} /\ (tpc' = "prompt" => mode = "public")
        /\ (mode = "public" => tpc' = "prompt")
        /\ items' = items /\ table' = table /\ tpc = "off"
        /\ UNCHANGED life /\ present' = {c \in Cards : Complete(c)}
    BY <1>2 DEF Launch, Program, Kept
  <2>2. StartsAfresh' /\ TableIsComplete'
    BY <1>0, <2>1 DEF StartsAfresh, TableIsComplete, Starting, Serving
  <2>3. NoCardPassedOver'
    BY <1>0, <2>1 DEF NoCardPassedOver, Complete, life
  <2> QED BY <2>2, <2>3
<1>3. CASE SetupFails \/ Quit
  <2>1. mode' = mode /\ tpc' = "off" /\ items' = <<>> /\ table' = {} /\ present' = {}
    BY <1>3 DEF SetupFails, Quit, Exit, Program
  <2> QED BY <2>1 DEF StartsAfresh, NoCardPassedOver, TableIsComplete, Starting, Serving
<1>4. CASE Login
  <2>1. /\ tpc = "login" /\ tpc' = "wallets"
        /\ UNCHANGED <<life, mode, wallets, rows, items, table, present, disturbed>>
    BY <1>4 DEF Login, Program, Kept
  <2>2. StartsAfresh' /\ TableIsComplete'
    BY <1>0, <2>1 DEF StartsAfresh, TableIsComplete, Starting, Serving
  <2>3. SUFFICES ASSUME ~disturbed, NEW d \in present PROVE Complete(d)' /\ Ahead(wallets, d)'
    BY <2>1, <2>2 DEF NoCardPassedOver
  <2>4. d \in Cards /\ Complete(d)
    BY <1>0, <2>1, <2>3 DEF NoCardPassedOver, ProgramTypeOK, Starting
  <2>5. d \in Range(wallets) /\ items' = <<>> /\ wallets' \in Seq(Cards) /\ wallets' = wallets
    BY <1>0, <2>1, <2>4 DEF ListsAreTrue, StartsAfresh, ProgramTypeOK, Complete, Parts,
       HasWallet
  <2>6. Ahead(wallets, d)'
    BY <2>5, ListedIsAhead
  <2> QED BY <2>1, <2>4, <2>6 DEF Complete, life
<1>5. CASE CountCards
  <2>1. /\ tpc = "count" /\ tpc' = "cards" /\ total' = Len(rows)
        /\ UNCHANGED <<life, mode, wallets, rows, items, walletOf, table, present, disturbed>>
    BY <1>5 DEF CountCards, Program
  <2>2. StartsAfresh' /\ TableIsComplete'
    BY <1>0, <2>1 DEF StartsAfresh, TableIsComplete, Starting, Serving
  <2>3. NoCardPassedOver'
    BY <1>0, <2>1 DEF NoCardPassedOver, Ahead, Starting, Complete, life
  <2> QED BY <2>2, <2>3
<1>6. CASE Ready
  <2>1. /\ tpc = "links" /\ tpc' = "prompt" /\ todo = <<>>
        /\ UNCHANGED <<mode, table, present, disturbed>>
    BY <1>6 DEF Ready, Program, Kept
  <2>2. StartsAfresh' /\ NoCardPassedOver'
    BY <1>0, <2>1 DEF StartsAfresh, NoCardPassedOver, Starting
  <2>3. Range(todo) = {}
    BY <2>1 DEF Range
  <2>4. TableIsComplete'
    BY <1>0, <2>1, <2>3 DEF TableIsComplete, NoCardPassedOver, Starting
  <2> QED BY <2>2, <2>4
<1>7. CASE \/ Shown \/ TimedOut \/ ReadBalance \/ PrintReceipt \/ Released \/ \E c \in Cards : Tap(c)
  <2>1. /\ tpc \in {"prompt", "release"} \cup Serving /\ tpc' \in {"prompt", "release"} \cup Serving
        /\ UNCHANGED <<mode, table, present, disturbed>>
    BY <1>7 DEF Shown, TimedOut, ReadBalance, PrintReceipt, Released, Tap, Program, Kept, Serving
  <2> QED BY <1>0, <2>1 DEF StartsAfresh, NoCardPassedOver, TableIsComplete, Starting, Serving
<1>8. CASE Served \/ Payments \/ UNCHANGED vars
  <2>1. UNCHANGED <<life, mode, rows, wallets, tpc, items, total, walletOf, todo, table, present, disturbed>>
    BY <1>8 DEF Served, LookupStep, FindRow, FindWallet, CheckLink, ReadHistory, Answer, Proceed,
       Payments, PaymentArrives, PaymentSucceeds, program, vars
  <2> QED BY <1>0, <2>1 DEF StartsAfresh, NoCardPassedOver, TableIsComplete, Ahead, Complete, life
<1> QED BY <1>1, <1>2, <1>3, <1>4, <1>5, <1>6, <1>7, <1>8 DEF Next, Work

(* Types and both invariants together, as the theorems use them.           *)
LEMMA TerminalInvariant == Spec => [](TypeOK /\ LookupSafe /\ TableSafe)
<1>1. TypeOK /\ LookupSafe /\ TableSafe /\ [Next]_vars => (TypeOK /\ LookupSafe /\ TableSafe)'
  BY LookupStepKept, ProgramTypeStep, TableStep DEF TypeOK, TableSafe
<1> QED BY <1>1, TerminalInit, PTL DEF Spec

(* Program and lookup stay well typed, whatever shifts under their offsets *)
(* and wherever a start or a tap is broken off.                            *)
THEOREM TerminalTypes == Spec => []TypeOK
BY TerminalInvariant, PTL

(* The history of a card has no gap: for any limit and any size of batch,  *)
(* any number of payments, arriving and succeeding while it is read.       *)
THEOREM HistoriesHaveNoGap == Spec => []HistoryHasNoGap
<1>1. LookupSafe => HistoryHasNoGap
  BY DEF LookupSafe
<1> QED BY <1>1, TerminalInvariant, PTL

(* A card that is shown was whole at one moment of the request, although   *)
(* its parts are read one after the other while it is issued, undone or    *)
(* deleted.                                                                *)
THEOREM OnlyWholeCardsFound == Spec => []FoundCardWasWhole
<1>1. LookupSafe => FoundCardWasWhole
  BY DEF LookupSafe
<1> QED BY <1>1, TerminalInvariant, PTL

(* A start ends with every card in the table that was there at its         *)
(* beginning, for any number of cards and any size of page, if no card was *)
(* deleted meanwhile and the count on which the loop ended was that of the *)
(* rows read after it.  Cards issued at any other time cost no entry.      *)
THEOREM TablesAreComplete == Spec => []TableIsComplete
<1>1. TableSafe => TableIsComplete
  BY DEF TableSafe
<1> QED BY <1>1, TerminalInvariant, PTL

=============================================================================
