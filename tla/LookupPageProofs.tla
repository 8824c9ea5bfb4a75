-------------------------- MODULE LookupPageProofs --------------------------
(***************************************************************************)
(* The safety of static/js/lookup.js, for any number of cards, of lookups  *)
(* waiting at once, for any cooldown and any clock.                        *)
(***************************************************************************)
EXTENDS LookupPage, TLAPS

PageInv == TypeOK /\ PageSafe

LEMMA InitSafe == Init => PageInv
<1>1. Init => TypeOK
  <2>1. 0 \in Times
    BY PageAssumption DEF Times
  <2> QED BY <2>1 DEF Init, TypeOK
<1>2. Init => GenerationSafe
  BY PageAssumption DEF Init, GenerationSafe, Busy
<1>3. Init => TimesRemembered
  BY DEF Init, TimesRemembered
<1> QED BY <1>1, <1>2, <1>3 DEF PageInv, PageSafe

(* A fresh generation is one that no waiting lookup has.                   *)
LEMMA FreshIsFresh ==
  ASSUME TypeOK
  PROVE  /\ Fresh \in Generations
         /\ \A l \in Lookups : Busy(l) => gen[l] # Fresh
<1> DEFINE used == [l \in Lookups |-> IF gen[l] \in Generations THEN gen[l] ELSE generation]
<1>1. used \in [Lookups -> Generations]
  BY DEF TypeOK
<1>2. PICK g \in Generations : \A l \in Lookups : used[l] # g
  BY <1>1, PageAssumption
<1>3. \A l \in Lookups : Busy(l) => gen[l] # g
  BY <1>2, PageAssumption DEF TypeOK
<1> QED BY <1>2, <1>3 DEF Fresh

-----------------------------------------------------------------------------
LEMMA AbortTyped == ASSUME TypeOK, Abort PROVE aborted' \subseteq Lookups
<1>1. CASE controller = None
  BY <1>1 DEF TypeOK, Abort
<1>2. CASE controller # None
  <2>1. controller \in Lookups
    BY <1>2 DEF TypeOK
  <2> QED BY <1>2, <2>1 DEF TypeOK, Abort
<1> QED BY <1>1, <1>2

(* Each group of actions keeps the invariant.                              *)

LEMMA StopScanKeeps == ASSUME PageInv, StopScan PROVE PageInv'
<1> USE DEF PageInv, PageSafe
<1>0. /\ Fresh \in Generations
      /\ \A l \in Lookups : Busy(l) => gen[l] # Fresh
  BY FreshIsFresh
<1>1. TypeOK'
  <2>1. aborted' \subseteq Lookups
    BY AbortTyped DEF StopScan
  <2> QED BY <1>0, <2>1 DEF StopScan, TypeOK, printer
<1>2. GenerationSafe'
  BY <1>0, PageAssumption, SMT DEF StopScan, Abort, TypeOK, GenerationSafe, Busy
<1>3. TimesRemembered'
  BY SMT DEF StopScan, printer, TimesRemembered
<1> QED BY <1>1, <1>2, <1>3

LEMMA ReadOtherKeeps == ASSUME PageInv, ReadOther PROVE PageInv'
<1> USE DEF PageInv, PageSafe
<1>0. /\ Fresh \in Generations
      /\ \A l \in Lookups : Busy(l) => gen[l] # Fresh
  BY FreshIsFresh
<1>1. TypeOK'
  <2>1. aborted' \subseteq Lookups
    BY AbortTyped DEF ReadOther
  <2> QED BY <1>0, <2>1 DEF ReadOther, TypeOK, printer
<1>2. GenerationSafe'
  BY <1>0, PageAssumption, SMT DEF ReadOther, Abort, TypeOK, GenerationSafe, Busy
<1>3. TimesRemembered'
  BY SMT DEF ReadOther, printer, TimesRemembered
<1> QED BY <1>1, <1>2, <1>3

LEMMA ReadCardKeeps ==
  ASSUME PageInv, NEW l \in Lookups, ReadCard(l)
  PROVE  PageInv'
<1> USE DEF PageInv, PageSafe
<1>0. /\ Fresh \in Generations
      /\ \A k \in Lookups : Busy(k) => gen[k] # Fresh
  BY FreshIsFresh
<1>1. TypeOK'
  <2>1. aborted' \subseteq Lookups
    BY AbortTyped DEF ReadCard
  <2> QED BY <1>0, <2>1 DEF ReadCard, TypeOK, printer
<1>2. GenerationSafe'
  BY <1>0, PageAssumption, SMT DEF ReadCard, Abort, TypeOK, GenerationSafe, Busy
<1>3. TimesRemembered'
  BY SMT DEF ReadCard, printer, TimesRemembered
<1> QED BY <1>1, <1>2, <1>3

(* A receipt of its own: the table keeps what still counts.                *)
LEMMA AutoPrintKeeps ==
  ASSUME TypeOK, TimesRemembered, UNCHANGED now, NEW c \in Cards, AutoPrint(c)
  PROVE  /\ autoTimes' \in [Cards -> Times \cup {None}]
         /\ autoAsked' \in [Cards -> Times \cup {None}]
         /\ TimesRemembered'
<1>1. CASE autoPrint /\ ~Recent(c)
  <2>1. /\ autoTimes' = [d \in Cards |-> IF d = c THEN now
                                         ELSE IF Recent(d) THEN autoTimes[d] ELSE None]
        /\ autoAsked' = [autoAsked EXCEPT ![c] = now]
    BY <1>1 DEF AutoPrint
  <2>2. /\ autoTimes' \in [Cards -> Times \cup {None}]
        /\ autoAsked' \in [Cards -> Times \cup {None}]
    BY <2>1 DEF TypeOK
  <2>3. ASSUME NEW d \in Cards
        PROVE  /\ autoAsked'[d] # None => autoAsked'[d] <= now'
               /\ \/ autoTimes'[d] = autoAsked'[d]
                  \/ /\ autoTimes'[d] = None /\ autoAsked'[d] # None
                     /\ autoAsked'[d] + Cooldown <= now'
    BY <2>1, PageAssumption, SMT DEF TypeOK, Times, TimesRemembered, Recent
  <2> QED BY <2>2, <2>3 DEF TimesRemembered
<1>2. CASE ~(autoPrint /\ ~Recent(c))
  BY <1>2 DEF AutoPrint, TypeOK, TimesRemembered
<1> QED BY <1>1, <1>2

(* The end of a run; what it showed and printed is left out.               *)
LEMMA EndsKeeps ==
  ASSUME TypeOK, GenerationSafe, NEW l \in Lookups, Busy(l), Ends(l),
         UNCHANGED <<generation, lastTag>>
  PROVE  /\ GenerationSafe'
         /\ controller' \in Lookups \cup {None}
         /\ card' \in [Lookups -> Cards \cup {None}]
         /\ gen' \in [Lookups -> Generations \cup {None}]
         /\ aborted' \subseteq Lookups
         /\ loading' \in BOOLEAN
<1>1. GenerationSafe'
  BY PageAssumption, SMT DEF Ends, Over, Current, TypeOK, GenerationSafe, Busy
<1>2. loading' \in BOOLEAN /\ controller' \in Lookups \cup {None}
  <2>1. CASE Current(l)
    BY <2>1 DEF Ends
  <2>2. CASE ~Current(l)
    BY <2>2 DEF Ends, TypeOK
  <2> QED BY <2>1, <2>2
<1>3. card' \in [Lookups -> Cards \cup {None}] /\ gen' \in [Lookups -> Generations \cup {None}]
  BY DEF Ends, Over, TypeOK
<1>4. aborted' \subseteq Lookups
  BY DEF Ends, Over, TypeOK
<1> QED BY <1>1, <1>2, <1>3, <1>4

LEMMA SettlesKeeps ==
  ASSUME PageInv, NEW l \in Lookups, Settles(l)
  PROVE  PageInv'
<1> USE DEF PageInv, PageSafe
<1>1. CASE Found(l)
  <2>1. GenerationSafe' /\ controller' \in Lookups \cup {None}
        /\ card' \in [Lookups -> Cards \cup {None}]
        /\ gen' \in [Lookups -> Generations \cup {None}]
        /\ aborted' \subseteq Lookups /\ loading' \in BOOLEAN
    BY <1>1, EndsKeeps DEF Found
  <2>2. CASE Current(l)
    <3>1. card[l] \in Cards
      BY <1>1 DEF Found, Busy, TypeOK
    <3>2. AutoPrint(card[l]) /\ result' = card[l] /\ uri' = card[l]
      BY <1>1, <2>2 DEF Found
    <3>3. UNCHANGED now
      BY <1>1 DEF Found
    <3>4. /\ autoTimes' \in [Cards -> Times \cup {None}]
          /\ autoAsked' \in [Cards -> Times \cup {None}]
          /\ TimesRemembered'
      BY <3>1, <3>2, <3>3, AutoPrintKeeps
    <3>5. TypeOK'
      BY <1>1, <2>1, <3>1, <3>2, <3>4 DEF Found, TypeOK
    <3> QED BY <2>1, <3>4, <3>5
  <2>3. CASE ~Current(l)
    <3>1. TypeOK'
      BY <1>1, <2>1, <2>3 DEF Found, TypeOK
    <3>2. TimesRemembered'
      BY <1>1, <2>3 DEF Found, TimesRemembered
    <3> QED BY <2>1, <3>1, <3>2
  <2> QED BY <2>2, <2>3
<1>2. CASE Failed(l)
  <2>1. GenerationSafe' /\ controller' \in Lookups \cup {None}
        /\ card' \in [Lookups -> Cards \cup {None}]
        /\ gen' \in [Lookups -> Generations \cup {None}]
        /\ aborted' \subseteq Lookups /\ loading' \in BOOLEAN
    BY <1>2, EndsKeeps DEF Failed
  <2>2. TypeOK'
    BY <1>2, <2>1 DEF Failed, TypeOK, printer
  <2>3. TimesRemembered'
    BY <1>2 DEF Failed, printer, TimesRemembered
  <2> QED BY <2>1, <2>2, <2>3
<1> QED BY <1>1, <1>2 DEF Settles

LEMMA TickKeeps == ASSUME PageInv, Tick PROVE PageInv'
<1> USE DEF PageInv, PageSafe
<1>1. TypeOK'
  BY PageAssumption, SMT DEF Tick, TypeOK, Times, lookups, printer
<1>2. GenerationSafe'
  BY DEF Tick, lookups, GenerationSafe, Busy
<1>3. TimesRemembered'
  BY PageAssumption, SMT DEF Tick, TypeOK, Times, printer, TimesRemembered
<1> QED BY <1>1, <1>2, <1>3

(* The scan's start and the manual print touch nothing of this.            *)
LEMMA RestKeeps ==
  ASSUME PageInv, StartScan \/ ScanSettles \/ PrintManually \/ PrintEnds \/ UNCHANGED vars
  PROVE  PageInv'
<1> USE DEF PageInv, PageSafe
<1>1. /\ UNCHANGED <<now, autoPrint, lookups, autoTimes, autoAsked>>
      /\ scan' \in {"off", "starting", "on"} /\ printing' \in Cards \cup {None}
  BY DEF StartScan, ScanSettles, PrintManually, PrintEnds, vars, lookups, printer, TypeOK
<1>2. TypeOK'
  BY <1>1 DEF TypeOK, lookups
<1>3. GenerationSafe'
  BY <1>1 DEF lookups, GenerationSafe, Busy
<1>4. TimesRemembered'
  BY <1>1 DEF TimesRemembered
<1> QED BY <1>2, <1>3, <1>4

(* The inductive invariant: the lookup of the current generation is the    *)
(* one for the last tag, and the table forgets no time that still counts.  *)
THEOREM PageIsSafe == Spec => []PageInv
<1>1. PageInv /\ [Next]_vars => PageInv'
  <2> SUFFICES ASSUME PageInv, [Next]_vars PROVE PageInv'
    OBVIOUS
  <2>1. CASE StopScan
    BY <2>1, StopScanKeeps
  <2>2. CASE ReadOther
    BY <2>2, ReadOtherKeeps
  <2>3. CASE \E l \in Lookups : ReadCard(l)
    BY <2>3, ReadCardKeeps
  <2>4. CASE \E l \in Lookups : Settles(l)
    BY <2>4, SettlesKeeps
  <2>5. CASE Tick
    BY <2>5, TickKeeps
  <2>6. CASE StartScan \/ ScanSettles \/ PrintManually \/ PrintEnds \/ UNCHANGED vars
    BY <2>6, RestKeeps
  <2> QED BY <2>1, <2>2, <2>3, <2>4, <2>5, <2>6 DEF Next
<1> QED BY InitSafe, <1>1, PTL DEF Spec

-----------------------------------------------------------------------------
(* "Checking card..." never misleads, however many taps wait.              *)
THEOREM PageLoadingIsTrue == Spec => []LoadingIsTrue
<1>1. PageInv => LoadingIsTrue
  <2> SUFFICES ASSUME PageInv PROVE LoadingIsTrue
    OBVIOUS
  <2> USE DEF PageInv, PageSafe
  <2> DEFINE lookingUp == {l \in Lookups : Busy(l) /\ l \notin aborted /\ card[l] = lastTag}
  <2>1. lookingUp = {l \in Lookups : controller = l}
    BY DEF GenerationSafe
  <2>2. controller \in Lookups \cup {None}
    BY DEF TypeOK
  <2>3. controller # None <=> lookingUp # {}
    BY <2>1, <2>2, PageAssumption
  <2>4. controller # None => lookingUp = {controller}
    BY <2>1, <2>2
  <2> HIDE DEF lookingUp
  <2>5. /\ loading <=> lookingUp # {}
        /\ loading => lookingUp = {controller}
    BY <2>3, <2>4 DEF GenerationSafe
  <2> QED BY <2>5 DEF LoadingIsTrue, lookingUp
<1> QED BY <1>1, PageIsSafe, PTL

(* Only an answer of the current generation shows a card or prints.        *)
LEMMA OnlyFoundShows ==
  ASSUME PageInv, [Next]_vars, NEW c \in Cards,
         (result' = c /\ result # c) \/ autoAsked' # autoAsked
  PROVE  \E l \in Lookups : Found(l) /\ Current(l)
  BY PageAssumption, SMT DEF Next, StartScan, ScanSettles, StopScan, ReadOther, ReadCard,
     Settles, Found, Failed, PrintManually, PrintEnds, Tick, vars, lookups, printer

(* A balance only ever comes up for the tag tapped last.                   *)
THEOREM PageResultIsOfLastTap == Spec => ResultIsOfLastTap
<1> DEFINE Step == \A c \in Cards : result' = c /\ (result # c \/ autoAsked'[c] # autoAsked[c]) =>
                                       lastTag' = c
<1>1. PageInv /\ [Next]_vars => Step
  <2> SUFFICES ASSUME PageInv, [Next]_vars, NEW c \in Cards,
                      result' = c, result # c \/ autoAsked'[c] # autoAsked[c]
               PROVE  lastTag' = c
    OBVIOUS
  <2>1. PICK l \in Lookups : Found(l) /\ Current(l)
    BY OnlyFoundShows
  <2>2. result' = card[l] /\ lastTag' = lastTag
    BY <2>1 DEF Found
  <2>3. card[l] = lastTag
    BY <2>1 DEF Found, Current, PageInv, PageSafe, GenerationSafe
  <2> QED BY <2>2, <2>3
<1>2. PageInv /\ [Next]_vars => [Step]_vars
  BY <1>1
<1> HIDE DEF Step
<1>3. Spec => [][Step]_vars
  BY PageIsSafe, <1>2, PTL DEF Spec
<1> QED BY <1>3 DEF ResultIsOfLastTap, Step

(* Pruning the table neither prints a receipt twice nor withholds one.     *)
THEOREM PageAutoPrintsOnTime == Spec => AutoPrintsOnTime
<1> DEFINE Due(c) == autoPrint /\ (autoAsked[c] = None \/ now >= autoAsked[c] + Cooldown)
           Shows(c) == \E l \in Lookups : Busy(l) /\ card'[l] = None /\ l \notin aborted
                            /\ card[l] = c /\ gen[l] = generation /\ result' = c
           Step == \A c \in Cards : /\ autoAsked'[c] # autoAsked[c] => Due(c)
                                    /\ Shows(c) /\ Due(c) => autoAsked'[c] = now
<1>1. ASSUME PageInv, NEW c \in Cards
      PROVE  Due(c) <=> autoPrint /\ ~Recent(c)
  <2>1. (autoAsked[c] = None \/ now >= autoAsked[c] + Cooldown) <=> ~Recent(c)
    BY <1>1, PageAssumption, SMT
       DEF PageInv, PageSafe, TypeOK, Times, TimesRemembered, Recent
  <2> QED BY <2>1
<1>2. PageInv /\ [Next]_vars => Step
  <2> SUFFICES ASSUME PageInv, [Next]_vars, NEW c \in Cards
               PROVE  /\ autoAsked'[c] # autoAsked[c] => Due(c)
                      /\ Shows(c) /\ Due(c) => autoAsked'[c] = now
    OBVIOUS
  <2>0. autoAsked \in [Cards -> Times \cup {None}]
    BY DEF PageInv, TypeOK
  <2>1. ASSUME autoAsked'[c] # autoAsked[c] PROVE Due(c)
    <3>1. PICK l \in Lookups : Found(l) /\ Current(l)
      BY <2>1, OnlyFoundShows
    <3>2. AutoPrint(card[l])
      BY <3>1 DEF Found
    <3>3. autoPrint /\ ~Recent(card[l]) /\ autoAsked' = [autoAsked EXCEPT ![card[l]] = now]
      BY <3>2, <2>1 DEF AutoPrint
    <3>4. card[l] = c
      BY <3>3, <2>0, <2>1
    <3> QED BY <3>3, <3>4, <1>1
  <2>2. ASSUME Shows(c), Due(c) PROVE autoAsked'[c] = now
    <3>1. PICK l \in Lookups : Busy(l) /\ card'[l] = None /\ l \notin aborted
                               /\ card[l] = c /\ gen[l] = generation /\ result' = c
      BY <2>2
    <3>2. Settles(l)
      <4>1. card' # card
        BY <3>1 DEF Busy
      <4>2. PICK k \in Lookups : ReadCard(k) \/ Settles(k)
        BY <4>1 DEF Next, StartScan, ScanSettles, StopScan, ReadOther, PrintManually, PrintEnds,
           Tick, vars, lookups
      <4>3. k = l
        <5>1. card \in [Lookups -> Cards \cup {None}]
          BY DEF PageInv, TypeOK
        <5>2. \E x : card' = [card EXCEPT ![k] = x]
          BY <4>2 DEF ReadCard, Settles, Found, Failed, Ends, Over
        <5> QED BY <5>1, <5>2, <3>1 DEF Busy
      <4>4. ~ReadCard(l)
        BY <3>1 DEF ReadCard
      <4> QED BY <4>2, <4>3, <4>4
    <3>3. ~Failed(l)
      BY <3>1, PageAssumption DEF Failed, Current
    <3>4. AutoPrint(c)
      BY <3>1, <3>2, <3>3 DEF Settles, Found, Current
    <3>5. autoPrint /\ ~Recent(c)
      BY <2>2, <1>1
    <3> QED BY <3>4, <3>5, <2>0 DEF AutoPrint
  <2> QED BY <2>1, <2>2
<1>3. PageInv /\ [Next]_vars => [Step]_vars
  BY <1>2
<1>4. Step <=> \A c \in Cards :
          LET shows == \E l \in Lookups :
                          Busy(l) /\ card'[l] = None /\ l \notin aborted
                          /\ card[l] = c /\ gen[l] = generation /\ result' = c
              due == autoPrint
                     /\ (autoAsked[c] = None \/ now >= autoAsked[c] + Cooldown)
          IN  /\ autoAsked'[c] # autoAsked[c] => due
              /\ shows /\ due => autoAsked'[c] = now
  OBVIOUS
<1> HIDE DEF Step
<1>5. Spec => [][Step]_vars
  BY PageIsSafe, <1>3, PTL DEF Spec
<1> QED BY <1>5, PTL DEF AutoPrintsOnTime, Step, Due, Shows

=============================================================================
