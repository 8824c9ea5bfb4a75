----------------------------- MODULE LookupPage -----------------------------
(***************************************************************************)
(* static/js/lookup.js: the page on which anybody taps cards, and the one  *)
(* of the counter that prints.  A call l is one run of handleReading that  *)
(* waits for its fetch; taps follow each other faster than answers come.   *)
(* Between two events the script runs to its next await.                   *)
(*                                                                         *)
(* now is Date.now() in a unit that makes Cooldown small.                  *)
(***************************************************************************)
EXTENDS Naturals

CONSTANTS
    Cards,
    Lookups,       \* runs of handleReading that can wait at once
    None,
    Cooldown,      \* the 5000 ms of autoPrintReceipt
    Generations,   \* values of denchiLookupGeneration (see Fresh)
    MaxTime        \* bound on the clock

ASSUME PageAssumption ==
    /\ None \notin Cards \cup Lookups \cup Generations \cup Nat
    /\ Cooldown \in Nat \ {0} /\ MaxTime \in Nat
    /\ \A used \in [Lookups -> Generations] : \E g \in Generations : \A l \in Lookups : used[l] # g

VARIABLES
    now,
    autoPrint,     \* denchiReceiptTerminal?.autoPrint
    scan,          \* off, starting or on (starting, scanning, denchiScanController)
    generation,    \* denchiLookupGeneration
    controller,    \* denchiLookupController: the call it would abort
    card, gen,     \* per run: its card, None when it is over, and its generation
    aborted,       \* the runs whose fetch has been aborted
    loading,
    result,        \* the card whose balance is shown
    uri,           \* currentLnurlwUri, as a card
    printing,      \* the card of the manual print under way
    autoTimes,     \* denchiAutoPrintTimes
    lastTag,       \* observed: the card tapped last, None for another tag or a stop
    autoAsked      \* observed: when a card's receipt was last asked for by itself

vars == <<now, autoPrint, scan, generation, controller, card, gen, aborted, loading, result, uri,
          printing, autoTimes, lastTag, autoAsked>>

Times == 0..MaxTime

TypeOK ==
    /\ now \in Times
    /\ autoPrint \in BOOLEAN
    /\ scan \in {"off", "starting", "on"}
    /\ generation \in Generations
    /\ controller \in Lookups \cup {None}
    /\ card \in [Lookups -> Cards \cup {None}]
    /\ gen \in [Lookups -> Generations \cup {None}]
    /\ aborted \subseteq Lookups
    /\ loading \in BOOLEAN
    /\ result \in Cards \cup {None}
    /\ uri \in Cards \cup {None}
    /\ printing \in Cards \cup {None}
    /\ autoTimes \in [Cards -> Times \cup {None}]
    /\ lastTag \in Cards \cup {None}
    /\ autoAsked \in [Cards -> Times \cup {None}]

Init ==
    /\ now = 0
    /\ autoPrint \in BOOLEAN
    /\ scan = "off"
    /\ generation \in Generations
    /\ controller = None
    /\ card = [l \in Lookups |-> None] /\ gen = card /\ aborted = {}
    /\ loading = FALSE
    /\ result = None /\ uri = None /\ printing = None
    /\ autoTimes = [c \in Cards |-> None]
    /\ lastTag = None
    /\ autoAsked = [c \in Cards |-> None]

lookups == <<generation, controller, card, gen, aborted, loading, result, uri, lastTag>>
printer == <<printing, autoTimes, autoAsked>>

-----------------------------------------------------------------------------
StartScan ==
    /\ scan = "off"
    /\ scan' = "starting"
    /\ UNCHANGED <<now, autoPrint, lookups, printer>>

(* reader.scan() is granted or refused.                                    *)
ScanSettles ==
    /\ scan = "starting"
    /\ scan' \in {"on", "off"}
    /\ UNCHANGED <<now, autoPrint, lookups, printer>>

Busy(l) == card[l] # None

(* The counter is only compared with what waiting calls have kept of it:   *)
(* incrementing it is choosing a value that none of them has.              *)
Fresh == CHOOSE g \in Generations : \A l \in Lookups : Busy(l) => gen[l] # g

(* denchiLookupController.abort(), if there is one.                        *)
Abort == aborted' = IF controller = None THEN aborted ELSE aborted \cup {controller}

StopScan ==
    /\ scan = "on"
    /\ scan' = "off"
    /\ generation' = Fresh
    /\ Abort
    /\ controller' = None
    /\ loading' = FALSE
    /\ lastTag' = None
    /\ UNCHANGED <<now, autoPrint, card, gen, result, uri, printer>>

(* A card is tapped: what was looked up before is given up.                *)
ReadCard(l) ==
    /\ scan = "on" /\ ~Busy(l)
    /\ generation' = Fresh
    /\ Abort
    /\ gen' = [gen EXCEPT ![l] = Fresh]
    /\ \E c \in Cards : card' = [card EXCEPT ![l] = c] /\ lastTag' = c
    /\ controller' = l
    /\ loading' = TRUE
    /\ UNCHANGED <<now, autoPrint, scan, result, uri, printer>>

(* Some other tag is tapped.                                               *)
ReadOther ==
    /\ scan = "on"
    /\ generation' = Fresh
    /\ Abort
    /\ controller' = None
    /\ loading' = FALSE
    /\ result' = None /\ uri' = None
    /\ lastTag' = None
    /\ UNCHANGED <<now, autoPrint, scan, card, gen, printer>>

-----------------------------------------------------------------------------
Recent(c) == autoTimes[c] # None /\ now < autoTimes[c] + Cooldown

(* FAULTY: the other cards' times are forgotten while they still count.    *)
AutoPrintAlone(c) ==
    IF autoPrint /\ ~Recent(c)
      THEN /\ autoTimes' = [d \in Cards |-> IF d = c THEN now ELSE None]
           /\ autoAsked' = [autoAsked EXCEPT ![c] = now]
      ELSE UNCHANGED <<autoTimes, autoAsked>>

(* autoPrintReceipt, and printReceipt up to its fetch, which nobody awaits.*)
AutoPrint(c) ==
    IF autoPrint /\ ~Recent(c)
      THEN /\ autoTimes' = [d \in Cards |-> IF d = c THEN now
                                            ELSE IF Recent(d) THEN autoTimes[d] ELSE None]
           /\ autoAsked' = [autoAsked EXCEPT ![c] = now]
      ELSE UNCHANGED <<autoTimes, autoAsked>>

(* FAULTY: whoever comes, his answer counts.                               *)
AnyCall(l) == TRUE

(* "generation === denchiLookupGeneration".                                *)
Current(l) == gen[l] = generation

(* The run is over.                                                        *)
Over(l) ==
    /\ card' = [card EXCEPT ![l] = None]
    /\ gen' = [gen EXCEPT ![l] = None]
    /\ aborted' = aborted \ {l}

(* FAULTY: the finally clause does not ask whose it is.                    *)
EndsAnyway(l) ==
    /\ Over(l)
    /\ loading' = FALSE /\ controller' = None

(* FAULTY: the finally clause forgets the spinner.                         *)
EndsSpinning(l) ==
    /\ Over(l)
    /\ controller' = IF Current(l) THEN None ELSE controller
    /\ UNCHANGED loading

(* The finally clause of handleReading.                                    *)
Ends(l) ==
    /\ Over(l)
    /\ IF Current(l) THEN loading' = FALSE /\ controller' = None
                     ELSE UNCHANGED <<loading, controller>>

(* The card was found; an aborted fetch never gets here.                   *)
Found(l) ==
    /\ Busy(l) /\ l \notin aborted
    /\ IF Current(l)
         THEN result' = card[l] /\ uri' = card[l] /\ AutoPrint(card[l])
         ELSE UNCHANGED <<result, uri, autoTimes, autoAsked>>
    /\ Ends(l)
    /\ UNCHANGED <<now, autoPrint, scan, generation, printing, lastTag>>

(* The fetch failed, or the card is unknown; an AbortError is ignored.     *)
Failed(l) ==
    /\ Busy(l)
    /\ IF Current(l) /\ l \notin aborted
         THEN result' = None /\ uri' = None
         ELSE UNCHANGED <<result, uri>>
    /\ Ends(l)
    /\ UNCHANGED <<now, autoPrint, scan, generation, printer, lastTag>>

(* Print Receipt is pressed; the button is there while a result is shown.  *)
PrintManually ==
    /\ result # None /\ uri # None /\ printing = None
    /\ printing' = uri
    /\ UNCHANGED <<now, autoPrint, scan, lookups, autoTimes, autoAsked>>

PrintEnds ==
    /\ printing # None
    /\ printing' = None
    /\ UNCHANGED <<now, autoPrint, scan, lookups, autoTimes, autoAsked>>

Tick ==
    /\ now < MaxTime
    /\ now' = now + 1
    /\ UNCHANGED <<autoPrint, scan, lookups, printer>>

Settles(l) == Found(l) \/ Failed(l)

Next ==
    \/ StartScan \/ ScanSettles \/ StopScan \/ ReadOther
    \/ \E l \in Lookups : ReadCard(l) \/ Settles(l)
    \/ PrintManually \/ PrintEnds \/ Tick

Spec == Init /\ [][Next]_vars

(* Every fetch ends, with an answer or an error.                           *)
FairSpec == Spec /\ (\A l \in Lookups : WF_vars(Settles(l))) /\ WF_vars(PrintEnds)

-----------------------------------------------------------------------------
(* "Tapping another card replaces the result": a balance only ever comes   *)
(* up for the tag tapped last, never for one tapped before it or before    *)
(* Stop Scan, in whatever order the answers come.                          *)
ResultIsOfLastTap ==
    [][\A c \in Cards : result' = c /\ (result # c \/ autoAsked'[c] # autoAsked[c]) =>
          lastTag' = c]_vars

(* "Checking card..." is shown exactly while the last tag tapped is being  *)
(* looked up, and that lookup is the one the next tap would abort: a late  *)
(* end of an aborted one does not pass for it.                             *)
LoadingIsTrue ==
    LET lookingUp == {l \in Lookups : Busy(l) /\ l \notin aborted /\ card[l] = lastTag}
    IN  /\ loading <=> lookingUp # {}
        /\ loading => lookingUp = {controller}

(* A card's receipt is not asked for twice within a cooldown, although     *)
(* every receipt prunes the table of all cards; and none is withheld for   *)
(* longer: a card tapped after that gets one.                              *)
AutoPrintsOnTime ==
    [][\A c \in Cards :
          LET shows == \E l \in Lookups :
                          Busy(l) /\ card'[l] = None /\ l \notin aborted
                          /\ card[l] = c /\ gen[l] = generation /\ result' = c
              due == autoPrint
                     /\ (autoAsked[c] = None \/ now >= autoAsked[c] + Cooldown)
          IN  /\ autoAsked'[c] # autoAsked[c] => due
              /\ shows /\ due => autoAsked'[c] = now]_vars

(* A tap is answered, or overtaken by the next one, and a print is over    *)
(* some time: no spinner is left turning.                                  *)
TapsAnswered ==
    /\ \A l \in Lookups : loading /\ controller = l ~> ~loading \/ controller \in Lookups \ {l}
    /\ printing # None ~> printing = None

-----------------------------------------------------------------------------
(* The inductive invariant behind the safety properties.                   *)

(* The one lookup of the current generation is for the last tag, is the    *)
(* one the controller would abort, and is the one the spinner is about;    *)
(* every other has been aborted.                                           *)
GenerationSafe ==
    /\ \A l \in Lookups : Busy(l) /\ gen[l] = generation <=> controller = l
    /\ \A l \in Lookups : l \in aborted <=> Busy(l) /\ gen[l] # generation
    /\ \A l \in Lookups : controller = l => card[l] = lastTag
    /\ loading <=> controller # None

(* The table knows when a card's receipt was last asked for, or has        *)
(* forgotten it since its cooldown is over.                                *)
TimesRemembered ==
    \A c \in Cards :
        /\ autoAsked[c] # None => autoAsked[c] <= now
        /\ \/ autoTimes[c] = autoAsked[c]
           \/ /\ autoTimes[c] = None /\ autoAsked[c] # None
              /\ autoAsked[c] + Cooldown <= now

PageSafe == GenerationSafe /\ TimesRemembered

=============================================================================
