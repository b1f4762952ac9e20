-------------------------- MODULE PageCaptureProofs --------------------------
(***************************************************************************)
(* What is proved about PageCapture, for every set of kinds and responses  *)
(* and every cap.                                                          *)
(***************************************************************************)
EXTENDS PageCapture, TLAPS

-----------------------------------------------------------------------------
(* The inductive invariant *)

\* Steps after the last look at the page.
Judged == { "singlefile", "script_tag", "cli", "content", "screenshot", "warc",
            "cookies" }

\* Past a navigation that worked there is a document in the page, and a failed
\* one is gone on with only if a challenge was seen in it.
PageLoaded ==
  /\ at \in Judged \cup { "read", "read_text", "read_html", "await",
                         "await_after_error", "reread", "reread_text" } => page \in Kinds
  /\ at = "peek_html" /\ "challenge" \in reading => page \in Kinds

\* The outcome is decided as the try block is left, and a result is saved.
OutcomeLast ==
  /\ at \in Inside \cup {"context", "prepare"} => outcome = "none"
  /\ at \in {"close", "save", "ended"} => outcome # "none"
  /\ at = "save" => outcome = "result"

\* What must not be stored.
Block(k) == k \in {"block", "cloudflare"} \/ (k = "wall" /\ frontend)

\* What the text gave away is remembered until it is judged; a page that was
\* judged and has not look since its text was read is no block.
PageJudged ==
  /\ at = "read_html" /\ "block" \notin reading /\ look = "fresh" => ~Block(page)
  /\ at \in Judged /\ look = "fresh" => ~Block(page)

\* The snapshot of a result is there, and is of a page so judged.
SnapshotJudged ==
  (at \in {"screenshot", "warc", "cookies"} \/ outcome = "result") =>
    /\ snapshot # NoSnapshot
    /\ snapshot.from = "page" /\ snapshot.look = "fresh" => ~Block(snapshot.shows)

\* Who still has to remove what: the context, the CLI, the temporary WARC.
ContextOwned ==
  /\ at = "context" => context = "none"
  /\ at \in {"save", "ended"} => context # "open"

CliOwned == cli = "left" => timer = "fired"

FileOwned ==
  file = "tmp" /\ timer = "armed" =>
    \/ at = "cookies"
    \/ at \in {"close", "save", "ended"} /\ outcome = "error"
    \/ at \in {"close", "save"} /\ outcome = "result"

Shown == PageTypeOK /\ PageLoaded
Clean == ContextOwned /\ CliOwned /\ FileOwned

PageInv == Shown /\ OutcomeLast /\ PageJudged /\ SnapshotJudged /\ Clean /\ WarcCapHolds

-----------------------------------------------------------------------------
(* The initial states *)

LEMMA PageInit == Init => PageInv
BY PageAssumption
   DEF Init, PageInv, Shown, Clean, PageTypeOK, PageLoaded, OutcomeLast, PageJudged,
       SnapshotJudged, ContextOwned, CliOwned, FileOwned, WarcCapHolds, Judged,
       Inside, NoSnapshot

-----------------------------------------------------------------------------
(* The steps *)

\* Types, and the document in the page.
LEMMA ShownKept == Shown /\ [Next]_vars => Shown'
<1> SUFFICES ASSUME Shown, [Next]_vars PROVE Shown'
  OBVIOUS
<1> USE DEF Shown, PageTypeOK, PageLoaded, Inside, Judged, NoSnapshot, writer, view
<1>1. CASE NewContext
  BY <1>1 DEF NewContext
<1>2. CASE Prepare
  BY <1>2 DEF Prepare
<1>3. CASE PrepareFails
  BY <1>3 DEF PrepareFails
<1>4. CASE Navigate
  BY <1>4 DEF Navigate
<1>5. CASE NavigateFails
  BY <1>5 DEF NavigateFails
<1>6. CASE PeekTitle
  <2>1. /\ at = "peek"
        /\ \/ at' = "peek_html" /\ reading' = ByTitle
           \/ at' = "peek_text" /\ reading' = reading
    BY <1>6 DEF PeekTitle
  <2>2. UNCHANGED <<firefox, frontend, timer, browser, context, page, status, look>>
    BY <1>6 DEF PeekTitle
  <2>3. UNCHANGED <<snapshot, cli, hook, total, file>>
    BY <1>6 DEF PeekTitle
  <2>4. outcome' = outcome
    BY <1>6 DEF PeekTitle
  <2>5. reading' \subseteq {"challenge", "block"}
    BY <2>1 DEF ByTitle
  <2>6. PageLoaded'
    BY <2>1, <2>2 DEF ByTitle
  <2>7. at' \in {"peek_html", "peek_text"} /\ at = "peek"
    BY <2>1
  <2> QED
    BY <2>2, <2>3, <2>4, <2>5, <2>6, <2>7
<1>7. CASE PeekHtml
  <2>1. at = "peek_html" /\ reading' \in {reading, reading \cup ByHtml}
    BY <1>7 DEF PeekHtml
  <2>2. UNCHANGED <<firefox, frontend, timer, browser, context, page, status, look>>
    BY <1>7 DEF PeekHtml
  <2>3. UNCHANGED <<snapshot, cli, hook, total, file>>
    BY <1>7 DEF PeekHtml
  <2>4. outcome' = outcome
        /\ at' = IF "challenge" \in reading' THEN "await_after_error" ELSE "peek_text"
    BY <1>7 DEF PeekHtml
  <2> QED
    BY <2>1, <2>2, <2>3, <2>4 DEF ByHtml
<1>8. CASE PeekText
  <2>1. at = "peek_text" /\ reading' \in {reading, reading \cup ByText}
    BY <1>8 DEF PeekText
  <2>2. UNCHANGED <<firefox, frontend, timer, browser, context, page, status, look>>
    BY <1>8 DEF PeekText
  <2>3. UNCHANGED <<snapshot, cli, hook, total, file>>
    BY <1>8 DEF PeekText
  <2>4. at' = "close" /\ outcome' \in {"antibot", "error"}
    BY <1>8 DEF PeekText, Unwind
  <2> QED
    BY <2>1, <2>2, <2>3, <2>4 DEF ByText
<1>9. CASE ReadTitle
  BY <1>9 DEF ReadTitle, ByStatus, ByTitle
<1>10. CASE ReadText
  BY <1>10 DEF ReadText, ByText
<1>11. CASE ReadHtml
  BY <1>11 DEF ReadHtml, ByHtml, Judge, Unwind
<1>12. CASE Cleared
  BY <1>12 DEF Cleared
<1>13. CASE NotCleared
  BY <1>13 DEF NotCleared, Unwind
<1>14. CASE RereadTitle
  BY <1>14 DEF RereadTitle, ByTitle
<1>15. CASE RereadText
  BY <1>15 DEF RereadText, ByText, Judge, Unwind
<1>16. CASE SingleFile
  BY <1>16 DEF SingleFile, Taken
<1>17. CASE SingleFileFails
  BY <1>17 DEF SingleFileFails, Unwind
<1>18. CASE ScriptTagFails
  BY <1>18 DEF ScriptTagFails
<1>19. CASE CliAnswers
  BY <1>19 DEF CliAnswers, Taken
<1>20. CASE CliFails
  BY <1>20 DEF CliFails
<1>21. CASE PageContent
  BY <1>21 DEF PageContent, Taken, Unwind
<1>22. CASE Screenshot
  BY <1>22 DEF Screenshot
<1>23. CASE WriteWarc
  BY <1>23 DEF WriteWarc
<1>24. CASE Cookies
  BY <1>24 DEF Cookies, Unwind
<1>25. CASE BlockFails
  BY <1>25 DEF BlockFails, Unwind
<1>26. CASE Close
  BY <1>26 DEF Close
<1>27. CASE CloseGivesUp
  BY <1>27 DEF CloseGivesUp
<1>28. CASE Cut
  BY <1>28 DEF Cut
<1>29. CASE Save
  BY <1>29 DEF Save
<1>30. CASE SaveFails
  BY <1>30 DEF SaveFails
<1>31. CASE PageMoves
  BY <1>31 DEF PageMoves
<1>32. CASE BrowserDies
  <2>1. browser' = FALSE /\ UNCHANGED <<firefox, frontend, at, timer, context>>
    BY <1>32 DEF BrowserDies
  <2>2. UNCHANGED <<page, status, reading, look, snapshot, cli, hook, total, file, outcome>>
    BY <1>32 DEF BrowserDies
  <2>3. browser' \in BOOLEAN
    BY <2>1, Zenon
  <2>4. UNCHANGED <<firefox, frontend, at, timer, context>>
    BY <2>1
  <2> QED
    BY <2>2, <2>3, <2>4
<1>33. ASSUME NEW r \in Responses, ResponseArrives(r) PROVE Shown'
  BY <1>33 DEF ResponseArrives, Accepts
<1>34. ASSUME NEW r \in Responses, AddExchange(r) PROVE Shown'
  BY <1>34 DEF AddExchange, Accepts
<1>35. ASSUME NEW r \in Responses, ResponseLost(r) PROVE Shown'
  BY <1>35 DEF ResponseLost
<1>36. CASE UNCHANGED vars
  BY <1>36 DEF vars
<1> QED
  BY <1>1, <1>2, <1>3, <1>4, <1>5, <1>6, <1>7, <1>8, <1>9, <1>10, <1>11,
     <1>12, <1>13, <1>14, <1>15, <1>16, <1>17, <1>18, <1>19, <1>20, <1>21,
     <1>22, <1>23, <1>24, <1>25, <1>26, <1>27, <1>28, <1>29, <1>30, <1>31,
     <1>32, <1>33, <1>34, <1>35, <1>36
     DEF Next, Ended

\* When the outcome is decided.
LEMMA OutcomeKept == OutcomeLast /\ [Next]_vars => OutcomeLast'
<1> SUFFICES ASSUME OutcomeLast, [Next]_vars PROVE OutcomeLast'
  OBVIOUS
<1> USE DEF OutcomeLast, Inside, writer, view
<1>1. CASE NewContext
  BY <1>1 DEF NewContext
<1>2. CASE Prepare
  BY <1>2 DEF Prepare
<1>3. CASE PrepareFails
  BY <1>3 DEF PrepareFails
<1>4. CASE Navigate
  BY <1>4 DEF Navigate
<1>5. CASE NavigateFails
  BY <1>5 DEF NavigateFails
<1>6. CASE PeekTitle
  BY <1>6 DEF PeekTitle, ByTitle
<1>7. CASE PeekHtml
  BY <1>7 DEF PeekHtml, ByHtml
<1>8. CASE PeekText
  BY <1>8 DEF PeekText, ByText, Unwind
<1>9. CASE ReadTitle
  BY <1>9 DEF ReadTitle, ByStatus, ByTitle
<1>10. CASE ReadText
  BY <1>10 DEF ReadText, ByText
<1>11. CASE ReadHtml
  BY <1>11 DEF ReadHtml, ByHtml, Judge, Unwind
<1>12. CASE Cleared
  BY <1>12 DEF Cleared
<1>13. CASE NotCleared
  BY <1>13 DEF NotCleared, Unwind
<1>14. CASE RereadTitle
  BY <1>14 DEF RereadTitle, ByTitle
<1>15. CASE RereadText
  BY <1>15 DEF RereadText, ByText, Judge, Unwind
<1>16. CASE SingleFile
  BY <1>16 DEF SingleFile, Taken
<1>17. CASE SingleFileFails
  BY <1>17 DEF SingleFileFails, Unwind
<1>18. CASE ScriptTagFails
  BY <1>18 DEF ScriptTagFails
<1>19. CASE CliAnswers
  BY <1>19 DEF CliAnswers, Taken
<1>20. CASE CliFails
  BY <1>20 DEF CliFails
<1>21. CASE PageContent
  BY <1>21 DEF PageContent, Taken, Unwind
<1>22. CASE Screenshot
  BY <1>22 DEF Screenshot
<1>23. CASE WriteWarc
  BY <1>23 DEF WriteWarc
<1>24. CASE Cookies
  BY <1>24 DEF Cookies, Unwind
<1>25. CASE BlockFails
  BY <1>25 DEF BlockFails, Unwind
<1>26. CASE Close
  BY <1>26 DEF Close
<1>27. CASE CloseGivesUp
  BY <1>27 DEF CloseGivesUp
<1>28. CASE Cut
  BY <1>28 DEF Cut
<1>29. CASE Save
  BY <1>29 DEF Save
<1>30. CASE SaveFails
  BY <1>30 DEF SaveFails
<1>31. CASE PageMoves
  BY <1>31 DEF PageMoves
<1>32. CASE BrowserDies
  BY <1>32 DEF BrowserDies
<1>33. ASSUME NEW r \in Responses, ResponseArrives(r) PROVE OutcomeLast'
  BY <1>33 DEF ResponseArrives, Accepts
<1>34. ASSUME NEW r \in Responses, AddExchange(r) PROVE OutcomeLast'
  BY <1>34 DEF AddExchange, Accepts
<1>35. ASSUME NEW r \in Responses, ResponseLost(r) PROVE OutcomeLast'
  BY <1>35 DEF ResponseLost
<1>36. CASE UNCHANGED vars
  BY <1>36 DEF vars
<1> QED
  BY <1>1, <1>2, <1>3, <1>4, <1>5, <1>6, <1>7, <1>8, <1>9, <1>10, <1>11,
     <1>12, <1>13, <1>14, <1>15, <1>16, <1>17, <1>18, <1>19, <1>20, <1>21,
     <1>22, <1>23, <1>24, <1>25, <1>26, <1>27, <1>28, <1>29, <1>30, <1>31,
     <1>32, <1>33, <1>34, <1>35, <1>36
     DEF Next, Ended

\* What was read of the page says what the page is.
LEMMA JudgedKept == Shown /\ PageJudged /\ [Next]_vars => PageJudged'
<1> SUFFICES ASSUME Shown /\ PageJudged, [Next]_vars PROVE PageJudged'
  OBVIOUS
<1> USE DEF Shown, PageTypeOK, PageJudged, Block, Judged, Inside, writer, view
<1>1. CASE NewContext
  BY <1>1 DEF NewContext
<1>2. CASE Prepare
  BY <1>2 DEF Prepare
<1>3. CASE PrepareFails
  BY <1>3 DEF PrepareFails
<1>4. CASE Navigate
  BY <1>4 DEF Navigate
<1>5. CASE NavigateFails
  BY <1>5 DEF NavigateFails
<1>6. CASE PeekTitle
  BY <1>6 DEF PeekTitle, ByTitle
<1>7. CASE PeekHtml
  BY <1>7 DEF PeekHtml, ByHtml
<1>8. CASE PeekText
  BY <1>8 DEF PeekText, ByText, Unwind
<1>9. CASE ReadTitle
  BY <1>9 DEF ReadTitle, ByStatus, ByTitle
<1>10. CASE ReadText
  BY <1>10 DEF ReadText, ByText
<1>11. CASE ReadHtml
  BY <1>11 DEF ReadHtml, ByHtml, Judge, Unwind
<1>12. CASE Cleared
  BY <1>12 DEF Cleared
<1>13. CASE NotCleared
  BY <1>13 DEF NotCleared, Unwind
<1>14. CASE RereadTitle
  BY <1>14 DEF RereadTitle, ByTitle
<1>15. CASE RereadText
  BY <1>15 DEF RereadText, ByText, Judge, Unwind
<1>16. CASE SingleFile
  BY <1>16 DEF SingleFile, Taken
<1>17. CASE SingleFileFails
  BY <1>17 DEF SingleFileFails, Unwind
<1>18. CASE ScriptTagFails
  BY <1>18 DEF ScriptTagFails
<1>19. CASE CliAnswers
  BY <1>19 DEF CliAnswers, Taken
<1>20. CASE CliFails
  BY <1>20 DEF CliFails
<1>21. CASE PageContent
  BY <1>21 DEF PageContent, Taken, Unwind
<1>22. CASE Screenshot
  BY <1>22 DEF Screenshot
<1>23. CASE WriteWarc
  BY <1>23 DEF WriteWarc
<1>24. CASE Cookies
  BY <1>24 DEF Cookies, Unwind
<1>25. CASE BlockFails
  BY <1>25 DEF BlockFails, Unwind
<1>26. CASE Close
  BY <1>26 DEF Close
<1>27. CASE CloseGivesUp
  BY <1>27 DEF CloseGivesUp
<1>28. CASE Cut
  BY <1>28 DEF Cut
<1>29. CASE Save
  BY <1>29 DEF Save
<1>30. CASE SaveFails
  BY <1>30 DEF SaveFails
<1>31. CASE PageMoves
  BY <1>31 DEF PageMoves
<1>32. CASE BrowserDies
  BY <1>32 DEF BrowserDies
<1>33. ASSUME NEW r \in Responses, ResponseArrives(r) PROVE PageJudged'
  BY <1>33 DEF ResponseArrives, Accepts
<1>34. ASSUME NEW r \in Responses, AddExchange(r) PROVE PageJudged'
  BY <1>34 DEF AddExchange, Accepts
<1>35. ASSUME NEW r \in Responses, ResponseLost(r) PROVE PageJudged'
  BY <1>35 DEF ResponseLost
<1>36. CASE UNCHANGED vars
  BY <1>36 DEF vars
<1> QED
  BY <1>1, <1>2, <1>3, <1>4, <1>5, <1>6, <1>7, <1>8, <1>9, <1>10, <1>11,
     <1>12, <1>13, <1>14, <1>15, <1>16, <1>17, <1>18, <1>19, <1>20, <1>21,
     <1>22, <1>23, <1>24, <1>25, <1>26, <1>27, <1>28, <1>29, <1>30, <1>31,
     <1>32, <1>33, <1>34, <1>35, <1>36
     DEF Next, Ended

\* What was read of the page says what the snapshot is.
LEMMA SnapshotKept ==
  Shown /\ OutcomeLast /\ PageJudged /\ SnapshotJudged /\ [Next]_vars => SnapshotJudged'
<1> SUFFICES ASSUME Shown /\ OutcomeLast /\ PageJudged /\ SnapshotJudged, [Next]_vars PROVE SnapshotJudged'
  OBVIOUS
<1> USE DEF Shown, PageTypeOK, OutcomeLast, PageJudged, SnapshotJudged, Block, Judged, Inside,
           NoSnapshot, writer, view
<1>1. CASE NewContext
  BY <1>1 DEF NewContext
<1>2. CASE Prepare
  BY <1>2 DEF Prepare
<1>3. CASE PrepareFails
  BY <1>3 DEF PrepareFails
<1>4. CASE Navigate
  BY <1>4 DEF Navigate
<1>5. CASE NavigateFails
  BY <1>5 DEF NavigateFails
<1>6. CASE PeekTitle
  BY <1>6 DEF PeekTitle, ByTitle
<1>7. CASE PeekHtml
  BY <1>7 DEF PeekHtml, ByHtml
<1>8. CASE PeekText
  BY <1>8 DEF PeekText, ByText, Unwind
<1>9. CASE ReadTitle
  BY <1>9 DEF ReadTitle, ByStatus, ByTitle
<1>10. CASE ReadText
  BY <1>10 DEF ReadText, ByText
<1>11. CASE ReadHtml
  BY <1>11 DEF ReadHtml, ByHtml, Judge, Unwind
<1>12. CASE Cleared
  BY <1>12 DEF Cleared
<1>13. CASE NotCleared
  BY <1>13 DEF NotCleared, Unwind
<1>14. CASE RereadTitle
  BY <1>14 DEF RereadTitle, ByTitle
<1>15. CASE RereadText
  BY <1>15 DEF RereadText, ByText, Judge, Unwind
<1>16. CASE SingleFile
  BY <1>16 DEF SingleFile, Taken
<1>17. CASE SingleFileFails
  BY <1>17 DEF SingleFileFails, Unwind
<1>18. CASE ScriptTagFails
  BY <1>18 DEF ScriptTagFails
<1>19. CASE CliAnswers
  BY <1>19 DEF CliAnswers, Taken
<1>20. CASE CliFails
  BY <1>20 DEF CliFails
<1>21. CASE PageContent
  BY <1>21 DEF PageContent, Taken, Unwind
<1>22. CASE Screenshot
  BY <1>22 DEF Screenshot
<1>23. CASE WriteWarc
  BY <1>23 DEF WriteWarc
<1>24. CASE Cookies
  BY <1>24 DEF Cookies, Unwind
<1>25. CASE BlockFails
  BY <1>25 DEF BlockFails, Unwind
<1>26. CASE Close
  BY <1>26 DEF Close
<1>27. CASE CloseGivesUp
  BY <1>27 DEF CloseGivesUp
<1>28. CASE Cut
  BY <1>28 DEF Cut
<1>29. CASE Save
  BY <1>29 DEF Save
<1>30. CASE SaveFails
  BY <1>30 DEF SaveFails
<1>31. CASE PageMoves
  BY <1>31 DEF PageMoves
<1>32. CASE BrowserDies
  BY <1>32 DEF BrowserDies
<1>33. ASSUME NEW r \in Responses, ResponseArrives(r) PROVE SnapshotJudged'
  BY <1>33 DEF ResponseArrives, Accepts
<1>34. ASSUME NEW r \in Responses, AddExchange(r) PROVE SnapshotJudged'
  BY <1>34 DEF AddExchange, Accepts
<1>35. ASSUME NEW r \in Responses, ResponseLost(r) PROVE SnapshotJudged'
  BY <1>35 DEF ResponseLost
<1>36. CASE UNCHANGED vars
  BY <1>36 DEF vars
<1> QED
  BY <1>1, <1>2, <1>3, <1>4, <1>5, <1>6, <1>7, <1>8, <1>9, <1>10, <1>11,
     <1>12, <1>13, <1>14, <1>15, <1>16, <1>17, <1>18, <1>19, <1>20, <1>21,
     <1>22, <1>23, <1>24, <1>25, <1>26, <1>27, <1>28, <1>29, <1>30, <1>31,
     <1>32, <1>33, <1>34, <1>35, <1>36
     DEF Next, Ended

\* What has to be removed has somebody to remove it.
LEMMA CleanKept == Shown /\ OutcomeLast /\ Clean /\ [Next]_vars => Clean'
<1> SUFFICES ASSUME Shown /\ OutcomeLast /\ Clean, [Next]_vars PROVE Clean'
  OBVIOUS
<1> USE DEF Shown, PageTypeOK, OutcomeLast, Clean, ContextOwned, CliOwned, FileOwned, Inside, writer, view
<1>1. CASE NewContext
  BY <1>1 DEF NewContext
<1>2. CASE Prepare
  BY <1>2 DEF Prepare
<1>3. CASE PrepareFails
  BY <1>3 DEF PrepareFails
<1>4. CASE Navigate
  BY <1>4 DEF Navigate
<1>5. CASE NavigateFails
  BY <1>5 DEF NavigateFails
<1>6. CASE PeekTitle
  BY <1>6 DEF PeekTitle, ByTitle
<1>7. CASE PeekHtml
  BY <1>7 DEF PeekHtml, ByHtml
<1>8. CASE PeekText
  BY <1>8 DEF PeekText, ByText, Unwind
<1>9. CASE ReadTitle
  BY <1>9 DEF ReadTitle, ByStatus, ByTitle
<1>10. CASE ReadText
  BY <1>10 DEF ReadText, ByText
<1>11. CASE ReadHtml
  BY <1>11 DEF ReadHtml, ByHtml, Judge, Unwind
<1>12. CASE Cleared
  BY <1>12 DEF Cleared
<1>13. CASE NotCleared
  BY <1>13 DEF NotCleared, Unwind
<1>14. CASE RereadTitle
  BY <1>14 DEF RereadTitle, ByTitle
<1>15. CASE RereadText
  BY <1>15 DEF RereadText, ByText, Judge, Unwind
<1>16. CASE SingleFile
  BY <1>16 DEF SingleFile, Taken
<1>17. CASE SingleFileFails
  BY <1>17 DEF SingleFileFails, Unwind
<1>18. CASE ScriptTagFails
  BY <1>18 DEF ScriptTagFails
<1>19. CASE CliAnswers
  BY <1>19 DEF CliAnswers, Taken
<1>20. CASE CliFails
  BY <1>20 DEF CliFails
<1>21. CASE PageContent
  BY <1>21 DEF PageContent, Taken, Unwind
<1>22. CASE Screenshot
  BY <1>22 DEF Screenshot
<1>23. CASE WriteWarc
  BY <1>23 DEF WriteWarc
<1>24. CASE Cookies
  BY <1>24 DEF Cookies, Unwind
<1>25. CASE BlockFails
  BY <1>25 DEF BlockFails, Unwind
<1>26. CASE Close
  BY <1>26 DEF Close
<1>27. CASE CloseGivesUp
  BY <1>27 DEF CloseGivesUp
<1>28. CASE Cut
  BY <1>28 DEF Cut
<1>29. CASE Save
  BY <1>29 DEF Save
<1>30. CASE SaveFails
  BY <1>30 DEF SaveFails
<1>31. CASE PageMoves
  BY <1>31 DEF PageMoves
<1>32. CASE BrowserDies
  BY <1>32 DEF BrowserDies
<1>33. ASSUME NEW r \in Responses, ResponseArrives(r) PROVE Clean'
  BY <1>33 DEF ResponseArrives, Accepts
<1>34. ASSUME NEW r \in Responses, AddExchange(r) PROVE Clean'
  BY <1>34 DEF AddExchange, Accepts
<1>35. ASSUME NEW r \in Responses, ResponseLost(r) PROVE Clean'
  BY <1>35 DEF ResponseLost
<1>36. CASE UNCHANGED vars
  BY <1>36 DEF vars
<1> QED
  BY <1>1, <1>2, <1>3, <1>4, <1>5, <1>6, <1>7, <1>8, <1>9, <1>10, <1>11,
     <1>12, <1>13, <1>14, <1>15, <1>16, <1>17, <1>18, <1>19, <1>20, <1>21,
     <1>22, <1>23, <1>24, <1>25, <1>26, <1>27, <1>28, <1>29, <1>30, <1>31,
     <1>32, <1>33, <1>34, <1>35, <1>36
     DEF Next, Ended

\* Each body that was let in is held against the cap again when it is counted.
LEMMA CapKept == PageTypeOK /\ WarcCapHolds /\ [Next]_vars => WarcCapHolds'
<1> SUFFICES ASSUME PageTypeOK, WarcCapHolds, [Next]_vars PROVE WarcCapHolds'
  OBVIOUS
<1>1. ASSUME NEW r \in Responses, AddExchange(r) PROVE WarcCapHolds'
  BY <1>1, PageAssumption DEF AddExchange, Accepts, WarcCapHolds, PageTypeOK
<1>2. CASE UNCHANGED total
  BY <1>2 DEF WarcCapHolds
<1>3. \/ UNCHANGED total
      \/ \E r \in Responses : AddExchange(r)
  BY DEF Next, vars, writer, view, Ended, NewContext, Prepare, PrepareFails, Navigate,
         NavigateFails, PeekTitle, PeekHtml, PeekText, ReadTitle, ReadText, ReadHtml,
         Cleared, NotCleared, RereadTitle, RereadText, SingleFile,
         SingleFileFails, ScriptTagFails, CliAnswers, CliFails, PageContent,
         Screenshot, WriteWarc, Cookies, BlockFails, Close, CloseGivesUp, Cut, Save,
         SaveFails, ResponseArrives, ResponseLost, PageMoves, BrowserDies
<1> QED
  BY <1>1, <1>2, <1>3

LEMMA PageNext == PageInv /\ [Next]_vars => PageInv'
<1> SUFFICES ASSUME PageInv, [Next]_vars PROVE PageInv'
  OBVIOUS
<1>1. Shown' /\ OutcomeLast'
  BY ShownKept, OutcomeKept DEF PageInv
<1>2. PageJudged' /\ SnapshotJudged'
  BY JudgedKept, SnapshotKept DEF PageInv
<1>3. Clean' /\ WarcCapHolds'
  BY CleanKept, CapKept DEF PageInv, Shown
<1> QED
  BY <1>1, <1>2, <1>3 DEF PageInv

-----------------------------------------------------------------------------
(* Theorems *)

\* The strengthened invariant holds of every capture.
THEOREM PageSafe == Spec => []PageInv
BY PageInit, PageNext, PTL DEF Spec

\* The variables keep their types.
THEOREM PageTypes == Spec => []PageTypeOK
<1>1. PageInv => PageTypeOK
  BY DEF PageInv, Shown
<1> QED
  BY <1>1, PageSafe, PTL

\* Whatever the page turns into and whenever, what is stored from it is no block,
\* login wall or known challenge unless it became one after its text was last read
\* (capture.py:369-473).
THEOREM BlocksAreNotStored == Spec => []NoBlockStored
<1>1. PageInv => NoBlockStored
  BY DEF PageInv, SnapshotJudged, NoBlockStored, Block
<1> QED
  BY <1>1, PageSafe, PTL

\* Only the timer, or a context that does not close, leaves anything behind
\* (capture.py:321, 656-660).
THEOREM CapturesAreClean == Spec => []CleanUnlessCut
<1>1. PageInv => CleanUnlessCut
  BY DEF PageInv, Shown, PageTypeOK, Clean, ContextOwned, CliOwned, FileOwned,
         CleanUnlessCut
<1> QED
  BY <1>1, PageSafe, PTL

\* However many responses are read at once, the bodies stay under the cap
\* (capture.py:330-334, warc_writer.py:60-106).
THEOREM CapHolds == Spec => []WarcCapHolds
<1>1. PageInv => WarcCapHolds
  BY DEF PageInv
<1> QED
  BY <1>1, PageSafe, PTL
=============================================================================
