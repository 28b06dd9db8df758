----------------------------- MODULE GlobalSearch ----------------------------
(***************************************************************************)
(* The search dialog of the header (features/global-search): its reducer,  *)
(* the debounced query, the cached results per scope and query, and the    *)
(* highlighted result that the keyboard moves and opens, while the user    *)
(* goes from one workspace to another.                                     *)
(***************************************************************************)
EXTENDS Naturals, Sequences, Functions, Ranking

CONSTANTS
    MaxAnswers   \* bound: searches that are answered

ASSUME GlobalSearchAssumption == MaxAnswers \in Nat

VARIABLES
    current,     \* the workspace the header is shown in, 0 outside one
    search,      \* globalSearchReducer's state
    debounced,   \* the query that is searched for
    found,       \* the cached results
    searching,   \* the query under way, of the observed key
    answers

searchVars == <<current, search, debounced, found, searching, answers>>

Places == {1, 2}
resultTypes == <<"company", "contact", "deal">>

\* Query 0 stands for the texts of fewer than two characters, none included.
Texts == 0..2
Results == [type : {"company", "deal"}, organization : Places, of : Texts \ {0}]

\* globalSearchKeys.query: organization 0 is 'all'.
SearchKeys == (Places \cup {0}) \X (Texts \ {0})
NoResults == [known |-> FALSE, results |-> << >>]

initialGlobalSearchState == [open |-> FALSE, query |-> 0, activeIndex |-> 1,
                             searchAllWorkspaces |-> FALSE]

GlobalSearchTypeOK ==
    /\ current \in Places \cup {0}
    /\ search \in [open : BOOLEAN, query : Texts, activeIndex : 1..2,
                   searchAllWorkspaces : BOOLEAN]
    /\ debounced \in Texts
    /\ DOMAIN found = SearchKeys
    /\ \A k \in SearchKeys : /\ found[k].known \in BOOLEAN
                        /\ found[k].results \in Seq(Results)
                        /\ Len(found[k].results) <= 2
    /\ searching \in SearchKeys \cup {<<0, 0>>}
    /\ answers \in 0..MaxAnswers

GlobalSearchInit ==
    /\ current = 1
    /\ search = initialGlobalSearchState
    /\ debounced = 0
    /\ found = [k \in SearchKeys |-> NoResults]
    /\ searching = <<0, 0>>
    /\ answers = 0

-----------------------------------------------------------------------------
\* Mutant: the organization is not part of the key.
globalSearchKey_Query(at, s, text) == <<0, text>>

globalSearchKey(at, s, text) ==
    <<IF at # 0 /\ ~s.searchAllWorkspaces THEN at ELSE 0, text>>

scope == IF current # 0 /\ ~search.searchAllWorkspaces THEN current ELSE 0
key == globalSearchKey(current, search, debounced)
results == IF debounced = 0 THEN << >> ELSE found[key].results

\* The groups in the order of their types, each in the order of the answer.
group(r) == CHOOSE n \in DOMAIN resultTypes : resultTypes[n] = r.type
groupedBefore(list, i, j) ==
    \/ group(list[i]) < group(list[j])
    \/ group(list[i]) = group(list[j]) /\ i < j
groupGlobalSearchResults(list) ==
    LET grouped == {i \in DOMAIN list : list[i].type \in Range(resultTypes)}
    IN  Picked(list, grouped, {p \in grouped \X grouped : groupedBefore(list, p[1], p[2])})
displayedResults == groupGlobalSearchResults(results)

\* The list is on the screen, and not the hint, the spinner or the error.
GlobalSearchResultList == search.open /\ search.query # 0 /\ displayedResults # << >>

\* The observer follows the key: a query that is under way for another is
\* aborted.
Observing(at, s, text) ==
    /\ current' = at /\ search' = s /\ debounced' = text
    /\ searching' = IF searching = globalSearchKey(at, s, text) THEN searching ELSE <<0, 0>>

closeSearch == Observing(current, initialGlobalSearchState, debounced)

-----------------------------------------------------------------------------
\* The button, or Ctrl-K anywhere.
openSearch ==
    /\ Observing(current, [search EXCEPT !.open = TRUE, !.searchAllWorkspaces = FALSE], debounced)
    /\ UNCHANGED <<found, answers>>

CloseSearch ==
    /\ search.open
    /\ closeSearch
    /\ UNCHANGED <<found, answers>>

queryChanged(text) ==
    /\ search.open
    /\ Observing(current, [search EXCEPT !.query = text, !.activeIndex = 1], debounced)
    /\ UNCHANGED <<found, answers>>

scopeChanged(all) ==
    /\ search.open /\ current # 0
    /\ Observing(current, [search EXCEPT !.searchAllWorkspaces = all, !.activeIndex = 1],
                 debounced)
    /\ UNCHANGED <<found, answers>>

DebounceEnds ==
    /\ debounced # search.query
    /\ Observing(current, search, search.query)
    /\ UNCHANGED <<found, answers>>

\* A query that is not cached, or whose results are 30 seconds old.
useGlobalSearch ==
    /\ debounced # 0 /\ searching = <<0, 0>> /\ answers < MaxAnswers
    /\ searching' = key
    /\ UNCHANGED <<current, search, debounced, found, answers>>

\* GlobalSearchAPIView: of the organization asked for, or of all.
SearchAnswered ==
    /\ searching # <<0, 0>>
    /\ LET matching == {r \in Results : r.of = searching[2] /\ scope \in {0, r.organization}}
       IN \E list \in {<< >>} \cup {<<a>> : a \in matching}
                       \cup {<<p[1], p[2]>> : p \in {q \in matching \X matching : q[1] # q[2]}} :
             found' = [found EXCEPT ![searching] = [known |-> TRUE, results |-> list]]
    /\ searching' = <<0, 0>>
    /\ answers' = answers + 1
    /\ UNCHANGED <<current, search, debounced>>

SearchFails ==
    /\ searching # <<0, 0>>
    /\ searching' = <<0, 0>>
    /\ answers' = answers + 1
    /\ UNCHANGED <<current, search, debounced, found>>

-----------------------------------------------------------------------------
\* The arrows, and the pointer over a result.
activeIndexChanged(i) ==
    /\ search.open
    /\ displayedResults # << >> /\ i \in DOMAIN displayedResults
    /\ \/ i = (search.activeIndex % Len(displayedResults)) + 1
       \/ i = ((search.activeIndex + Len(displayedResults) - 2) % Len(displayedResults)) + 1
       \/ GlobalSearchResultList
    /\ search' = [search EXCEPT !.activeIndex = i]
    /\ UNCHANGED <<current, debounced, found, searching, answers>>

selectResult(r) ==
    /\ Observing(r.organization, initialGlobalSearchState, debounced)
    /\ UNCHANGED <<found, answers>>

\* handleKeyDown: the highlighted result, or the first.
Enter ==
    /\ search.open /\ displayedResults # << >>
    /\ selectResult(displayedResults[IF search.activeIndex <= Len(displayedResults)
                                     THEN search.activeIndex ELSE 1])

Click(i) ==
    /\ GlobalSearchResultList /\ i \in DOMAIN displayedResults
    /\ selectResult(displayedResults[i])

\* Another page of the header's layout.
GoTo(place) ==
    /\ place # current
    /\ Observing(place, search, debounced)
    /\ UNCHANGED <<found, answers>>

GlobalSearchNext ==
    \/ openSearch \/ CloseSearch \/ DebounceEnds
    \/ \E text \in Texts : queryChanged(text)
    \/ \E all \in BOOLEAN : scopeChanged(all)
    \/ useGlobalSearch \/ SearchAnswered \/ SearchFails
    \/ \E i \in 1..2 : activeIndexChanged(i) \/ Click(i)
    \/ Enter
    \/ \E place \in Places \cup {0} : GoTo(place)

GlobalSearchSpec == GlobalSearchInit /\ [][GlobalSearchNext]_searchVars

-----------------------------------------------------------------------------
\* What is listed belongs to the scope and the query that are set by now, not
\* to another workspace whose results are cached or arrive late.
ResultsAreOfTheirScope ==
    \A i \in DOMAIN displayedResults :
        /\ scope \in {0, displayedResults[i].organization}
        /\ displayedResults[i].of = debounced
=============================================================================
