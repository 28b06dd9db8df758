------------------------------ MODULE DealBoard ------------------------------
(***************************************************************************)
(* The deal board: DealsPage with its lanes, cards and menus,              *)
(* useDealBoardController, the optimistic useMoveDeal, and the endpoints   *)
(* behind it (deals/views.py, deals/services.py).                          *)
(*                                                                         *)
(* A list is what the query cache holds for one set of filters: cards with *)
(* their deal, stage and sort_order.  Deals are numbered in the order of   *)
(* created_at.                                                             *)
(***************************************************************************)
EXTENDS Integers, Sequences, Functions, FiniteSetsExt, Ranking

CONSTANTS
    NDeals,    \* the deals 1..NDeals
    Stages,    \* the stages in use
    Reasoned,  \* deals with a lost_reason
    Mine,      \* deals assigned to the user
    Views,     \* the views the user opens
    Moves      \* bound: drops of a card and archive or restore requests

ASSUME DealAssumption ==
    /\ NDeals \in Nat /\ Mine \subseteq 1..NDeals /\ Reasoned \subseteq 1..NDeals
    /\ {"lead", "lost"} \subseteq Stages
    /\ "active" \in Views /\ Views \subseteq {"active", "mine", "archived"}

VARIABLES
    rows,       \* the deals in the database
    list,       \* the cached list of each view, NoList before the first answer
    fetching,   \* what the request for the view's list is at
    outdated,   \* isInvalidated of each list
    view,       \* the view of the page, away when it is not open
    dragged,    \* the card under the pointer, 0 without
    overlay,    \* the menu, dialog or drawer that is open, and its deal
    moves,      \* the mutations
    latest      \* the pending move that the page's hook observes

boardVars == <<rows, list, fetching, outdated, view, dragged, overlay, moves, latest>>
boardScreen == <<view, dragged, overlay, latest>>
cache == <<list, fetching, outdated>>

Deals == 1..NDeals
Row == [stage : Stages, order : 0..(NDeals - 1), archived : BOOLEAN]
Lists == Seq([deal : Deals \cup {0}, stage : Stages, order : Nat])
NoList == <<[deal |-> 0, stage |-> "lead", order |-> 0]>>   \* before the first answer
On(l) == {l[i].deal : i \in DOMAIN l}
NotFetching == [at |-> "no"]
ListAsked == [at |-> "asked"]
Nothing == [kind |-> "none", deal |-> 0]

\* The endpoint's filters.
Selected(v, r) ==
    {d \in Deals : IF v = "archived" THEN r[d].archived
                   ELSE ~r[d].archived /\ (v = "mine" => d \in Mine)}

\* By sort_order: the database breaks ties by created_at, a stable sort of the
\* list by the place in it.
Before(r, a, b) == r[a].order < r[b].order \/ (r[a].order = r[b].order /\ a < b)
OrderOf(r, S) == {p \in S \X S : Before(r, p[1], p[2])}
Sorted(S, r) == Arranged(S, OrderOf(r, S))

\* The answer.  (The order of cards of different stages shows nowhere.)
Listed(v) ==
    LET ids == Sorted(Selected(v, rows), rows)
    IN  [i \in DOMAIN ids |->
           [deal |-> ids[i], stage |-> rows[ids[i]].stage, order |-> rows[ids[i]].order]]

\* The copy of the deal, before the view has read it.
NoRow == [stage |-> "lead", order |-> 0, archived |-> FALSE]

\* at: idle, sent, read (the view has read its copy), then the answer.
Move == [at : {"idle", "sent", "read", "moved", "refused", "over", "failed"},
         kind : {"move", "archive"}, deal : Deals \cup {0},
         stage : Stages, position : Nat, copy : Row \cup {NoRow}, previous : Lists,
         key : Views]
NoMove == [at |-> "idle", kind |-> "move", deal |-> 0, stage |-> "lead", position |-> 0,
           copy |-> NoRow, previous |-> NoList, key |-> "active"]
InFlight(m) == moves[m].at \in {"sent", "read", "moved", "refused"}

BoardTypeOK ==
    /\ rows \in [Deals -> Row]
    /\ list \in [Views -> Lists]
    /\ fetching \in {NotFetching, ListAsked} \cup [at : {"answered"}, data : Lists]
    /\ outdated \in [Views -> BOOLEAN]
    /\ view \in Views \cup {"away"}
    /\ dragged \in Deals \cup {0}
    /\ overlay \in [kind : {"none", "menu", "lost"}, deal : Deals \cup {0}]
    /\ moves \in [Moves -> Move]
    /\ latest \in Moves \cup {"none"}

\* New deals come into the first lane with sort_order 0.
BoardInit ==
    /\ rows = [d \in Deals |-> NoRow]
    /\ list = [v \in Views |-> NoList]
    /\ fetching = ListAsked
    /\ outdated = [v \in Views |-> FALSE]
    /\ view = "active"
    /\ dragged = 0
    /\ overlay = Nothing
    /\ moves = [m \in Moves |-> NoMove]
    /\ latest = "none"

-----------------------------------------------------------------------------
(* What the page shows and offers.                                         *)

\* The cards of a lane by sort_order; the sort is stable.
laneDeals(l, s) ==
    LET lane == {i \in DOMAIN l : l[i].stage = s} IN Picked(l, lane, OrderOf(l, lane))

\* Lanes, a plain list, the empty state, or the loading state.
BoardPage ==
    CASE view = "away" -> "away"
      [] view # "away" /\ list[view] = NoList -> "loading"
      [] view # "away" /\ list[view] # NoList /\ DOMAIN list[view] = {} -> "empty"
      [] view = "mine" /\ list[view] # NoList /\ DOMAIN list[view] # {} -> "list"
      [] OTHER -> "lanes"

\* Drawers, menus and dialogs are modal.
DealCard(d) == overlay = Nothing /\ BoardPage = "lanes" /\ d \in On(list[view])

\* A card can be picked up in the active view only.
canMove == view = "active"
DealLane(d) == DealCard(d) /\ canMove

-----------------------------------------------------------------------------
(* The list query.                                                         *)

ServeList ==
    /\ fetching = ListAsked
    /\ view # "away"
    /\ fetching' = [at |-> "answered", data |-> Listed(view)]
    /\ UNCHANGED <<rows, list, outdated, boardScreen, moves>>

ListArrives ==
    /\ fetching.at = "answered"
    /\ list' = [list EXCEPT ![view] = fetching.data]
    /\ outdated' = [outdated EXCEPT ![view] = FALSE]
    /\ fetching' = NotFetching
    /\ UNCHANGED <<rows, boardScreen, moves>>

ListFails ==
    /\ fetching # NotFetching
    /\ fetching' = NotFetching
    /\ UNCHANGED <<rows, list, outdated, boardScreen, moves>>

\* The window's focus, the retry button, a mount after the stale time.
RefetchList ==
    /\ view # "away" /\ fetching = NotFetching
    /\ list[view] = NoList \/ outdated[view] \/ list[view] # Listed(view)
    /\ fetching' = ListAsked
    /\ UNCHANGED <<rows, list, outdated, boardScreen, moves>>

\* invalidateDeals: every list is marked, the one on screen is asked for anew.
Invalidated ==
    /\ outdated' = [v \in Views |-> list[v] # NoList]
    /\ fetching' = IF view = "away" THEN NotFetching ELSE ListAsked

\* Another view, another page.  The key in the callbacks of the latest move
\* follows the filters while the page is open and the move is pending.
selectBoardView(v) ==
    /\ v # view /\ overlay = Nothing /\ dragged = 0
    /\ view' = v
    /\ fetching' = IF v # "away" /\ (list[v] = NoList \/ outdated[v])
                   THEN ListAsked ELSE NotFetching
    /\ IF v = "away"
       THEN latest' = "none" /\ UNCHANGED moves
       ELSE /\ moves' = IF latest # "none" THEN [moves EXCEPT ![latest].key = v] ELSE moves
            /\ UNCHANGED latest
    /\ UNCHANGED <<rows, list, outdated, dragged, overlay>>

-----------------------------------------------------------------------------
(* Drag and drop.                                                          *)

\* bound: nothing is picked up or opened once Moves is used up.
Budget == \E m \in Moves : moves[m].at = "idle"

dragStart(d) ==
    /\ DealLane(d) /\ dragged = 0 /\ Budget
    /\ dragged' = d
    /\ UNCHANGED <<rows, cache, view, overlay, latest, moves>>

dragCancel ==
    /\ dragged # 0
    /\ dragged' = 0
    /\ UNCHANGED <<rows, cache, view, overlay, latest, moves>>

\* The places of the cards of other deals, and those cards.
OthersIn(l, d) == {i \in DOMAIN l : l[i].deal # d}
Without(l, d) == Picked(l, OthersIn(l, d), Ascending(OthersIn(l, d)))
InsertedAt(s, i, d) == SubSeq(s, 1, i) \o <<d>> \o SubSeq(s, i + 1, Len(s))
Least(a, b) == IF a < b THEN a ELSE b
IndexIn(s, d) == CHOOSE i \in DOMAIN s : s[i] = d
FirstOf(l, d) == Min({i \in DOMAIN l : l[i].deal = d})
LastOf(l, d) == Max({i \in DOMAIN l : l[i].deal = d})

\* onMutate: the other cards, followed by the lane as it will be when the
\* server has moved the deal.  The lane's other cards are in both.
Optimistic(l, d, s, position) ==
    LET others == Without(l, d)
        lane == laneDeals(others, s)
        moving == [l[FirstOf(l, d)] EXCEPT !.stage = s]
        destination == InsertedAt(lane, Least(position, Len(lane)), moving)
    IN  IF d \notin On(l) THEN l
        ELSE others \o [i \in DOMAIN destination |->
               [destination[i] EXCEPT !.order = LastOf(destination, destination[i].deal) - 1]]

\* dragEnd: over a card the place of that card, over the lane its end; a deal
\* without a reason opens the drawer instead of going to the lost lane.
Position(d, s, over) ==
    LET lane == laneDeals(list[view], s)
    IN  IF over = 0 THEN Cardinality(OthersIn(lane, d))
        ELSE FirstOf(lane, over) - 1

AsksForReason(d, s) == s = "lost" /\ d \notin Reasoned

dragEnd(m, s, over) ==
    LET d == dragged IN
    /\ d # 0 /\ over # d
    /\ over # 0 => over \in On(laneDeals(list[view], s))
    /\ dragged' = 0
    /\ IF AsksForReason(d, s)
       THEN /\ overlay' = [kind |-> "lost", deal |-> d]
            /\ UNCHANGED <<cache, latest, moves>>
       ELSE /\ moves[m].at = "idle"
            /\ moves' = [moves EXCEPT ![m] =
                 [at |-> "sent", kind |-> "move", deal |-> d, stage |-> s,
                  position |-> Position(d, s, over), copy |-> NoRow,
                  previous |-> list[view], key |-> view]]
            /\ latest' = m
            /\ fetching' = NotFetching
            /\ list' = [list EXCEPT ![view] = Optimistic(@, d, s, Position(d, s, over))]
            /\ outdated' = [outdated EXCEPT ![view] = FALSE]
            /\ UNCHANGED overlay
    /\ UNCHANGED <<rows, view>>

-----------------------------------------------------------------------------
(* POST move: the view reads the deal before move_deal locks the board.     *)

DealMoveAPIView(m) ==
    /\ moves[m].kind = "move"
    /\ moves[m].at = "sent"
    /\ moves' = LET d == moves[m].deal IN
         IF rows[d].archived \/ AsksForReason(d, moves[m].stage)
         THEN [moves EXCEPT ![m].at = "refused"]
         ELSE [moves EXCEPT ![m].at = "read", ![m].copy = rows[d]]
    /\ UNCHANGED <<rows, cache, boardScreen>>

\* The lane after a move: the deal over the other active deals there.
Reordered(r, m) ==
    LET others == Sorted({d \in Selected("active", r) \ {m.deal} : r[d].stage = m.stage}, r)
    IN  InsertedAt(others, Least(m.position, Len(others)), m.deal)

\* Mutant: items are written if their stage differs.
Renumbered_StageOnly(r, m) ==
    LET lane == Reordered(r, m)
        same(d) == (IF d = m.deal THEN m.copy ELSE r[d]).stage = m.stage
    IN  [d \in Deals |-> IF d \in Range(lane) /\ ~same(d)
           THEN [r[d] EXCEPT !.stage = m.stage, !.order = IndexIn(lane, d) - 1] ELSE r[d]]

\* move_deal: the lane's other active deals in order, the copy among them; an
\* item is written if its stage or place differ, the copy's included.
Renumbered(r, m) ==
    LET lane == Reordered(r, m)
        place(d) == IndexIn(lane, d) - 1
        same(d) == LET item == IF d = m.deal THEN m.copy ELSE r[d]
                   IN  item.stage = m.stage /\ item.order = place(d)
    IN  [d \in Deals |-> IF d \in Range(lane) /\ ~same(d)
           THEN [r[d] EXCEPT !.stage = m.stage, !.order = place(d)] ELSE r[d]]

move_deal(m) ==
    /\ moves[m].kind = "move"
    /\ moves[m].at = "read"
    /\ rows' = Renumbered(rows, moves[m])
    /\ moves' = [moves EXCEPT ![m].at = "moved"]
    /\ UNCHANGED <<cache, boardScreen>>

MoveLost(m) ==
    /\ moves[m].at \in {"sent", "moved"}
    /\ moves' = [moves EXCEPT ![m].at = "refused"]
    /\ UNCHANGED <<rows, cache, boardScreen>>

MoveOver(m) ==
    /\ moves' = [moves EXCEPT ![m] = [NoMove EXCEPT !.at = "over"]]
    /\ latest' = IF latest = m THEN "none" ELSE latest

\* Mutant: an error rolls back and leaves it at that.
MoveFails_RolledBack(m) ==
    /\ moves[m].kind = "move"
    /\ moves[m].at = "refused"
    /\ list' = [list EXCEPT ![moves[m].key] = moves[m].previous]
    /\ MoveOver(m)
    /\ UNCHANGED <<rows, fetching, outdated, view, dragged, overlay>>

\* onError puts the former list into the list of the key the hook has by then;
\* onSettled invalidates after an error and after a success.
MoveFails(m) ==
    /\ moves[m].kind = "move"
    /\ moves[m].at = "refused"
    /\ list' = [list EXCEPT ![moves[m].key] = moves[m].previous]
    /\ outdated' = [v \in Views |-> list[v] # NoList \/ v = moves[m].key]
    /\ fetching' = IF view = "away" THEN NotFetching ELSE ListAsked
    /\ MoveOver(m)
    /\ UNCHANGED <<rows, view, dragged, overlay>>

MoveSucceeds(m) ==
    /\ moves[m].kind = "move"
    /\ moves[m].at = "moved"
    /\ Invalidated
    /\ MoveOver(m)
    /\ UNCHANGED <<rows, list, view, dragged, overlay>>

-----------------------------------------------------------------------------
(* The card's menu.                                                        *)

openActions(d) ==
    /\ DealCard(d) /\ dragged = 0 /\ Budget
    /\ overlay' = [kind |-> "menu", deal |-> d]
    /\ UNCHANGED <<rows, cache, view, dragged, latest, moves>>

closeOverlay ==
    /\ overlay # Nothing
    /\ overlay' = Nothing
    /\ UNCHANGED <<rows, cache, view, dragged, latest, moves>>

\* One archive or restore at a time; its success closes the menu.
toggleArchive(m) ==
    /\ overlay.kind = "menu"
    /\ moves[m].at = "idle"
    /\ \A n \in Moves : InFlight(n) => moves[n].kind = "move"
    /\ moves' = [moves EXCEPT ![m].at = "sent", ![m].kind = "archive", ![m].deal = overlay.deal]
    /\ UNCHANGED <<rows, cache, boardScreen>>

\* The view toggles what it read, without a lock.
DealArchiveAPIView(m) ==
    /\ moves[m].kind = "archive"
    /\ \/ /\ moves[m].at = "sent"
          /\ moves' = [moves EXCEPT ![m].at = "read", ![m].copy = rows[moves[m].deal]]
          /\ UNCHANGED rows
       \/ /\ moves[m].at = "read"
          /\ rows' = [rows EXCEPT ![moves[m].deal].archived = ~moves[m].copy.archived]
          /\ moves' = [moves EXCEPT ![m].at = "moved"]
    /\ UNCHANGED <<cache, boardScreen>>

Archived(m) ==
    /\ moves[m].kind = "archive" /\ moves[m].at = "moved"
    /\ MoveOver(m)
    /\ overlay' = IF overlay.kind = "menu" THEN Nothing ELSE overlay
    /\ Invalidated
    /\ UNCHANGED <<rows, list, view, dragged>>

\* Without onSettled: after an error the lists stay as they are.
ArchiveFails(m) ==
    /\ moves[m].kind = "archive" /\ moves[m].at = "refused"
    /\ moves' = [moves EXCEPT ![m] = [NoMove EXCEPT !.at = "failed"]]
    /\ UNCHANGED <<rows, cache, boardScreen>>

BoardNext ==
    \/ ServeList \/ ListArrives \/ ListFails \/ RefetchList
    \/ \E v \in Views \cup {"away"} : selectBoardView(v)
    \/ \E d \in Deals : dragStart(d) \/ openActions(d)
    \/ dragCancel
    \/ \E m \in Moves :
          \/ \E s \in Stages, over \in Deals \cup {0} : dragEnd(m, s, over)
          \/ DealMoveAPIView(m) \/ move_deal(m) \/ MoveLost(m) \/ MoveFails(m) \/ MoveSucceeds(m)
          \/ toggleArchive(m) \/ DealArchiveAPIView(m) \/ Archived(m) \/ ArchiveFails(m)
    \/ closeOverlay

BoardSpec == BoardInit /\ [][BoardNext]_boardVars

-----------------------------------------------------------------------------
\* Once its mutations are over and no archive has failed, a list that is not
\* marked for a refetch is the one the server would send, whatever overlapping
\* moves, rollbacks into another view, cancelled and failed requests left in the
\* cache.
QuietListsAreTheServers ==
    \A v \in Views :
        /\ list[v] # NoList /\ ~outdated[v] /\ (v = view => fetching = NotFetching)
        /\ \A m \in Moves : moves[m].at \in {"idle", "over"}
        => list[v] = Listed(v)

\* The place a card is shown at (the last one, if it is shown twice) while its
\* move is under way is the place the server gives it, if the board had not
\* changed since it was loaded nor the deal between the view's read and the lock
\* of move_deal.
MovesLandWhereShown ==
    [][\A m \in Moves :
         /\ moves[m].kind = "move" /\ moves[m].at = "read" /\ moves'[m].at = "moved"
         /\ moves[m].previous = Listed("active") /\ moves[m].copy = rows[moves[m].deal]
         => LET shown == Optimistic(moves[m].previous, moves[m].deal, moves[m].stage,
                                    moves[m].position)
            IN  \A d \in Selected("active", rows') :
                  /\ shown[LastOf(shown, d)].stage = rows'[d].stage
                  /\ shown[LastOf(shown, d)].order = rows'[d].order]_boardVars

\* crm-domain.md: drag-and-drop ordering persists.  A move that the server
\* carries out leaves the deal in the stage it was dropped on.
AcknowledgedMovesPersist ==
    [][\A m \in Moves :
         moves[m].kind = "move" /\ moves[m].at = "read" /\ moves'[m].at = "moved"
         => rows'[moves[m].deal].stage = moves[m].stage]_boardVars
=============================================================================
