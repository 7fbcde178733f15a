------------------------------- MODULE BotTable -------------------------------
(***************************************************************************)
(* The computer at a table: tiles come to its rack, the person it plays    *)
(* against lays rows, and it plays what generateBotTurn proposes.  Which   *)
(* racks and tables it meets, and in what order, is left wide open; what   *)
(* is asked is how each of its moves relates to them.                      *)
(***************************************************************************)
EXTENDS BotMove

CONSTANTS
  Deck,       \* the tiles that may come to the computer's rack
  HumanRows,  \* the rows the person may lay
  MaxRack,    \* bound: tiles on the rack
  MaxTable,   \* bound: rows on the table when the person lays one more
  MaxNodes,   \* the search's node budget
  Budgets     \* budgets the moves of which are looked at besides

ASSUME TableAssumption ==
  /\ Deck \subseteq Catalog
  /\ \A row \in HumanRows : row \in Seq(Catalog) /\ ValidSet(row)
  /\ MaxRack \in Nat /\ MaxTable \in Nat
  /\ MaxNodes \in Nat \ {0} /\ Budgets \subseteq Nat \ {0}

VARIABLES rack, table, melded

vars == <<rack, table, melded>>

Init == rack = {} /\ table = <<>> /\ melded \in BOOLEAN

\* A tile dealt, drawn, or drawn as a penalty.
TakeTile(t) ==
  /\ Cardinality(rack) < MaxRack
  /\ Len(table) <= MaxTable
  /\ t \notin rack \cup RowTiles(table)
  /\ rack' = rack \cup {t}
  /\ UNCHANGED <<table, melded>>

HumanLays(row) ==
  /\ Len(table) < MaxTable
  /\ ToSet(row) \cap (rack \cup RowTiles(table)) = {}
  /\ table' = Append(table, row)
  /\ UNCHANGED <<rack, melded>>

Candidates == SortedCandidates(rack, melded, table)

\* The bot's commit, applied.  Without a proposal it draws or passes.
BotCommits ==
  \E proposed \in Proposals(Candidates, rack, melded, table, MaxNodes) :
    /\ ValidTurn(rack, melded, table, proposed)
    /\ table' = proposed
    /\ rack' = rack \ RowTiles(proposed)
    /\ melded' = TRUE

Next ==
  \/ \E t \in Deck : TakeTile(t)
  \/ \E row \in HumanRows : HumanLays(row)
  \/ BotCommits

Spec == Init /\ [][Next]_vars

-----------------------------------------------------------------------------
(* What can be played at all, stated without candidates, bases or search:  *)
(* sets of tiles that make a run or a group with jokers standing in.       *)

CanBeSet(tiles) ==
  LET numbered == {t \in tiles : IsNumbered(t)}
      values == {t.value : t \in numbered}
      colors == {t.color : t \in numbered}
      n == Cardinality(tiles)
  IN  /\ n >= 3 /\ numbered # {}
      /\ \/ /\ Cardinality(colors) = 1
            /\ Cardinality(values) = Cardinality(numbered)
            /\ n <= MAX_VALUE /\ Max(values) - Min(values) < n
         \/ /\ Cardinality(values) = 1
            /\ Cardinality(colors) = Cardinality(numbered)
            /\ n <= Len(COLORS)

\* Of two copies the computer plays only the first (movegen.test.ts:220).
Playable == {t \in rack : \A u \in rack :
               (IsNumbered(t) /\ u.color = t.color /\ u.value = t.value) => t.copy = "a" \/ u = t}

NewSets == {s \in SUBSET Playable : CanBeSet(s)}
Additions(k) ==
  {s \in SUBSET {t \in Playable : IsNumbered(t)} :
     /\ s # {} /\ \A i \in 1 .. Len(table[k]) : IsNumbered(table[k][i])
     /\ CanBeSet(ToSet(table[k]) \cup s)}

\* The tile counts of all supported turns: two new sets (the
\* bounded rack has no room for three) and an addition to each row.
TurnSizes ==
  LET add(k) == {{}} \cup (IF k \in 1 .. Len(table) THEN Additions(k) ELSE {})
      new == {{}} \cup NewSets
      apart(p) == \A i, j \in DOMAIN p : i # j => p[i] \cap p[j] = {}
      turns == {p \in new \X new \X add(1) \X add(2) \X add(3) : apart(p)}
  IN  {Cardinality(UNION {p[i] : i \in DOMAIN p}) : p \in turns}

-----------------------------------------------------------------------------
\* generate.ts: whatever the search hands over passes validateTurn, budget or
\* no budget: no tile twice, no joker too many, no set broken, the first meld
\* worth thirty.  The fallback to a draw is never taken for an illegal table.
ProposalsLegal ==
  LET cands == Candidates
  IN  \A n \in {MaxNodes} \cup Budgets :
        \A proposed \in Proposals(cands, rack, melded, table, n) :
          ValidTurn(rack, melded, table, proposed)

\* search.ts: after its first meld the computer plays as many tiles as any
\* supported turn could, wins included, though most branches are cut off.
PlaysTheMost ==
  LET cands == Candidates
      found == Search(cands, rack, melded, MaxNodes)
  IN  melded /\ ~ found.budgetExceeded =>
        Max(TurnSizes) = Max({0} \cup {TilesPlayed(cands, sel) : sel \in found.best})

\* candidates.ts: the computer may carry on a set of the table, but never so
\* that a joker comes to mean another tile, a set moves or a row is broken up.
JokersKeepTheirMeaning ==
  [][\A k \in 1 .. Len(table) :
       /\ k \in 1 .. Len(table')
       /\ \E shift \in 0 .. Len(table'[k]) - Len(table[k]) :
            \A i \in 1 .. Len(table[k]) :
              /\ table'[k][i + shift] = table[k][i]
              /\ Represents(table'[k], i + shift) = Represents(table[k], i)]_vars
===============================================================================
