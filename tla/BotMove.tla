-------------------------------- MODULE BotMove --------------------------------
(***************************************************************************)
(* The computer opponent's move (packages/bot): from its own rack and the  *)
(* table, the candidate sets it can play, the branch-and-bound search for  *)
(* the best disjoint selection of them, and the table it proposes.         *)
(*                                                                         *)
(* Only the order of two candidates that weigh the same is left open: the  *)
(* code breaks such ties by comparing tile ids as strings, the model keeps *)
(* every best selection found and lets the caller take any of them.        *)
(***************************************************************************)
EXTENDS SetRules, SequencesExt

INITIAL_MELD_THRESHOLD == 30

\* A rack joker whose identity is settled only when the table is emitted.
JOKER_SLOT == [color |-> "joker", value |-> 0, copy |-> "slot"]

Numbered(c, v, copy) == [color |-> c, value |-> v, copy |-> copy]
RackJokers(rack) == {t \in rack : ~ IsNumbered(t)}

\* buildRackIndex: of two copies of a tile only the first can be played.
Holds(rack, c, v) == \E k \in Copy : Numbered(c, v, k) \in rack
FirstCopy(rack, c, v) ==
  Numbered(c, v, IF Numbered(c, v, "a") \in rack THEN "a" ELSE "b")

-----------------------------------------------------------------------------
(* Candidates *)

\* The jokers of a layout are drawn from `jokers` in order, after the first
\* `from` of them.
IsSlot(tile) == tile = JOKER_SLOT
Slots(layout) == Cardinality({i \in 1 .. Len(layout) : IsSlot(layout[i])})
Concretize(layout, jokers, from) ==
  [i \in 1 .. Len(layout) |->
     IF IsSlot(layout[i])
     THEN jokers[from + Cardinality({j \in 1 .. i : IsSlot(layout[j])})]
     ELSE layout[i]]

\* The rack's jokers in the order of their ids.
JokerIfHeld(rack, k) ==
  IF Numbered("joker", 0, k) \in rack THEN <<Numbered("joker", 0, k)>> ELSE <<>>
RackJokerIds(rack) == JokerIfHeld(rack, "a") \o JokerIfHeld(rack, "b")

\* A layout as a candidate for the table row `target` (0: a row of its own);
\* only what the rack adds to the row counts.
Candidate(kind, target, layout, old, rack) ==
  LET row == Concretize(layout, RackJokerIds(rack), 0)
      used == {t \in ToSet(layout) : IsNumbered(t)} \ ToSet(old)
  IN  [kind |-> kind, target |-> target, layout |-> layout, used |-> used,
       jokersUsed |-> Slots(layout), tilesPlayed |-> Cardinality(used) + Slots(layout),
       faceValuePlayed |-> SetFaceValue(row) - (IF old = <<>> THEN 0 ELSE SetFaceValue(old))]

\* faceValueOf: the engine alone decides what is a set.
Sound(layouts, rack) ==
  {l \in layouts : ValidSet(Concretize(l, RackJokerIds(rack), 0))}

\* A run of len tiles of colour c from base: held tiles, jokers in the gaps.
RunLayout(rack, c, base, len) ==
  [i \in 1 .. len |-> IF Holds(rack, c, base + i - 1)
                      THEN FirstCopy(rack, c, base + i - 1) ELSE JOKER_SLOT]

\* Every span of a colour with a held tile in it and jokers enough for its gaps.
NewRuns(rack) ==
  LET span == {s \in (MIN_VALUE .. MAX_VALUE) \X (MIN_SET_LENGTH .. MAX_RUN_LENGTH) :
                 s[1] + s[2] - 1 <= MAX_VALUE}
      held(c, s) == Cardinality({v \in s[1] .. s[1] + s[2] - 1 : Holds(rack, c, v)})
      feasible(c) == {s \in span : /\ held(c, s) > 0
                                   /\ s[2] - held(c, s) <= Cardinality(RackJokers(rack))}
      layouts == UNION {{RunLayout(rack, c, s[1], s[2]) : s \in feasible(c)} : c \in Color}
  IN  {Candidate("run", 0, l, <<>>, rack) : l \in Sound(layouts, rack)}

\* The held tiles of one number, in the order of COLORS, without some colours.
GroupPart(rack, v, colors) ==
  LET held == {c \in colors : Holds(rack, c, v)}
  IN  [i \in 1 .. Cardinality(held) |-> FirstCopy(rack, NthColor(i, held), v)]

\* Any of the held tiles of one number with any number of jokers after them.
GroupLayouts(rack, v) ==
  LET slots(n) == [i \in 1 .. n |-> JOKER_SLOT]
      held == {c \in Color : Holds(rack, c, v)}
      parts == {GroupPart(rack, v, cs) : cs \in (SUBSET held) \ {{}}}
  IN  UNION {{part \o slots(n) : part \in parts} : n \in 0 .. Cardinality(RackJokers(rack))}

NewGroups(rack) ==
  LET layouts == UNION {GroupLayouts(rack, t.value) : t \in rack \ RackJokers(rack)}
      feasible == {l \in layouts : Len(l) \in MIN_SET_LENGTH .. MAX_GROUP_LENGTH}
  IN  {Candidate("group", 0, l, <<>>, rack) : l \in Sound(feasible, rack)}

\* A run of the table carried on with the p tiles below and the q above it.
RunExtensions(rack, target, row) ==
  LET c == row[1].color
      lo == row[1].value
      hi == row[Len(row)].value
      part(a, b) == [i \in 1 .. b - a + 1 |-> FirstCopy(rack, c, a + i - 1)]
      held(a, b) == \A v \in a .. b : Holds(rack, c, v)
      ends == {e \in (MIN_VALUE .. lo) \X (hi .. MAX_VALUE) :
                 /\ e # <<lo, hi>>
                 /\ held(e[1], lo - 1) /\ held(hi + 1, e[2])}
      layouts == {part(e[1], lo - 1) \o row \o part(hi + 1, e[2]) : e \in ends}
  IN  {Candidate("extend", target, l, row, rack) : l \in Sound(layouts, rack)}

\* A group of the table with some of its missing colours added.
GroupExtensions(rack, target, row) ==
  LET missing == Color \ {t.color : t \in ToSet(row)}
      layouts == {row \o GroupPart(rack, row[1].value, cs) : cs \in SUBSET missing}
      feasible == {l \in layouts : Len(l) \in Len(row) + 1 .. MAX_GROUP_LENGTH}
  IN  {Candidate("extend", target, l, row, rack) : l \in Sound(feasible, rack)}

\* Fault: a set that holds a joker is extended like any other.
Extensible_JokersToo(row) == ValidSet(row)

\* A set with a joker is left alone: another tile could change what it means.
Extensible(row) == ValidSet(row) /\ \A i \in 1 .. Len(row) : IsNumbered(row[i])

Extensions(rack, table) ==
  UNION {IF ValidGroup(table[k]) THEN GroupExtensions(rack, k, table[k])
                                 ELSE RunExtensions(rack, k, table[k])
         : k \in {k \in 1 .. Len(table) : Extensible(table[k])}}

\* Two candidates that use up the same tiles for the same row.
SameResources(a, b) ==
  a.target = b.target /\ a.used = b.used /\ a.jokersUsed = b.jokersUsed

\* The run that starts lowest is generated first, and any run before a group.
GeneratedBefore(a, b) ==
  LET base(c) == BaseAt(c.layout, Min(Anchors(c.layout)))
  IN  a.kind = "run" /\ (b.kind = "group" \/ base(a) < base(b))

AllCandidates(rack, melded, table) ==
  NewRuns(rack) \cup NewGroups(rack) \cup (IF melded THEN Extensions(rack, table) ELSE {})

\* generateCandidates: of those with the same resources the first one stays.
GenerateCandidates(rack, melded, table) ==
  LET all == AllCandidates(rack, melded, table)
  IN  {c \in all : ~ \E d \in all : SameResources(d, c) /\ GeneratedBefore(d, c)}

-----------------------------------------------------------------------------
(* The search.  `cands` is the sorted sequence of candidates; a selection is *)
(* a set of its indices.                                                     *)

CompareCandidates(a, b) ==
  \/ a.tilesPlayed > b.tilesPlayed
  \/ a.tilesPlayed = b.tilesPlayed /\ a.faceValuePlayed > b.faceValuePlayed

First(set) == CHOOSE c \in set : \A d \in set : ~ CompareCandidates(d, c)

Sorted(set) ==
  LET sorted[s \in SUBSET set] ==
        IF s = {} THEN <<>> ELSE <<First(s)>> \o sorted[s \ {First(s)}]
  IN  sorted[set]

TilesPlayed(cands, sel) ==
  SumFunctionOnSet([i \in DOMAIN cands |-> cands[i].tilesPlayed], sel)
FaceValuePlayed(cands, sel) ==
  SumFunctionOnSet([i \in DOMAIN cands |-> cands[i].faceValuePlayed], sel)
JokersUsed(cands, sel) ==
  SumFunctionOnSet([i \in DOMAIN cands |-> cands[i].jokersUsed], sel)

\* Fault: a tile may be taken for two sets.
Fits_Overlaps(cands, rack, sel, i) ==
  /\ cands[i].target = 0 \/ \A j \in sel : cands[j].target # cands[i].target
  /\ JokersUsed(cands, sel) + cands[i].jokersUsed <= Cardinality(RackJokers(rack))

\* Candidate i goes with the selection: its row, jokers and tiles are free.
Fits(cands, rack, sel, i) ==
  /\ cands[i].target = 0 \/ \A j \in sel : cands[j].target # cands[i].target
  /\ JokersUsed(cands, sel) + cands[i].jokersUsed <= Cardinality(RackJokers(rack))
  /\ \A j \in sel : cands[j].used \cap cands[i].used = {}

\* How a selection ranks: a win (which plays every tile) and then most tiles
\* come first, the face value decides between the rest.
Better(cands, sel, other) ==
  \/ TilesPlayed(cands, sel) > TilesPlayed(cands, other)
  \/ /\ TilesPlayed(cands, sel) = TilesPlayed(cands, other)
     /\ FaceValuePlayed(cands, sel) > FaceValuePlayed(cands, other)

\* consider: may the selection be played, and is it as good as the best ones?
Consider(cands, melded, sel, best) ==
  IF \/ sel = {}
     \/ ~ melded /\ FaceValuePlayed(cands, sel) < INITIAL_MELD_THRESHOLD
     \/ \E b \in best : Better(cands, b, sel)
  THEN best
  ELSE {b \in best : ~ Better(cands, sel, b)} \cup {sel}

\* Fault: the candidate at hand is left out of the bound.
OutOfReach_OffByOne(cands, sel, best, i) ==
  \E b \in best : TilesPlayed(cands, sel) + TilesPlayed(cands, i + 1 .. Len(cands))
                    < TilesPlayed(cands, b)

\* Even every remaining candidate together would not catch up.
OutOfReach(cands, sel, best, i) ==
  \E b \in best : TilesPlayed(cands, sel) + TilesPlayed(cands, i .. Len(cands))
                    < TilesPlayed(cands, b)

Wins(cands, rack, best) == \E b \in best : TilesPlayed(cands, b) = Cardinality(rack)

\* The search so far, and a selection at which it stands.
Found(cands) ==
  [best : SUBSET SUBSET DOMAIN cands, nodes : Nat, budgetExceeded : BOOLEAN]
Node(cands) == [sel : SUBSET DOMAIN cands, found : Found(cands)]

\* A node is counted against the budget, then its selection considered.
Visit(cands, melded, maxNodes, sel, found) ==
  IF found.budgetExceeded THEN found
  ELSE IF found.nodes = maxNodes
  THEN [found EXCEPT !.nodes = @ + 1, !.budgetExceeded = TRUE]
  ELSE [found EXCEPT !.nodes = @ + 1, !.best = Consider(cands, melded, sel, @)]

\* dfs(start): the selection itself and, unless a win is found, all that goes
\* with it; `loop` is the loop over the candidates from `start` on.
Dfs(cands, rack, melded, maxNodes, sel, found, loop) ==
  LET seen == Visit(cands, melded, maxNodes, sel, found)
  IN  IF Wins(cands, rack, seen.best) THEN seen ELSE loop[[sel |-> sel, found |-> seen]]

\* The loop from candidate i on: i with everything after it, then `loop`, the
\* rest of it.
Branch(cands, rack, melded, maxNodes, i, loop) ==
  [node \in Node(cands) |->
     IF node.found.budgetExceeded \/ OutOfReach(cands, node.sel, node.found.best, i)
     THEN node.found
     ELSE loop[[node EXCEPT !.found =
            IF Fits(cands, rack, node.sel, i)
            THEN Dfs(cands, rack, melded, maxNodes, node.sel \cup {i}, @, loop) ELSE @]]]

\* The loop over the last k candidates, for every k.
Loops(cands, rack, melded, maxNodes) ==
  LET n == Len(cands)
      last[k \in 0 .. n] ==
        IF k = 0 THEN [node \in Node(cands) |-> node.found]
                 ELSE Branch(cands, rack, melded, maxNodes, n - k + 1, last[k - 1])
  IN  last

Search(cands, rack, melded, maxNodes) ==
  Dfs(cands, rack, melded, maxNodes, {},
      [best |-> {}, nodes |-> 0, budgetExceeded |-> FALSE],
      Loops(cands, rack, melded, maxNodes)[Len(cands)])

-----------------------------------------------------------------------------
(* The move *)

\* emitArrangement: extended rows stay where they are, new ones follow.
EmitArrangement(cands, sel, rack, table) ==
  LET ext(k) == {i \in sel : cands[i].target = k}
      fresh == SetToSeq({i \in sel : cands[i].target = 0})
      before(n) == JokersUsed(cands, {fresh[m] : m \in 1 .. n - 1})
  IN  [k \in 1 .. Len(table) |->
         IF ext(k) = {} THEN table[k] ELSE cands[CHOOSE i \in ext(k) : TRUE].layout]
      \o
      [n \in 1 .. Len(fresh) |->
         Concretize(cands[fresh[n]].layout, RackJokerIds(rack), before(n))]

RowTiles(table) == UNION {ToSet(table[k]) : k \in 1 .. Len(table)}

\* validateTurn, on rows of real tiles, for the one seat of syntheticState.
ValidTurn(rack, melded, table, proposed) ==
  LET keys(t) == {ToSet(t[k]) : k \in 1 .. Len(t)}
      new == {k \in 1 .. Len(proposed) : ToSet(proposed[k]) \notin keys(table)}
      worth == [k \in 1 .. Len(proposed) |-> SetFaceValue(proposed[k])]
      added == RowTiles(proposed) \ RowTiles(table)
  IN  /\ \A k \in 1 .. Len(proposed) : ValidSet(proposed[k])
      /\ \A k, l \in 1 .. Len(proposed) : k # l => ToSet(proposed[k]) \cap ToSet(proposed[l]) = {}
      /\ RowTiles(table) \subseteq RowTiles(proposed)
      /\ added \subseteq rack /\ added # {}
      /\ melded \/ /\ keys(table) \subseteq keys(proposed)
                   /\ SumFunctionOnSet(worth, new) >= INITIAL_MELD_THRESHOLD

\* generateBotTurn up to the choice between equals: the tables it may propose.
SortedCandidates(rack, melded, table) ==
  Sorted(GenerateCandidates(rack, melded, table))

Proposals(cands, rack, melded, table, maxNodes) ==
  {EmitArrangement(cands, sel, rack, table) :
     sel \in Search(cands, rack, melded, maxNodes).best}
===============================================================================
