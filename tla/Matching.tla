------------------------------ MODULE Matching ------------------------------
(***************************************************************************)
(* What the matching algorithm (server/nm_algo) computes for a list of     *)
(* names: tokens, similarity, top-n selection, the join with the ground    *)
(* truth and the rows of the answer.  A name is known by its tokens, those *)
(* the analyzer finds after preprocessing, and all tokens weigh the same.  *)
(* A score is kept squared and in units of 1/Full, which keeps it an       *)
(* integer and keeps the order of scores; thresholds are kept likewise.    *)
(* What an answer reports is the root of a score, rounded to 1/Unit.       *)
(***************************************************************************)
EXTENDS FiniteSets, Naturals, Sequences, SequencesExt

CONSTANTS
    Name,        \* the names that are looked up
    GtRow,       \* the rows of the ground truth
    Tokens,      \* [Name \cup GtRow -> set of tokens]
    GtColumn,    \* the columns of the ground truth
    NoRow,       \* gt_row_no of a name without a match (-1)
    Full,        \* the score of two equal names
    Unit         \* the steps between 0 and 1 of a reported score (10^4)

ASSUME MatchingAssumption ==
    /\ NoRow \notin GtRow
    /\ GtRow # {} /\ IsFiniteSet(GtRow)
    /\ DOMAIN Tokens = Name \cup GtRow
    /\ \A n \in Name \cup GtRow : IsFiniteSet(Tokens[n])
    /\ Full \in Nat \ {0} /\ Unit \in Nat \ {0}

Matcher == {"edit_distance", "vector_exact", "vector_approx"}

\* update_matcher: which of the three matchers serves an algorithm option.
MatcherOf(algorithm) ==
    CASE algorithm = "EDIT_DISTANCE" -> "edit_distance"
      [] algorithm = "EXACT"         -> "vector_exact"
      [] algorithm = "APPROXIMATE"   -> "vector_approx"

Algorithm == {"EDIT_DISTANCE", "EXACT", "APPROXIMATE"}

\* pre_match_gt fits the vectorizer to the ground truth: its vocabulary.
Vocabulary == UNION {Tokens[g] : g \in GtRow}

\* Mutant: tokens that the ground truth does not have cost nothing.
ScoreOfKnown(n, g) ==
    LET known  == Cardinality(Tokens[n] \cap Vocabulary)
        common == Cardinality(Tokens[n] \cap Tokens[g])
    IN  IF common = 0 THEN 0
        ELSE (Full * common * common) \div (Cardinality(Tokens[g]) * known)

\* The cosine similarity of the known tokens, scaled by the share of the
\* tokens of n that are known (pre_match_nm), squared.
Score(n, g) ==
    LET known  == Cardinality(Tokens[n] \cap Vocabulary)
        common == Cardinality(Tokens[n] \cap Tokens[g])
        total  == Cardinality(Tokens[n])
    IN  IF common = 0 THEN 0
        ELSE (Full * common * common * known)
                \div (Cardinality(Tokens[g]) * total * total)

\* awesome_cossim_topn keeps what is above the lower bound,
Above(n, threshold) == {g \in GtRow : Score(n, g) > threshold}

\* Mutant: one candidate more than asked for.
TopNAndOne(n, topN, threshold) ==
    {SubSeq(s, 1, IF Len(s) > topN THEN topN + 1 ELSE Len(s)) :
        s \in {s \in SetToSeqs(Above(n, threshold)) :
                 \A i, j \in 1 .. Len(s) : i < j => Score(n, s[i]) >= Score(n, s[j])}}

\* and of that the topN best, best first; equal scores come in any order.
TopN(n, topN, threshold) ==
    LET sorted == {s \in SetToSeqs(Above(n, threshold)) :
                     \A i, j \in 1 .. Len(s) : i < j => Score(n, s[i]) >= Score(n, s[j])}
    IN  {IF Len(s) > topN THEN SubSeq(s, 1, topN) ELSE s : s \in sorted}

\* round(score, 4): the step that is nearest to Unit times the root of s / Full,
\* the even one of two.  A step r counts when the root is past r - 1/2.
Rounded(s) == Cardinality({r \in 1 .. Unit :
                 LET half == (2 * r - 1) * (2 * r - 1) * Full
                     root == 4 * Unit * Unit * s
                 IN  half < root \/ (half = root /\ r % 2 = 0)})

AnswerRow == [name: Name, row: GtRow \cup {NoRow}, score: 0 .. Unit]

\* Mutant: the score is the one the selection used.
JoinAsSelected(n, candidates) ==
    IF candidates = <<>>
    THEN <<[name |-> n, row |-> NoRow, score |-> 0]>>
    ELSE [i \in 1 .. Len(candidates) |->
            [name |-> n, row |-> candidates[i], score |-> Score(n, candidates[i])]]

\* JoinGTInfoTransformer and PostProcessingTransformer: a row per candidate,
\* with its score rounded, and one that says so for a name without any.
Join(n, candidates) ==
    IF candidates = <<>>
    THEN <<[name |-> n, row |-> NoRow, score |-> 0]>>
    ELSE [i \in 1 .. Len(candidates) |->
            [name |-> n, row |-> candidates[i], score |-> Rounded(Score(n, candidates[i]))]]

\* Matchers whose methods are placeholders.
Placeholder == {"edit_distance", "vector_approx"}

\* A name without a token divides by zero; a selected column that the ground
\* truth does not have raises a KeyError; what a placeholder returns for a
\* tensor has no size to log: all raise.
Fails(algorithm, keys, option) ==
    \/ MatcherOf(algorithm) \in Placeholder
    \/ keys = <<>>
    \/ \E i \in 1 .. Len(keys) : Tokens[keys[i]] = {}
    \/ ~(option.cols \subseteq GtColumn)

\* The answers transform may give: one sequence of rows, name after name.
Answers(keys, option) ==
    LET choices == {c \in [1 .. Len(keys) ->
                             UNION {TopN(keys[i], option.topN, option.threshold) :
                                      i \in 1 .. Len(keys)}] :
                      \A i \in 1 .. Len(keys) :
                         c[i] \in TopN(keys[i], option.topN, option.threshold)}
    IN  {FlattenSeq([i \in 1 .. Len(keys) |-> Join(keys[i], c[i])]) : c \in choices}

-----------------------------------------------------------------------------
(* What an answer should be, said without the steps that compute it.       *)

\* The rows for one key n: those of the best ground truth rows above the
\* threshold, top_n of them at most, each once and with its score rounded, best
\* first; a row left out is there only when top_n rows that are as good are in.
\* When no row is above the threshold, one row says so.  Rows are chosen and
\* ordered by their scores before rounding: a score reported may be equal to
\* the threshold, or below it by the rounding, though not below the threshold
\* when that is rounded too.
RightRows(rows, n, option) ==
    LET shown == {rows[i].row : i \in DOMAIN rows} IN
    /\ \A i \in DOMAIN rows : rows[i].name = n
    /\ \/ /\ Len(rows) = 1 /\ rows[1].row = NoRow /\ rows[1].score = 0
          /\ \A g \in GtRow : Score(n, g) <= option.threshold
       \/ /\ shown \subseteq GtRow
          /\ Len(rows) \in 1 .. option.topN
          /\ \A i \in DOMAIN rows : /\ rows[i].score = Rounded(Score(n, rows[i].row))
                                    /\ rows[i].score >= Rounded(option.threshold)
                                    /\ Score(n, rows[i].row) > option.threshold
          /\ \A i, j \in DOMAIN rows : i < j =>
                /\ rows[i].row # rows[j].row
                /\ rows[i].score >= rows[j].score
                /\ Score(n, rows[i].row) >= Score(n, rows[j].row)
          /\ \A g \in GtRow \ shown : Score(n, g) > option.threshold =>
                /\ Len(rows) = option.topN
                /\ \A i \in DOMAIN rows : Score(n, rows[i].row) >= Score(n, g)

\* An answer is right for keys and option when it falls into one part for each
\* key, in the order of the keys, which has the right rows for it.
RightAnswer(rows, keys, option) ==
    \E end \in [0 .. Len(keys) -> 0 .. Len(rows)] :
       /\ end[0] = 0 /\ end[Len(keys)] = Len(rows)
       /\ \A i \in 1 .. Len(keys) :
             /\ end[i - 1] <= end[i]
             /\ RightRows(SubSeq(rows, end[i - 1] + 1, end[i]), keys[i], option)
=============================================================================
