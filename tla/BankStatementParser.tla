------------------------ MODULE BankStatementParser ------------------------
(***************************************************************************)
(* The pure algorithms of BankStatementParser.java: the edit distance and  *)
(* the fuzzy match built on it, and the OFX parser that collects the       *)
(* fields of a statement line by line.  A text is a sequence of            *)
(* characters, an OFX line the name of its tag and a value.                *)
(***************************************************************************)
EXTENDS Integers, SequencesExt

Least(S) == CHOOSE n \in S : \A m \in S : n <= m
Greater(m, n) == IF m >= n THEN m ELSE n

-----------------------------------------------------------------------------
\* The table of the dynamic program: cell <<i, j>> is the distance between the
\* first i characters of a and the first j of b.

Cells(a, b) == (0 .. Len(a)) \X (0 .. Len(b))
Cost(a, b, i, j) == IF a[i] = b[j] THEN 0 ELSE 1

\* A slip in the table: the column of the empty second text left at zero.
ZeroColumnTable(a, b) ==
    LET dp[c \in Cells(a, b)] ==
            IF c[1] = 0 THEN c[2]
            ELSE IF c[2] = 0 THEN 0
            ELSE Least({dp[<<c[1] - 1, c[2]>>] + 1, dp[<<c[1], c[2] - 1>>] + 1,
                        dp[<<c[1] - 1, c[2] - 1>>] + Cost(a, b, c[1], c[2])})
    IN dp

LevenshteinTable(a, b) ==
    LET dp[c \in Cells(a, b)] ==
            IF c[1] = 0 THEN c[2]
            ELSE IF c[2] = 0 THEN c[1]
            ELSE Least({dp[<<c[1] - 1, c[2]>>] + 1, dp[<<c[1], c[2] - 1>>] + 1,
                        dp[<<c[1] - 1, c[2] - 1>>] + Cost(a, b, c[1], c[2])})
    IN dp

LevenshteinDistance(a, b) == LevenshteinTable(a, b)[<<Len(a), Len(b)>>]

\* similarity(a, b) as the fraction <<numerator, denominator>>.
Similarity(a, b) ==
    LET longest == Greater(Len(a), Len(b))
    IN IF longest = 0 THEN <<1, 1>>
       ELSE <<longest - LevenshteinDistance(a, b), longest>>

\* The mean of the two similarities reaches 0.8.  The code compares doubles;
\* here the comparison is exact.
FuzzyMatch(t, s) ==
    \/ t.amount = s.amount /\ t.date = s.date
    \/ LET a == Similarity(t.digits, s.digits)
           d == Similarity(t.text, s.text)
       IN 5 * (a[1] * d[2] + d[1] * a[2]) >= 8 * a[2] * d[2]

-----------------------------------------------------------------------------
\* parseOFX: four variables collect the fields, and the statement is made at
\* the line on which reference, amount and date are all known.

Fields == {"FITID", "TRNAMT", "DTPOSTED", "MEMO"}
Required == Fields \ {"MEMO"}
Null == "null"
Nothing == [f \in Fields |-> Null]

\* A slip: the fields are not forgotten once the statement is made.
OFXLineKeepsFields(acc, line) ==
    LET open == IF line.tag \in Fields
                THEN [acc.open EXCEPT ![line.tag] = line.value] ELSE acc.open
        done == \A f \in Required : open[f] # Null
    IN [open |-> open, made |-> IF done THEN Append(acc.made, open) ELSE acc.made]

OFXLine(acc, line) ==
    LET open == IF line.tag \in Fields
                THEN [acc.open EXCEPT ![line.tag] = line.value] ELSE acc.open
        done == \A f \in Required : open[f] # Null
    IN [open |-> IF done THEN Nothing ELSE open,
        made |-> IF done THEN Append(acc.made, open) ELSE acc.made]

\* What is open and what is made after each number of lines.
Collected(lines) ==
    LET acc[n \in 0 .. Len(lines)] ==
            IF n = 0 THEN [open |-> Nothing, made |-> <<>>]
            ELSE OFXLine(acc[n - 1], lines[n])
    IN acc

ParseOFX(lines) == Collected(lines)[Len(lines)].made

-----------------------------------------------------------------------------
\* parseCSV and parseCNAB: one statement for each line that is long enough,
\* past the header and of the detail type; a field that is no number or no
\* date throws, and then nothing of the file is imported.

Detail(line) == line.tag = "detail"

ParseLines(lines) ==
    IF \E i \in DOMAIN lines : Detail(lines[i]) /\ lines[i].value = Null
    THEN <<>> ELSE SelectSeq(lines, Detail)

-----------------------------------------------------------------------------
\* What the algorithms are to compute.

\* Ways to lay the first word over the second without crossing.
Overlays(a, b) ==
    {M \in SUBSET ((1 .. Len(a)) \X (1 .. Len(b))) :
        \A p, q \in M : p # q => (p[1] < q[1] /\ p[2] < q[2]) \/ (q[1] < p[1] /\ q[2] < p[2])}

Edits(a, b, M) ==
    Len(a) + Len(b) - 2 * Cardinality(M) + Cardinality({p \in M : a[p[1]] # b[p[2]]})

\* The table holds the least number of insertions, deletions and substitutions
\* that turn one text into the other.
DistanceIsLeastEdits(a, b) ==
    LevenshteinDistance(a, b) = Least({Edits(a, b, M) : M \in Overlays(a, b)})

\* A file of complete entries: entry e has the four tags in the order tags[e],
\* each with the value values[e].
TagOrders == {o \in [1 .. 4 -> Fields] : ToSet(o) = Fields}
EntryAt(n) == (n - 1) \div 4 + 1

FileOfEntries(tags, values) ==
    [n \in 1 .. 4 * Len(tags) |->
        [tag |-> tags[EntryAt(n)][((n - 1) % 4) + 1], value |-> values[EntryAt(n)]]]

MemoInTime(o) == o[4] # "MEMO"

MemoOf(tags, values, e) ==
    IF MemoInTime(tags[e]) THEN values[e]
    ELSE IF e > 1 /\ ~MemoInTime(tags[e - 1]) THEN values[e - 1]
    ELSE Null

\* Every statement has the reference, the amount and the date of one entry,
\* whatever the order of the tags.  The memo is the entry's own only if one of
\* those three follows it; a memo that comes last goes to the next statement,
\* unless that one has its own in time.
EntriesKeepTogether(tags, values) ==
    ParseOFX(FileOfEntries(tags, values))
        = [e \in DOMAIN tags |->
              [f \in Fields |-> IF f = "MEMO" THEN MemoOf(tags, values, e) ELSE values[e]]]
=============================================================================
