------------------------------- MODULE Encoder -------------------------------
(***************************************************************************)
(* From a constraint system to the polynomials of the Gröbner engine       *)
(* (picus-solver/src/frontend/, gb/linsolve.rs): linear elimination,        *)
(* compaction, rewriting, bitsum extraction, encoding with provenance, and  *)
(* the equalities that bits and bitsums give.  Pure operators; RECURSIVE.   *)
(*                                                                          *)
(* A system is a record                                                     *)
(*   names   - the variable frame; variables are its positions              *)
(*   eqs     - term lists that are zero     diseqs  - pairs that differ     *)
(*   assigns - <<variable, value>>          bitsums - chains of variables   *)
(*   field   - whether x^p = x is to be added                               *)
(* Exponent pairs are repeated variables; the order of terms in a list is   *)
(* told apart only where the code picks by position.                        *)
(***************************************************************************)
EXTENDS Terms, FiniteSetsExt

CONSTANTS
    FieldPolyLimit,  \* the largest prime that gets field polynomials (1000 in the code)
    MaxRingVars      \* the widest ring (5000 in the code)

X(i) == [c |-> 1, m |-> <<i>>]
Constant(k) == [c |-> k, m |-> <<>>]
Positions(seq) == [i \in DOMAIN seq |-> i]

EmptySystem(names, field) ==
    [names |-> names, eqs |-> <<>>, diseqs |-> <<>>, assigns |-> <<>>, bitsums |-> <<>>,
     field |-> field]

WithName(sys, name) ==
    IF name \in ToSet(sys.names) THEN sys ELSE [sys EXCEPT !.names = Append(@, name)]
IndexOf(sys, name) == CHOOSE i \in DOMAIN sys.names : sys.names[i] = name

\* fresh_disequality_vars: d_k and the shared zero, assigned when it is made.
FreshDisequality(sys) ==
    LET d == WithName(sys, <<"d", Len(sys.diseqs)>>)
        z == WithName(d, <<"zero">>)
    IN  IF <<"zero">> \in ToSet(d.names) THEN d
        ELSE [z EXCEPT !.assigns = Append(@, <<Len(z.names), 0>>)]

AddLiteral(sys, lit, p) ==
    IF lit[1] = "eq" THEN [sys EXCEPT !.eqs = Append(@, lit[2] \o Negated(lit[3], p))]
    ELSE LET s == FreshDisequality(sys)
             d == IndexOf(s, <<"d", Len(sys.diseqs)>>)
         IN  [s EXCEPT !.eqs = Append(@, <<X(d)>> \o Negated(lit[2], p) \o lit[3]),
                       !.diseqs = Append(@, <<d, IndexOf(s, <<"zero">>)>>)]

\* to_disjunct_systems, for one disjunct.
RECURSIVE DisjunctSystem(_, _, _)
DisjunctSystem(lits, sys, p) ==
    IF lits = <<>> THEN sys ELSE DisjunctSystem(Tail(lits), AddLiteral(sys, Head(lits), p), p)

-------------------------------------------------------------------------------
(* Linear elimination: a Gröbner basis of linear polynomials is an echelon   *)
(* form, and the normal form modulo it replaces every leading variable.      *)

IsLinear(ts) == \A i \in DOMAIN ts : Len(ts[i].m) <= 1
Leading(ts) == Min(Variables(ts))

ReplaceOnce(t, v, by) ==
    IF v \notin ToSet(t.m) THEN <<t>>
    ELSE [j \in DOMAIN by |-> [c |-> t.c * by[j].c, m |-> RemoveFirst(t.m, v) \o by[j].m]]
RECURSIVE Substitute(_, _, _, _)
Substitute(ts, v, by, p) ==
    IF v \notin Variables(ts) THEN ts
    ELSE Substitute(Normalize(FlattenSeq([i \in DOMAIN ts |-> ReplaceOnce(ts[i], v, by)]), p), v, by, p)

Scaled(ts, k, p) == [i \in DOMAIN ts |-> [ts[i] EXCEPT !.c = (@ * k) % p]]
\* A row says that its leading variable is `tail`.
Row(ts, p) ==
    LET v == Leading(ts)
        lead == CHOOSE i \in DOMAIN ts : ts[i].m = <<v>>
    IN  [v |-> v, tail |-> Negated(Scaled(RemoveAt(ts, lead), FieldInverse(ts[lead].c, p), p), p)]
RowPolynomial(row, p) == <<X(row.v)>> \o Negated(row.tail, p)

RECURSIVE Reduced(_, _, _)
Reduced(ts, rows, p) ==
    IF rows = <<>> THEN ts ELSE Reduced(Substitute(ts, rows[1].v, rows[1].tail, p), Tail(rows), p)

\* The rows of the linear polynomials, or one row without a variable.
Inconsistency == << [v |-> 0, tail |-> <<>>] >>
RECURSIVE Echelon(_, _, _)
Echelon(linear, rows, p) ==
    IF linear = <<>> THEN rows
    ELSE LET ts == Reduced(Normalize(linear[1], p), rows, p)
             row == Row(ts, p)
             others == [i \in DOMAIN rows |->
                          [rows[i] EXCEPT !.tail = Substitute(@, row.v, row.tail, p)]]
         IN  IF ts = <<>> THEN Echelon(Tail(linear), rows, p)
             ELSE IF Variables(ts) = {} THEN Inconsistency
             ELSE Echelon(Tail(linear), Append(others, row), p)

\* eliminate_linear: the new equalities, or <<>> when it does not apply.
EliminateLinear(eqs, p) ==
    LET norm == SelectSeq([i \in DOMAIN eqs |-> Normalize(eqs[i], p)], LAMBDA ts : ts # <<>>)
        linear == SelectSeq(norm, IsLinear)
        nonlinear == SelectSeq(norm, LAMBDA ts : ~IsLinear(ts))
        rows == Echelon(linear, <<>>, p)
        reduced == [i \in DOMAIN nonlinear |-> Reduced(nonlinear[i], rows, p)]
    IN  IF linear = <<>> \/ nonlinear = <<>> THEN <<>>
        ELSE IF rows = Inconsistency THEN << <<Constant(1)>> >>
        ELSE [i \in DOMAIN rows |-> RowPolynomial(rows[i], p)]
             \o SelectSeq(reduced, LAMBDA ts : ts # <<>>)

-------------------------------------------------------------------------------
(* Compaction and rewriting. *)

Used(sys) ==
    UNION {Variables(sys.eqs[i]) : i \in DOMAIN sys.eqs}
    \cup UNION {ToSet(sys.diseqs[i]) : i \in DOMAIN sys.diseqs}
    \cup {sys.assigns[i][1] : i \in DOMAIN sys.assigns}
    \cup UNION {ToSet(sys.bitsums[i]) : i \in DOMAIN sys.bitsums}

CompactUsed(sys) ==
    LET kept == SelectSeq(Positions(sys.names), LAMBDA i : i \in Used(sys))
        new(i) == CHOOSE k \in DOMAIN kept : kept[k] = i
        all(seq) == [j \in DOMAIN seq |-> new(seq[j])]
    IN  [names |-> [k \in DOMAIN kept |-> sys.names[kept[k]]],
         eqs |-> [i \in DOMAIN sys.eqs |->
                    [j \in DOMAIN sys.eqs[i] |-> [sys.eqs[i][j] EXCEPT !.m = all(@)]]],
         diseqs |-> [i \in DOMAIN sys.diseqs |-> all(sys.diseqs[i])],
         assigns |-> [i \in DOMAIN sys.assigns |-> <<new(sys.assigns[i][1]), sys.assigns[i][2]>>],
         bitsums |-> [i \in DOMAIN sys.bitsums |-> all(sys.bitsums[i])],
         field |-> sys.field]

RewriteSystem(sys, p) ==
    LET eqs == [i \in DOMAIN sys.eqs |-> Normalize(sys.eqs[i], p)]
    IN  [sys EXCEPT !.eqs = SelectSeq(eqs, LAMBDA ts : ts # <<>>)]

-------------------------------------------------------------------------------
(* Bitsums. *)

Fits(len, p) == 2^len <= p
LongestChain(p) == Max({k \in 0..p : Fits(k, p)})

\* The variable of b * (b - 1) = 0, in any scale, as a sequence.
BitConstraint(ts, p) ==
    IF /\ Len(ts) = 2 /\ (ts[1].c + ts[2].c) % p = 0
       /\ \E b \in Variables(ts) : {ts[1].m, ts[2].m} = {<<b>>, <<b, b>>}
    THEN <<ts[1].m[1]>> ELSE <<>>
BitsAmong(polys, p) ==
    UNION {ToSet(BitConstraint(polys[i], p)) : i \in DOMAIN polys}

\* The terms c*b, 2c*b', 4c*b'', ... of known bits, found from coefficient c on.
RECURSIVE ChainFrom(_, _, _, _, _)
ChainFrom(ts, bits, c, chain, p) ==
    LET next == {i \in DOMAIN ts : /\ Len(ts[i].m) = 1 /\ ts[i].m[1] \in bits /\ ts[i].c = c
                                   /\ \A k \in DOMAIN chain : ts[chain[k]].m # ts[i].m}
    IN  IF next = {} \/ Len(chain) = LongestChain(p) THEN chain
        ELSE ChainFrom(ts, bits, (2 * c) % p, Append(chain, Min(next)), p)

\* Bases in the order of their distance from zero; the longest chain wins.
FindBitsumChain(ts, bits, p) ==
    LET bases == {ts[i].c : i \in {k \in DOMAIN ts : Len(ts[k].m) = 1 /\ ts[k].m[1] \in bits}}
        chain(c) == ChainFrom(ts, bits, c, <<>>, p)
        dist(c) == Min({c, p - c})
        earlier(a, b) == dist(a) < dist(b) \/ (dist(a) = dist(b) /\ a < b)
        best == CHOOSE c \in bases :
                   \A b \in bases \ {c} : \/ Len(chain(c)) > Len(chain(b))
                                          \/ Len(chain(c)) = Len(chain(b)) /\ earlier(c, b)
    IN  IF bases = {} \/ Len(chain(best)) < 2 THEN <<>> ELSE chain(best)

\* The ring's variables: the system's, a witness for each disequality, a sum for
\* each bitsum.
AuxIndexNoWitness(n, diseqs, k) == n + k
AuxIndex(n, diseqs, k) == n + diseqs + k

RECURSIVE ExtractFrom(_, _, _, _)
ExtractFrom(ts, sys, bits, p) ==
    LET chain == FindBitsumChain(ts, bits, p)
        aux == AuxIndex(Len(sys.names), Len(sys.diseqs), Len(sys.bitsums) + 1)
        rest == SelectSeq(Positions(ts), LAMBDA i : i \notin ToSet(chain))
    IN  IF chain = <<>> THEN [sys EXCEPT !.eqs = Append(@, ts)]
        ELSE ExtractFrom([k \in DOMAIN rest |-> ts[rest[k]]] \o <<[c |-> ts[chain[1]].c, m |-> <<aux>>]>>,
                         [sys EXCEPT !.bitsums = Append(@, [k \in DOMAIN chain |-> ts[chain[k]].m[1]])],
                         bits, p)
RECURSIVE ExtractAll(_, _, _, _)
ExtractAll(eqs, sys, bits, p) ==
    IF eqs = <<>> THEN sys ELSE ExtractAll(Tail(eqs), ExtractFrom(Head(eqs), sys, bits, p), bits, p)
AutoExtractBitsums(sys, p) ==
    LET bits == UNION {ToSet(sys.bitsums[i]) : i \in DOMAIN sys.bitsums} \cup BitsAmong(sys.eqs, p)
    IN  IF bits = {} THEN sys ELSE ExtractAll(sys.eqs, [sys EXCEPT !.eqs = <<>>], bits, p)

-------------------------------------------------------------------------------
(* Encoding.  A polynomial is a term list in the order of the ring, largest    *)
(* first, with leading coefficient one.                                        *)

\* Degree first; then the smaller power of the last variable that differs.
DegRevLexAbove(s, t) ==
    \/ Len(s.m) > Len(t.m)
    \/ /\ Len(s.m) = Len(t.m)
       /\ \E i \in DOMAIN s.m : s.m[i] < t.m[i] /\ \A j \in (i + 1)..Len(s.m) : s.m[j] = t.m[j]
Monic(ts, p) == IF ts = <<>> THEN ts ELSE Scaled(ts, FieldInverse(ts[1].c, p), p)
Polynomial(ts, p) == Monic(SortSeq(Normalize(ts, p), DegRevLexAbove), p)

RingNames(sys) ==
    sys.names \o [k \in DOMAIN sys.diseqs |-> <<"w", k>>] \o [k \in DOMAIN sys.bitsums |-> <<"sum", k>>]

\* (a - b) * w - 1
Rabinowitsch(a, b, w, p) ==
    Polynomial(<<[c |-> 1, m |-> <<a, w>>], [c |-> p - 1, m |-> <<b, w>>], Constant(p - 1)>>, p)
BitsumTerms(chain) == [k \in DOMAIN chain |-> [c |-> 2^(k - 1), m |-> <<chain[k]>>]]
FieldPolynomial(v, p) ==
    Polynomial(<<[c |-> 1, m |-> [k \in 1..p |-> v]], [c |-> p - 1, m |-> <<v>>]>>, p)

From(source, ts) == [ts |-> ts, source |-> source]

\* encode_impl.  `polys` and their sources; `sums` the definitions of the bitsums.
EncodeSystem(sys, emit, p) ==
    LET names == RingNames(sys)
        eqs == [j \in DOMAIN sys.eqs |-> From(<<"eq", j>>, Polynomial(sys.eqs[j], p))]
        fixed == [k \in DOMAIN sys.assigns |->
                    From(<<"other">>, Polynomial(<<X(sys.assigns[k][1]), Constant(p - sys.assigns[k][2])>>, p))]
        apart == [k \in DOMAIN sys.diseqs |->
                    From(<<"rab", k>>, Rabinowitsch(sys.diseqs[k][1], sys.diseqs[k][2], Len(sys.names) + k, p))]
        closed == [v \in DOMAIN names |-> From(<<"other">>, FieldPolynomial(v, p))]
    IN  [names |-> names,
         polys |-> SelectSeq(eqs, LAMBDA f : f.ts # <<>>) \o fixed
                   \o (IF emit THEN apart ELSE <<>>)
                   \o (IF sys.field /\ p <= FieldPolyLimit THEN closed ELSE <<>>),
         inputs |-> Len(sys.eqs),
         sums |-> [k \in DOMAIN sys.bitsums |->
                     Polynomial(Append(BitsumTerms(sys.bitsums[k]),
                                       [c |-> p - 1, m |-> <<AuxIndex(Len(sys.names), Len(sys.diseqs), k)>>]), p)]]

Prepared(sys, p) == AutoExtractBitsums(RewriteSystem(CompactUsed(sys), p), p)
TooWide(sys, p) == Len(RingNames(Prepared(sys, p))) > MaxRingVars
Encode(sys, p) == EncodeSystem(Prepared(sys, p), TRUE, p)

\* The cached path encodes without the witnesses' polynomials and adds those of
\* the query's disequalities, resolved by name.
QueryDisequalities(sys, names, p) ==
    LET at(name) == CHOOSE i \in DOMAIN names : names[i] = name
    IN  [k \in DOMAIN sys.diseqs |->
           From(<<"rab", k>>, Rabinowitsch(at(sys.names[sys.diseqs[k][1]]), at(sys.names[sys.diseqs[k][2]]),
                                           at(<<"w", k>>), p))]
EncodeCached(sys, p) ==
    LET base == EncodeSystem(Prepared(sys, p), FALSE, p)
    IN  [base EXCEPT !.polys = @ \o QueryDisequalities(sys, base.names, p)]

\* A consumer of a core may blame its own constraints when none was dropped.
AlignedAlways(sys, enc) == TRUE
Aligned(sys, enc) == enc.inputs = Len(sys.eqs)

-------------------------------------------------------------------------------
(* Bits and bitsums of the encoded polynomials, and what they propagate. *)

Linears(ts) == SelectSeq(ts, LAMBDA t : Len(t.m) = 1)

\* From one linear term on, the first of those left with twice the coefficient.
RECURSIVE GreedyChain(_, _, _)
GreedyChain(linears, chain, p) ==
    LET c == (2 * linears[chain[Len(chain)]].c) % p
        next == {i \in DOMAIN linears : i \notin ToSet(chain) /\ linears[i].c = c}
    IN  IF next = {} THEN chain ELSE GreedyChain(linears, Append(chain, Min(next)), p)

RECURSIVE SwapRemove(_, _)
SwapRemove(seq, positions) ==
    IF positions = {} THEN seq
    ELSE SwapRemove(SubSeq([seq EXCEPT ![Max(positions)] = seq[Len(seq)]], 1, Len(seq) - 1),
                    positions \ {Max(positions)})

RECURSIVE BitSums(_, _, _)
BitSums(linears, hint, p) ==
    LET hinted == SelectSeq(Positions(linears), LAMBDA i : linears[i].m[1] \in hint)
        order == hinted \o SelectSeq(Positions(linears), LAMBDA i : linears[i].m[1] \notin hint)
        chains == [k \in DOMAIN order |-> GreedyChain(linears, <<order[k]>>, p)]
        longest == {k \in DOMAIN order : \A l \in DOMAIN order : Len(chains[l]) <= Len(chains[k])}
        chain == chains[Min(longest)]
    IN  IF linears = <<>> THEN <<>>
        ELSE IF Len(chain) < 2 THEN <<>>
        ELSE <<[k \in DOMAIN chain |-> linears[chain[k]].m[1]]>>
             \o BitSums(SwapRemove(linears, ToSet(chain)), hint, p)

Populate(prop, polys, p) ==
    LET bits == prop.bits \cup BitsAmong(polys, p)
    IN  [bits |-> bits,
         sums |-> prop.sums \o FlattenSeq([i \in DOMAIN polys |-> BitSums(Linears(polys[i]), bits, p)])]
BitProp(enc, p) ==
    Populate(Populate([bits |-> {}, sums |-> <<>>], [i \in DOMAIN enc.polys |-> enc.polys[i].ts], p), enc.sums, p)

Bit(value, i) == (value \div 2^(i - 1)) % 2

(***************************************************************************)
(* get_bit_equalities.  What a basis proves vanishes at the common zeros    *)
(* `zs`, so every test of the bases is replaced by the test at the zeros:   *)
(* it succeeds whenever a basis's does.                                     *)
(***************************************************************************)
IsBit(prop, v, zs) == v \in prop.bits \/ \A z \in zs : z[v] \in {0, 1}
SumAt(chain, z, p) == ValueAt(BitsumTerms(chain), z, p)
AllBits(prop, chain, zs) == \A k \in DOMAIN chain : IsBit(prop, chain[k], zs)

Pinned(prop, chain, zs, p) ==
    /\ Fits(Len(chain), p)
    /\ \A z, y \in zs : SumAt(chain, z, p) = SumAt(chain, y, p)
    /\ AllBits(prop, chain, zs)
PinnedBits(chain, zs, p) ==
    LET value == SumAt(chain, CHOOSE z \in zs : TRUE, p)
    IN  IF value >= 2^Len(chain) THEN { <<Constant(1)>> }
        ELSE {<<X(chain[k]), Constant(p - Bit(value, k))>> : k \in DOMAIN chain}

Agree(prop, a, b, zs, p) ==
    /\ Fits(Max({Len(a), Len(b)}), p)
    /\ \A z \in zs : SumAt(a, z, p) = SumAt(b, z, p)
    /\ AllBits(prop, a, zs) /\ AllBits(prop, b, zs)
Bitwise(a, b, p) ==
    {<<X(a[k]), [c |-> p - 1, m |-> <<b[k]>>]>> : k \in DOMAIN a \cap DOMAIN b}
    \cup {<<X(a[k])>> : k \in DOMAIN a \ DOMAIN b} \cup {<<X(b[k])>> : k \in DOMAIN b \ DOMAIN a}

BitEqualities(prop, zs, p) ==
    LET constant == {i \in DOMAIN prop.sums : Pinned(prop, prop.sums[i], zs, p)}
        others == DOMAIN prop.sums \ constant
    IN  IF zs = {} THEN {}
        ELSE UNION {PinnedBits(prop.sums[i], zs, p) : i \in constant}
             \cup UNION {Bitwise(prop.sums[i], prop.sums[j], p) :
                           <<i, j>> \in {ij \in others \X others : /\ ij[2] < ij[1]
                                              /\ Agree(prop, prop.sums[ij[1]], prop.sums[ij[2]], zs, p)}}

-------------------------------------------------------------------------------
(* Zeros: points are extended one variable at a time. *)

Vanishing(polys, x, p) == \A i \in DOMAIN polys : ValueAt(polys[i], x, p) = 0
RECURSIVE ZerosFrom(_, _, _, _)
ZerosFrom(points, polys, n, p) ==
    LET k == IF points = {} THEN 0 ELSE Len(CHOOSE x \in points : TRUE) + 1
        now == SelectSeq(polys, LAMBDA ts : Variables(ts) # {} /\ Max(Variables(ts)) = k)
    IN  IF points = {} \/ k > n THEN points
        ELSE ZerosFrom({x \in {Append(y, v) : y \in points, v \in 0..(p - 1)} : Vanishing(now, x, p)}, polys, n, p)
ZeroSet(polys, n, p) ==
    IF \E i \in DOMAIN polys : Variables(polys[i]) = {} /\ Normalize(polys[i], p) # <<>> THEN {}
    ELSE ZerosFrom({<<>>}, polys, n, p)
===============================================================================
