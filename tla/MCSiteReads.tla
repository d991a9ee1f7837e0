---------------------------- MODULE MCSiteReads -----------------------------
(***************************************************************************)
(* Small instances of SiteReads: a leader, up to two followers and two     *)
(* expansions, in rows of any order, some silent about their serial        *)
(* number, some nearly empty, with a ghost or an empty slot between them;  *)
(* a configuration that may be out of date; and a gateway that has just    *)
(* restarted.                                                              *)
(***************************************************************************)
EXTENDS SiteReads, TLC

Din(s) == [part |-> "pack", serial |-> s]
Leader == Din("L")

\* Rows behind the leader's, each with the pack that it is of.
Row(owner, serials, full, remaining) ==
    [owner |-> owner, serials |-> serials, full |-> full, remaining |-> remaining]

Silent == <<NoSerial, NoSerial, NoSerial, NoSerial>>

LeaderRow == Row(Leader, <<"module", NoSerial, "L", NoSerial>>, 14400, 10000)
F == Row(Din("F"), Silent, 14400, 10000)
G == Row(Din("G"), Silent, 14400, 300)
X == Row(Din("X"), <<NoSerial, "X", NoSerial, "box">>, 14400, 10000)
SilentX == Row(Din("X"), Silent, 14400, 300)
Y == Row(Din("Y"), <<NoSerial, NoSerial, NoSerial, "Y">>, 14400, -1)
Ghost == Row(NoDin, Silent, 14400, 100)
Empty == Row(NoDin, Silent, 0, 0)
RowKinds == {F, G, X, SilentX, Y, Ghost, Empty}
Threes == {{F, G, X}, {F, X, Y}, {F, X, Ghost}, {G, Y, Empty}, {SilentX, Y, Ghost}}

RowLists == {<< >>, <<LeaderRow>>}
            \cup {<<LeaderRow, a>> : a \in RowKinds}
            \cup {<<LeaderRow, a, b>> : a, b \in RowKinds}
            \cup UNION {{<<LeaderRow, a, b, c>> :
                            a \in S, b \in S, c \in S} : S \in Threes}
            \cup {<<LeaderRow, a, b, c, d>> : a, b, c, d \in {F, G, X, Y}}

OncePerPack(list) == \A i, j \in DOMAIN list :
    list[i].owner = list[j].owner /\ list[i].owner # NoDin => i = j

Expansion(s, b) == [block |-> b, din |-> Din(s)]
ExpansionLists == {<< >>, <<Expansion("X", 0)>>,
                   <<Expansion("Y", 0), Expansion("X", 1)>>}
PowerwallLists == {<<Leader>>, <<Leader, Din("F")>>, <<Leader, Din("F"), Din("G")>>}

SumOfFull(list) == MapThenFoldSet(LAMBDA x, y : x + y, 0,
                                  LAMBDA i : list[i].full,
                                  LAMBDA S : CHOOSE i \in S : TRUE,
                                  {i \in DOMAIN list : list[i].owner # NoDin})

\* A site with these rows, all Powerwalls in the status, the first blocks of
\* them in the configuration.
Site(list, powerwalls, blocks, expansions, percent) ==
    [blocks     |-> SubSeq(powerwalls, 1, blocks),
     expansions |-> expansions,
     dins       |-> powerwalls,
     aggregate  |-> SumOfFull(list),
     rows       |-> [i \in 0 .. Len(list) - 1 |->
                        [serials |-> list[i + 1].serials, full |-> list[i + 1].full,
                         remaining |-> list[i + 1].remaining]],
     charge     |-> 20,
     owner      |-> [i \in 0 .. Len(list) - 1 |-> list[i + 1].owner],
     asked      |-> percent,
     reserve    |-> Buffer + 9500 * percent]

Owners(list) == {list[i].owner : i \in DOMAIN list}
Followers == {Din("F"), Din("G")}

\* Each list of rows with the Powerwalls it is of, or with one that is silent,
\* those that have expansions in the configuration and the others only in the
\* status; and the leader alone with several reserves and levels.
AnySite ==
    {Site(list, powerwalls, blocks, expansions, 20) :
        <<list, powerwalls, blocks, expansions>> \in
           {x \in RowLists \X PowerwallLists \X {1, 2} \X ExpansionLists :
               /\ OncePerPack(x[1])
               /\ Owners(x[1]) \cap Followers \subseteq {x[2][i] : i \in DOMAIN x[2]}
               /\ x[3] = Cardinality({x[4][i].block : i \in DOMAIN x[4]} \cup {0})
               /\ x[3] <= Len(x[2])
               /\ Len(x[2]) <= 2
                               + Cardinality(Owners(x[1]) \cap Followers)}}
    \cup {[Site(<<LeaderRow>>, <<Leader>>, 1, << >>, percent) EXCEPT !.charge = n] :
             percent \in {0, 1, 5, 7, 33, 95, 99, 100}, n \in {0, 1, 2, 15, 38, 40}}
=============================================================================
