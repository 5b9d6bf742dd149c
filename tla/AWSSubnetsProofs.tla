--------------------------- MODULE AWSSubnetsProofs ---------------------------
(***************************************************************************)
(* Proofs about AWSSubnets, for every finite set of subnets, any number of *)
(* route tables, any size of a page and every bound.                       *)
(***************************************************************************)
EXTENDS AWSSubnets, FiniteSetTheorems, SequenceTheorems, WellFoundedInduction, TLAPS

-----------------------------------------------------------------------------
(* The first and the last of a set of positions.                           *)

\* FirstOf finds an element: the loop over the subnets that are public stops at one.
LEMMA FirstOfElement ==
    ASSUME NEW found \in SUBSET Nat, found # {}
    PROVE  FirstOf(found) \in found
<1>1. PICK k \in found : \A l \in found : ~(<<l, k>> \in OpToRel(<, Nat))
  BY NatLessThanWellFounded, WFMin
<1>2. \A l \in found : ~(l < k)
  <2> SUFFICES ASSUME NEW l \in found, l < k PROVE FALSE
    OBVIOUS
  <2>1. <<l, k>> \in Nat \X Nat
    OBVIOUS
  <2>2. <<l, k>> \in OpToRel(<, Nat)
    BY <2>1 DEF OpToRel
  <2> QED
    BY <1>1, <2>2
<1>3. \E j \in found : \A l \in found : j <= l
  <2>1. \A l \in found : k <= l
    BY <1>2
  <2> QED
    BY <2>1
<1> QED
  BY <1>3 DEF FirstOf

\* LastOf of one position is that position.
LEMMA LastOfSingle ==
    ASSUME NEW k \in Nat
    PROVE  LastOf({k}) = k
BY DEF LastOf

-----------------------------------------------------------------------------
(* The inductive invariant.                                                *)

Selecting == {"select", "done", "noPublicSubnets"}

\* What the loops have collected is the VPC, if nobody changed it: a loop that is left
\* got everything with its one reply, and one that goes on never leaves.
ReadInv ==
    drift = 0 =>
        /\ pc = "master" => subnetIDs = <<>>
        /\ pc = "describeSubnets" /\ ~NextToken(vpc.subnets) => subnetIDs = <<>>
        /\ pc \in Selecting \cup {"describeRouteTables"} => subnetIDs = vpc.subnets
        /\ pc = "describeRouteTables" /\ ~NextToken(RouteTables(vpc)) => routeTables = <<>>
        /\ pc \in Selecting => routeTables = RouteTables(vpc)

IInv ==
    /\ TypeOK /\ WellFormed(vpc)
    /\ pc \in {"master", "describeSubnets"} => routeTables = <<>>
    /\ ReadInv /\ SelectionRight

-----------------------------------------------------------------------------
(* Sequences of the model: the list of subnets, the list of route tables.  *)

\* The list of the VPC's subnets is a sequence, without repetition.
LEMMA SubnetList ==
    ASSUME NEW v \in VPC
    PROVE  /\ v.subnets \in Seq(Subnets)
           /\ \A j, k \in DOMAIN v.subnets : j # k => v.subnets[j] # v.subnets[k]
<1>1. PICK n \in 0..Cardinality(Subnets) : v.subnets \in [1..n -> Subnets]
  BY DEF VPC
<1>2. n \in Nat
  BY <1>1, FS_CardinalityType, SubnetsAssumption
<1>3. v.subnets \in Seq(Subnets)
  BY <1>1, <1>2, SeqDef
<1> QED
  BY <1>3 DEF VPC

\* A sequence of different subnets is no longer than there are subnets.
LEMMA NoRepetition ==
    ASSUME NEW q \in Seq(Subnets),
           \A j, k \in DOMAIN q : j # k => q[j] # q[k]
    PROVE  q \in UNION {[1..n -> Subnets] : n \in 0..Cardinality(Subnets)}
<1>1. Len(q) \in Nat /\ q \in [1..Len(q) -> Subnets] /\ DOMAIN q = 1..Len(q)
  BY LenProperties
<1>2. IsFiniteSet(1..Len(q)) /\ Cardinality(1..Len(q)) = Len(q)
  <2>1. \A a, b \in Int : /\ IsFiniteSet(a..b)
                          /\ Cardinality(a..b) = IF a > b THEN 0 ELSE b - a + 1
    BY FS_Interval
  <2>2. 1 \in Int /\ Len(q) \in Int
    BY <1>1
  <2>3. /\ IsFiniteSet(1..Len(q))
        /\ Cardinality(1..Len(q)) = IF 1 > Len(q) THEN 0 ELSE Len(q) - 1 + 1
    BY <2>1, <2>2
  <2> QED
    BY <1>1, <2>3
<1>3. q \in Injection(1..Len(q), Subnets)
  BY <1>1 DEF Injection, IsInjective
<1>4. Cardinality(1..Len(q)) <= Cardinality(Subnets)
  BY <1>2, <1>3, SubnetsAssumption, FS_Injection
<1>5. Len(q) \in 0..Cardinality(Subnets)
  BY <1>1, <1>2, <1>4, FS_CardinalityType, SubnetsAssumption
<1> QED
  BY <1>1, <1>5

\* A reply is a sequence of what is listed, and everything when there is no NextToken.
LEMMA PageType ==
    ASSUME NEW S, NEW q \in Seq(S)
    PROVE  Page(q) \in Seq(S) /\ (~NextToken(q) => Page(q) = q)
<1>1. Len(q) \in Nat
  BY LenProperties
<1>2. CASE Len(q) < PageSize
  <2>1. Page(q) = SubSeq(q, 1, Len(q))
    BY <1>2 DEF Page
  <2> QED
    BY <2>1, SubSeqFull
<1>3. CASE ~(Len(q) < PageSize)
  <2>1. Page(q) = SubSeq(q, 1, PageSize)
    BY <1>3 DEF Page
  <2>2. PageSize \in 1..Len(q)
    BY <1>1, <1>3, BoundsAssumption
  <2>3. SubSeq(q, 1, PageSize) \in Seq(S)
    BY <1>1, <2>2, SubSeqProperties
  <2>4. ~NextToken(q) => PageSize = Len(q)
    BY <1>1, <2>2 DEF NextToken
  <2> QED
    BY <2>1, <2>3, <2>4, SubSeqFull
<1> QED
  BY <1>2, <1>3

\* What DescribeRouteTables has to say is one entry for each table.
LEMMA RouteTablesType ==
    ASSUME NEW v \in VPC
    PROVE  /\ RouteTables(v) \in Seq(RouteTable)
           /\ DOMAIN RouteTables(v) = 1..v.tables
           /\ \A t \in 1..v.tables :
                /\ \A s \in Subnets : s \in RouteTables(v)[t].associations <=> v.table[s] = t
                /\ RouteTables(v)[t].main <=> t = v.main
                /\ RouteTables(v)[t].igw <=> t \in v.igw
<1>1. v.tables \in 1..MaxTables
  BY DEF VPC, Tables
<1>2. \A t \in 1..v.tables :
        [id |-> t, associations |-> {s \in Subnets : v.table[s] = t},
         main |-> t = v.main, igw |-> t \in v.igw] \in RouteTable
  BY <1>1, BoundsAssumption DEF RouteTable, Tables
<1>3. RouteTables(v) \in [1..v.tables -> RouteTable]
  BY <1>2 DEF RouteTables
<1>4. RouteTables(v) \in Seq(RouteTable)
  BY <1>1, <1>3, SeqDef, BoundsAssumption
<1>5. ASSUME NEW t \in 1..v.tables
      PROVE  /\ \A s \in Subnets : s \in RouteTables(v)[t].associations <=> v.table[s] = t
             /\ RouteTables(v)[t].main <=> t = v.main
             /\ RouteTables(v)[t].igw <=> t \in v.igw
  <2>1. RouteTables(v)[t] = [id |-> t, associations |-> {s \in Subnets : v.table[s] = t},
                             main |-> t = v.main, igw |-> t \in v.igw]
    BY DEF RouteTables
  <2>2. RouteTables(v)[t].associations = {s \in Subnets : v.table[s] = t}
    BY <2>1
  <2>3. RouteTables(v)[t].main = (t = v.main) /\ RouteTables(v)[t].igw = (t \in v.igw)
    BY <2>1
  <2> QED
    BY <2>2, <2>3
<1>6. DOMAIN RouteTables(v) = 1..v.tables
  BY DEF RouteTables
<1> QED
  BY <1>4, <1>5, <1>6

\* The tables that the loops of isSubnetPublic find are the subnet's own or, if it has
\* none, the main one: there is one of each, whatever the order of the list.
LEMMA TableOf ==
    ASSUME NEW v \in VPC, WellFormed(v), NEW s \in Subnets
    PROVE  SubnetTable(RouteTables(v), s) = IF v.table[s] = 0 THEN v.main ELSE v.table[s]
<1> DEFINE rt == RouteTables(v)
           explicit == {k \in DOMAIN rt : s \in rt[k].associations}
           mains == {k \in DOMAIN rt : rt[k].main}
<1>1. /\ v.tables \in 1..MaxTables /\ v.main \in 1..MaxTables /\ v.table[s] \in 0..MaxTables
      /\ v.main <= v.tables /\ v.table[s] <= v.tables
  BY DEF VPC, Tables, WellFormed
<1>2. DOMAIN rt = 1..v.tables
  BY RouteTablesType
<1>3. \A k \in DOMAIN rt : (s \in rt[k].associations <=> v.table[s] = k) /\ (rt[k].main <=> k = v.main)
  <2>1. \A t \in 1..v.tables :
            /\ \A x \in Subnets : x \in rt[t].associations <=> v.table[x] = t
            /\ rt[t].main <=> t = v.main
    BY RouteTablesType
  <2> QED
    BY <1>2, <2>1
<1>4. mains = {v.main} /\ v.main \in Nat
  BY <1>1, <1>2, <1>3, BoundsAssumption
<1>5. MainTable(rt) = v.main
  BY <1>4, LastOfSingle DEF MainTable
<1>6. CASE v.table[s] = 0
  <2>1. explicit = {}
    BY <1>1, <1>2, <1>3, <1>6, BoundsAssumption
  <2> QED
    BY <1>5, <1>6, <2>1 DEF SubnetTable
<1>7. CASE v.table[s] # 0
  <2>1. explicit = {v.table[s]} /\ v.table[s] \in Nat
    BY <1>1, <1>2, <1>3, <1>7, BoundsAssumption
  <2>2. LastOf(explicit) = v.table[s]
    BY <2>1, LastOfSingle
  <2> QED
    BY <1>7, <2>1, <2>2 DEF SubnetTable
<1> QED
  BY <1>6, <1>7

\* isSubnetPublic, on the tables of the VPC, is what a public subnet is.
LEMMA PublicRight ==
    ASSUME NEW v \in VPC, WellFormed(v), NEW s \in Subnets
    PROVE  /\ SubnetTable(RouteTables(v), s) # 0
           /\ isSubnetPublic(RouteTables(v), s) <=> PublicSubnet(v, s)
<1> DEFINE t == IF v.table[s] = 0 THEN v.main ELSE v.table[s]
<1>1. SubnetTable(RouteTables(v), s) = t
  BY TableOf
<1>2. t \in 1..v.tables
  BY BoundsAssumption DEF VPC, Tables, WellFormed
<1>3. RouteTables(v)[t].igw <=> t \in v.igw
  BY <1>2, RouteTablesType
<1> QED
  BY <1>1, <1>2, <1>3 DEF isSubnetPublic, PublicSubnet

-----------------------------------------------------------------------------
(* The steps.                                                              *)

\* Initially.
LEMMA InitIInv == Init => IInv
<1> SUFFICES ASSUME Init PROVE IInv
  OBVIOUS
<1>1. TypeOK
  BY SubnetsAssumption, BoundsAssumption DEF Init, TypeOK
<1> QED
  BY <1>1 DEF Init, IInv, ReadInv, Selecting, SelectionRight

\* GetMaster ends the call or starts the first loop with nothing read.
LEMMA GetMasterIInv == IInv /\ GetMaster => IInv'
<1> SUFFICES ASSUME IInv, GetMaster PROVE IInv'
  OBVIOUS
<1> USE DEF GetMaster, IInv
<1>1. TypeOK'
  BY DEF TypeOK
<1>2. SelectionRight'
  BY DEF SelectionRight, TypeOK, Masters
<1>3. ReadInv'
  BY DEF ReadInv, Selecting
<1> QED
  BY <1>1, <1>2, <1>3

\* DescribeSubnets leaves its loop with everything, if it has not gone round before.
LEMMA DescribeSubnetsIInv == IInv /\ DescribeSubnets => IInv'
<1> SUFFICES ASSUME IInv, DescribeSubnets PROVE IInv'
  OBVIOUS
<1>1. /\ vpc \in VPC /\ vpc.subnets \in Seq(Subnets)
      /\ pc = "describeSubnets" /\ routeTables = <<>> /\ subnetIDs \in Seq(Subnets)
  BY SubnetList DEF IInv, TypeOK, DescribeSubnets
<1>2. Page(vpc.subnets) \in Seq(Subnets)
  BY <1>1, PageType
<1>3. subnetIDs \o Page(vpc.subnets) \in Seq(Subnets)
  BY <1>1, <1>2, ConcatProperties
<1>4. TypeOK'
  BY <1>1, <1>3, BoundsAssumption DEF IInv, TypeOK, DescribeSubnets
<1>5. WellFormed(vpc)'
  BY DEF IInv, WellFormed, DescribeSubnets
<1>6. CASE NextToken(vpc.subnets)
  <2>1. pc' = "describeSubnets" /\ vpc' = vpc /\ routeTables' = <<>>
    BY <1>1, <1>6 DEF DescribeSubnets
  <2>2. NextToken(vpc.subnets)'
    BY <1>6, <2>1 DEF NextToken
  <2> QED
    BY <1>4, <1>5, <2>1, <2>2 DEF IInv, ReadInv, Selecting, SelectionRight
<1>7. CASE ~NextToken(vpc.subnets)
  <2>1. /\ pc' = "describeRouteTables" /\ vpc' = vpc /\ routeTables' = <<>> /\ drift' = drift
        /\ subnetIDs' = subnetIDs \o Page(vpc.subnets)
    BY <1>1, <1>7 DEF DescribeSubnets
  <2>2. Page(vpc.subnets) = vpc.subnets
    BY <1>1, <1>7, PageType
  <2>3. drift = 0 => subnetIDs = <<>>
    BY <1>1, <1>7 DEF IInv, ReadInv
  <2>4. drift = 0 => subnetIDs' = vpc.subnets
    BY <1>1, <2>1, <2>2, <2>3, ConcatEmptySeq
  <2> QED
    BY <1>4, <1>5, <2>1, <2>4 DEF IInv, ReadInv, Selecting, SelectionRight
<1> QED
  BY <1>6, <1>7

\* The same of DescribeRouteTables.
LEMMA DescribeRouteTablesIInv == IInv /\ DescribeRouteTables => IInv'
<1> SUFFICES ASSUME IInv, DescribeRouteTables PROVE IInv'
  OBVIOUS
<1>1. /\ vpc \in VPC /\ RouteTables(vpc) \in Seq(RouteTable)
      /\ pc = "describeRouteTables" /\ routeTables \in Seq(RouteTable)
  BY RouteTablesType DEF IInv, TypeOK, DescribeRouteTables
<1>2. Page(RouteTables(vpc)) \in Seq(RouteTable)
  BY <1>1, PageType
<1>3. routeTables \o Page(RouteTables(vpc)) \in Seq(RouteTable)
  BY <1>1, <1>2, ConcatProperties
<1>4. TypeOK'
  BY <1>1, <1>3, BoundsAssumption DEF IInv, TypeOK, DescribeRouteTables
<1>5. WellFormed(vpc)' /\ RouteTables(vpc)' = RouteTables(vpc)
  BY DEF IInv, WellFormed, DescribeRouteTables, RouteTables
<1>6. CASE NextToken(RouteTables(vpc))
  <2>1. /\ pc' = "describeRouteTables" /\ vpc' = vpc /\ drift' = drift
        /\ subnetIDs' = subnetIDs
    BY <1>1, <1>6 DEF DescribeRouteTables
  <2>2. NextToken(RouteTables(vpc))'
    BY <1>5, <1>6, <2>1 DEF NextToken
  <2> QED
    BY <1>1, <1>4, <1>5, <2>1, <2>2 DEF IInv, ReadInv, Selecting, SelectionRight
<1>7. CASE ~NextToken(RouteTables(vpc))
  <2>1. /\ pc' = "select" /\ vpc' = vpc /\ drift' = drift /\ subnetIDs' = subnetIDs
        /\ routeTables' = routeTables \o Page(RouteTables(vpc))
    BY <1>1, <1>7 DEF DescribeRouteTables
  <2>2. Page(RouteTables(vpc)) = RouteTables(vpc)
    BY <1>1, <1>7, PageType
  <2>3. drift = 0 => routeTables = <<>>
    BY <1>1, <1>7 DEF IInv, ReadInv
  <2>4. drift = 0 => routeTables' = RouteTables(vpc)
    BY <1>1, <2>1, <2>2, <2>3, ConcatEmptySeq
  <2> QED
    BY <1>1, <1>4, <1>5, <2>1, <2>4 DEF IInv, ReadInv, Selecting, SelectionRight
<1> QED
  BY <1>6, <1>7

\* Select takes a subnet that is public in the VPC that was read.
LEMMA SelectIInv == IInv /\ Select => IInv'
<1> SUFFICES ASSUME IInv, Select PROVE IInv'
  OBVIOUS
<1>1. /\ vpc \in VPC /\ WellFormed(vpc) /\ pc = "select" /\ subnetIDs \in Seq(Subnets)
      /\ pc' \in {"error", "noPublicSubnets", "done"}
      /\ UNCHANGED <<vpc, masters, subnetIDs, routeTables, turns, drift>>
  BY DEF IInv, TypeOK, Select
<1>2. drift = 0 => subnetIDs = vpc.subnets /\ routeTables = RouteTables(vpc)
  BY <1>1 DEF IInv, ReadInv, Selecting
<1>3. \A k \in DOMAIN subnetIDs : subnetIDs[k] \in Subnets /\ k \in Nat
  BY <1>1
<1>4. ASSUME drift = 0
      PROVE  \A k \in DOMAIN subnetIDs :
                /\ SubnetTable(routeTables, subnetIDs[k]) # 0
                /\ isSubnetPublic(routeTables, subnetIDs[k]) <=> PublicSubnet(vpc, subnetIDs[k])
  BY <1>1, <1>2, <1>3, <1>4, PublicRight
<1>5. Public # {} => FirstOf(Public) \in Public
  BY <1>3, FirstOfElement DEF Public
<1>6. pc' = "done" => /\ chosen' = subnetIDs[FirstOf(Public)]
                      /\ FirstOf(Public) \in DOMAIN subnetIDs
                      /\ isSubnetPublic(routeTables, subnetIDs[FirstOf(Public)])
  BY <1>5 DEF Select, Public
<1>7. TypeOK'
  <2>1. pc' # "done" => chosen' = chosen
    BY DEF Select
  <2>2. pc' = "done" => chosen' \in Subnets /\ chosen' # NoSubnet
    BY <1>3, <1>6, SubnetsAssumption
  <2> QED
    BY <1>1, <2>1, <2>2 DEF IInv, TypeOK
<1>8. WellFormed(vpc)' /\ RouteTables(vpc)' = RouteTables(vpc)
  BY <1>1 DEF WellFormed, RouteTables
<1>9. ReadInv'
  BY <1>1, <1>2, <1>8 DEF ReadInv, Selecting
<1>10. SelectionRight'
  <2> SUFFICES ASSUME drift = 0
               PROVE  /\ pc' = "done" => PublicSubnet(vpc, chosen')
                      /\ pc' = "noPublicSubnets" =>
                            \A k \in DOMAIN vpc.subnets : ~PublicSubnet(vpc, vpc.subnets[k])
                      /\ pc' # "error"
    BY <1>1 DEF SelectionRight, PublicSubnet
  <2>1. pc' = "done" => PublicSubnet(vpc, chosen')
    BY <1>4, <1>6
  <2>2. pc' = "noPublicSubnets" => Public = {}
    BY DEF Select
  <2>3. Public = {} => \A k \in DOMAIN subnetIDs : ~PublicSubnet(vpc, subnetIDs[k])
    BY <1>4 DEF Public
  <2>4. pc' # "error"
    BY <1>4 DEF Select
  <2> QED
    BY <1>2, <2>1, <2>2, <2>3, <2>4
<1> QED
  BY <1>1, <1>7, <1>8, <1>9, <1>10 DEF IInv

\* Whoever changes the VPC leaves one that AWS could list.
LEMMA ChangeVPCType == IInv /\ ChangeVPC => vpc' \in VPC /\ WellFormed(vpc')
<1> SUFFICES ASSUME IInv, ChangeVPC PROVE vpc' \in VPC /\ WellFormed(vpc')
  OBVIOUS
<1> DEFINE Lists == {q \in UNION {[1..n -> Subnets] : n \in 0..Cardinality(Subnets)} :
                        \A j, k \in DOMAIN q : j # k => q[j] # q[k]}
<1>1. /\ vpc \in VPC /\ WellFormed(vpc) /\ vpc.subnets \in Seq(Subnets)
      /\ \A j, k \in DOMAIN vpc.subnets : j # k => vpc.subnets[j] # vpc.subnets[k]
  BY SubnetList DEF IInv, TypeOK
<1>2. VPC = [subnets : Lists, table : [Subnets -> 0..MaxTables], main : Tables,
             igw : SUBSET Tables, tables : Tables]
  BY DEF VPC
<1>3. \A q \in Seq(Subnets) :
        (\A j, k \in DOMAIN q : j # k => q[j] # q[k]) => q \in Lists
  BY NoRepetition
<1> HIDE DEF Lists
<1>4. \A q \in Lists : [vpc EXCEPT !.subnets = q] \in VPC /\ WellFormed([vpc EXCEPT !.subnets = q])
  BY <1>1, <1>2 DEF WellFormed
<1>5. ASSUME NEW s \in Subnets, ~InRange(s, vpc.subnets),
             vpc' = [vpc EXCEPT !.subnets = Append(vpc.subnets, s)]
      PROVE  vpc' \in VPC /\ WellFormed(vpc')
  <2> DEFINE q == Append(vpc.subnets, s)
  <2>1. /\ q \in Seq(Subnets) /\ Len(q) = Len(vpc.subnets) + 1 /\ Len(vpc.subnets) \in Nat
        /\ \A k \in 1..Len(vpc.subnets) : q[k] = vpc.subnets[k]
        /\ q[Len(vpc.subnets) + 1] = s
    BY <1>1, AppendProperties
  <2>2. \A k \in 1..Len(vpc.subnets) : vpc.subnets[k] # s
    BY <1>1, <1>5 DEF InRange
  <2>3. \A j, k \in DOMAIN q : j # k => q[j] # q[k]
    <3> SUFFICES ASSUME NEW j \in 1..(Len(vpc.subnets) + 1), NEW k \in 1..(Len(vpc.subnets) + 1),
                        j # k
                 PROVE  q[j] # q[k]
      BY <2>1, LenProperties
    <3>1. CASE j \in 1..Len(vpc.subnets) /\ k \in 1..Len(vpc.subnets)
      BY <1>1, <2>1, <3>1
    <3>2. CASE j = Len(vpc.subnets) + 1
      BY <2>1, <2>2, <3>2
    <3>3. CASE k = Len(vpc.subnets) + 1
      BY <2>1, <2>2, <3>3
    <3> QED
      BY <2>1, <3>1, <3>2, <3>3
  <2>4. q \in Lists
    BY <1>3, <2>1, <2>3
  <2> QED
    BY <1>4, <1>5, <2>4
<1>6. ASSUME vpc.subnets # <<>>, vpc' = [vpc EXCEPT !.subnets = Tail(vpc.subnets)]
      PROVE  vpc' \in VPC /\ WellFormed(vpc')
  <2> DEFINE q == Tail(vpc.subnets)
  <2>1. /\ q \in Seq(Subnets) /\ Len(q) = Len(vpc.subnets) - 1 /\ Len(vpc.subnets) \in Nat
        /\ \A k \in 1..Len(q) : q[k] = vpc.subnets[k + 1]
    BY <1>1, <1>6, HeadTailProperties, LenProperties
  <2>2. \A j, k \in DOMAIN q : j # k => q[j] # q[k]
    <3> SUFFICES ASSUME NEW j \in 1..Len(q), NEW k \in 1..Len(q), j # k
                 PROVE  vpc.subnets[j + 1] # vpc.subnets[k + 1]
      BY <2>1, LenProperties
    <3>1. j + 1 \in DOMAIN vpc.subnets /\ k + 1 \in DOMAIN vpc.subnets
      BY <1>1, <2>1, LenProperties
    <3> QED
      BY <1>1, <3>1
  <2>3. q \in Lists
    BY <1>3, <2>1, <2>2
  <2> QED
    BY <1>4, <1>6, <2>3
<1>7. ASSUME NEW s \in Subnets, NEW t \in 0..vpc.tables, vpc' = [vpc EXCEPT !.table[s] = t]
      PROVE  vpc' \in VPC /\ WellFormed(vpc')
  <2>1. t \in 0..MaxTables /\ t <= vpc.tables /\ vpc.table \in [Subnets -> 0..MaxTables]
    BY <1>1, <1>2, BoundsAssumption DEF Tables
  <2>2. [vpc.table EXCEPT ![s] = t] \in [Subnets -> 0..MaxTables]
    BY <2>1
  <2>3. vpc' = [vpc EXCEPT !.table = [vpc.table EXCEPT ![s] = t]]
    BY <1>7
  <2>4. vpc' \in VPC
    BY <1>1, <1>2, <2>2, <2>3
  <2>5. WellFormed(vpc')
    BY <1>1, <1>2, <2>1, <2>3 DEF WellFormed
  <2> QED
    BY <2>4, <2>5
<1>8. ASSUME vpc.tables < MaxTables, vpc' = [vpc EXCEPT !.tables = vpc.tables + 1]
      PROVE  vpc' \in VPC /\ WellFormed(vpc')
  <2>1. /\ vpc.tables \in 1..MaxTables /\ vpc.tables + 1 \in Tables /\ vpc.main \in Nat
        /\ vpc.table \in [Subnets -> 0..MaxTables] /\ vpc.igw \subseteq 1..MaxTables
    BY <1>1, <1>2, <1>8, BoundsAssumption DEF Tables
  <2>2. vpc' \in VPC
    BY <1>1, <1>2, <1>8, <2>1
  <2>3. WellFormed(vpc')
    BY <1>1, <1>2, <1>8, <2>1, BoundsAssumption DEF WellFormed
  <2> QED
    BY <2>2, <2>3
<1> QED
  BY <1>5, <1>6, <1>7, <1>8 DEF ChangeVPC

\* After a change of the VPC nothing is claimed of what was read.
LEMMA ChangeVPCIInv == IInv /\ ChangeVPC => IInv'
<1> SUFFICES ASSUME IInv, ChangeVPC PROVE IInv'
  OBVIOUS
<1>1. vpc' \in VPC /\ WellFormed(vpc')
  BY ChangeVPCType
<1>2. drift \in 0..MaxDrift /\ drift < MaxDrift /\ drift' = drift + 1
  BY DEF IInv, TypeOK, ChangeVPC
<1>3. drift' \in 0..MaxDrift /\ drift' # 0
  BY <1>2, BoundsAssumption
<1>4. TypeOK'
  BY <1>1, <1>3 DEF IInv, TypeOK, ChangeVPC
<1>5. ReadInv' /\ SelectionRight'
  BY <1>3 DEF ReadInv, SelectionRight
<1>6. pc' \in {"master", "describeSubnets"} => routeTables' = <<>>
  BY DEF IInv, ChangeVPC
<1> QED
  BY <1>1, <1>4, <1>5, <1>6 DEF IInv

\* IInv is an invariant.
LEMMA Inductive == Spec => []IInv
<1>1. IInv /\ [Next]_vars => IInv'
  <2> SUFFICES ASSUME IInv, [Next]_vars PROVE IInv'
    OBVIOUS
  <2>1. CASE UNCHANGED vars
    <3>1. /\ UNCHANGED <<vpc, masters, pc, subnetIDs, routeTables, chosen, turns, drift>>
          /\ RouteTables(vpc)' = RouteTables(vpc)
      BY <2>1 DEF vars, RouteTables
    <3>2. TypeOK' /\ WellFormed(vpc)'
      BY <3>1 DEF IInv, TypeOK, WellFormed
    <3>3. ReadInv'
      BY <3>1 DEF IInv, ReadInv, NextToken
    <3>4. SelectionRight'
      BY <3>1 DEF IInv, SelectionRight, PublicSubnet
    <3> QED
      BY <3>1, <3>2, <3>3, <3>4 DEF IInv
  <2> QED
    BY <2>1, GetMasterIInv, DescribeSubnetsIInv, DescribeRouteTablesIInv, SelectIInv,
       ChangeVPCIInv DEF Next, getPublicSubnets
<1> QED
  BY <1>1, InitIInv, PTL DEF Spec

-----------------------------------------------------------------------------

\* Every variable keeps its type, and a call of getPublicSubnets that is done has a
\* subnet: setDefaultAPIPublic never indexes an empty list.
THEOREM TypeCorrect == Spec => []TypeOK
<1>1. IInv => TypeOK
  BY DEF IInv
<1> QED
  BY <1>1, Inductive, PTL

\* In a VPC that nobody changes meanwhile, of any size, setDefaultAPIPublic puts the load
\* balancer in a public subnet or says rightly that there is none, and isSubnetPublic
\* finds a table for every subnet; for any size of a page, as the loops that a NextToken
\* keeps alive never end.
THEOREM SelectionSafe == Spec => []SelectionRight
<1>1. IInv => SelectionRight
  BY DEF IInv
<1> QED
  BY <1>1, Inductive, PTL
===============================================================================
