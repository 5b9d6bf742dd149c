------------------------------- MODULE AWSSubnets ------------------------------
(***************************************************************************)
(* Where setDefaultAPIPublic puts a new load balancer on AWS: the first    *)
(* public subnet of the VPC that a master runs in (getPublicSubnets),      *)
(* found with one loop of DescribeSubnets, one of DescribeRouteTables and  *)
(* isSubnetPublic.  The loops go on while a reply carries a NextToken, but *)
(* never send the token back: every reply is the first page.               *)
(***************************************************************************)
EXTENDS Integers, Sequences, FiniteSets

CONSTANTS
    Subnets,     \* identifiers of subnets
    NoSubnet,
    MaxTables,   \* bound on the route tables of the VPC
    PageSize,    \* entries in one reply
    MaxTurns,    \* bound on the turns of a loop that get a NextToken
    MaxDrift     \* bound on changes of the VPC while getPublicSubnets runs

Tables == 1..MaxTables

\* subnets: in the order AWS lists them; table: the route table a subnet is explicitly
\* associated with, 0 if none; main: the VPC's main table; igw: the tables with a route
\* to an internet gateway; tables: how many there are.
VPC ==
    [subnets : {q \in UNION {[1..n -> Subnets] : n \in 0..Cardinality(Subnets)} :
                    \A j, k \in DOMAIN q : j # k => q[j] # q[k]},
     table : [Subnets -> 0..MaxTables], main : Tables, igw : SUBSET Tables, tables : Tables]

WellFormed(v) ==
    /\ v.main <= v.tables
    /\ \A s \in Subnets : v.table[s] <= v.tables
    /\ \A t \in v.igw : t <= v.tables

\* What DescribeRouteTables says of one table.
RouteTable == [id : Tables, associations : SUBSET Subnets, main : BOOLEAN, igw : BOOLEAN]

RouteTables(v) ==
    [t \in 1..v.tables |->
        [id |-> t, associations |-> {s \in Subnets : v.table[s] = t},
         main |-> t = v.main, igw |-> t \in v.igw]]

\* The first master has a ProviderID, its instance a VPC; otherwise Items[0], the nil
\* ProviderID or the blank instance ID ends the call with a panic or an error.
Masters == {"instance", "unusable"}

ASSUME SubnetsAssumption == NoSubnet \notin Subnets /\ IsFiniteSet(Subnets)
ASSUME BoundsAssumption ==
    MaxTables \in Nat \ {0} /\ PageSize \in Nat \ {0} /\ MaxTurns \in Nat /\ MaxDrift \in Nat

VARIABLES vpc, masters, pc, subnetIDs, routeTables, chosen, turns, drift

vars == <<vpc, masters, pc, subnetIDs, routeTables, chosen, turns, drift>>

-----------------------------------------------------------------------------
InRange(x, q) == \E k \in DOMAIN q : q[k] = x

Page(q) == SubSeq(q, 1, IF Len(q) < PageSize THEN Len(q) ELSE PageSize)
NextToken(q) == Len(q) > PageSize

GetMaster ==
    /\ pc = "master"
    /\ pc' = IF masters = "instance" THEN "describeSubnets" ELSE "error"
    /\ UNCHANGED <<vpc, masters, subnetIDs, routeTables, chosen, turns, drift>>

\* A slip: the loop looks at the token it started with.
DescribeSubnetsForever ==
    /\ pc = "describeSubnets" /\ turns < MaxTurns /\ turns' = turns + 1
    /\ subnetIDs' = subnetIDs \o Page(vpc.subnets)
    /\ UNCHANGED <<vpc, masters, pc, routeTables, chosen, drift>>

\* One turn of the loop of getAllSubnetsInVPC: whatever is listed is appended.  MaxTurns
\* bounds the turns that leave the loop where it is.
DescribeSubnets ==
    /\ pc = "describeSubnets"
    /\ subnetIDs' = subnetIDs \o Page(vpc.subnets)
    /\ \/ NextToken(vpc.subnets) /\ turns < MaxTurns /\ turns' = turns + 1 /\ UNCHANGED pc
       \/ ~NextToken(vpc.subnets) /\ pc' = "describeRouteTables" /\ turns' = 0
    /\ UNCHANGED <<vpc, masters, routeTables, chosen, drift>>

\* The same of getAllRouteTablesInVPC.
DescribeRouteTables ==
    /\ pc = "describeRouteTables"
    /\ routeTables' = routeTables \o Page(RouteTables(vpc))
    /\ \/ NextToken(RouteTables(vpc)) /\ turns < MaxTurns /\ turns' = turns + 1 /\ UNCHANGED pc
       \/ ~NextToken(RouteTables(vpc)) /\ pc' = "select" /\ turns' = 0
    /\ UNCHANGED <<vpc, masters, subnetIDs, chosen, drift>>

\* The loops over tables and associations leave the last table that matches.
LastOf(found) == IF found = {} THEN 0 ELSE CHOOSE k \in found : \A l \in found : l <= k

MainTable(rt) == LastOf({k \in DOMAIN rt : rt[k].main})

\* A slip: the main table counts for every subnet.
SubnetTableMain(rt, s) == MainTable(rt)

SubnetTable(rt, s) ==
    LET explicit == {k \in DOMAIN rt : s \in rt[k].associations}
    IN  IF explicit # {} THEN LastOf(explicit) ELSE MainTable(rt)

isSubnetPublic(rt, s) == rt[SubnetTable(rt, s)].igw

\* Where the public subnets are in the list, and the first of them.
Public == {k \in DOMAIN subnetIDs : isSubnetPublic(routeTables, subnetIDs[k])}

FirstOf(found) == CHOOSE k \in found : \A l \in found : k <= l

\* The loop of getPublicSubnets ends with an error at a subnet without a table;
\* setDefaultAPIPublic takes the first public subnet and gives up when there is none.
Select ==
    /\ pc = "select"
    /\ \/ /\ \E k \in DOMAIN subnetIDs : SubnetTable(routeTables, subnetIDs[k]) = 0
          /\ pc' = "error" /\ UNCHANGED chosen
       \/ /\ \A k \in DOMAIN subnetIDs : SubnetTable(routeTables, subnetIDs[k]) # 0
          /\ \/ Public = {} /\ pc' = "noPublicSubnets" /\ UNCHANGED chosen
             \/ Public # {} /\ pc' = "done" /\ chosen' = subnetIDs[FirstOf(Public)]
    /\ UNCHANGED <<vpc, masters, subnetIDs, routeTables, turns, drift>>

getPublicSubnets == GetMaster \/ DescribeSubnets \/ DescribeRouteTables \/ Select

\* Somebody adds or removes a subnet, or changes the routing.
ChangeVPC ==
    /\ drift < MaxDrift /\ drift' = drift + 1
    /\ \/ \E s \in Subnets :
          /\ ~InRange(s, vpc.subnets)
          /\ vpc' = [vpc EXCEPT !.subnets = Append(vpc.subnets, s)]
       \/ vpc.subnets # <<>> /\ vpc' = [vpc EXCEPT !.subnets = Tail(vpc.subnets)]
       \/ \E s \in Subnets, t \in 0..vpc.tables : vpc' = [vpc EXCEPT !.table[s] = t]
       \/ vpc.tables < MaxTables /\ vpc' = [vpc EXCEPT !.tables = vpc.tables + 1]
    /\ UNCHANGED <<masters, pc, subnetIDs, routeTables, chosen, turns>>

Init ==
    /\ vpc \in VPC /\ WellFormed(vpc)
    /\ masters \in Masters
    /\ pc = "master" /\ subnetIDs = <<>> /\ routeTables = <<>> /\ chosen = NoSubnet
    /\ turns = 0 /\ drift = 0

Next == getPublicSubnets \/ ChangeVPC

\* Calls return.
Fairness == WF_vars(getPublicSubnets)

Spec == Init /\ [][Next]_vars /\ Fairness

-----------------------------------------------------------------------------
(* Properties.                                                             *)

\* A subnet is public when the table that routes it, its own or else the VPC's main
\* one, leads to an internet gateway.
PublicSubnet(v, s) == (IF v.table[s] = 0 THEN v.main ELSE v.table[s]) \in v.igw

\* Every variable has its type, and a call that is done has a subnet.
TypeOK ==
    /\ vpc \in VPC /\ masters \in Masters
    /\ pc \in {"master", "describeSubnets", "describeRouteTables", "select", "done",
               "noPublicSubnets", "error"}
    /\ subnetIDs \in Seq(Subnets) /\ routeTables \in Seq(RouteTable)
    /\ chosen \in Subnets \cup {NoSubnet} /\ (pc = "done" <=> chosen # NoSubnet)
    /\ turns \in 0..MaxTurns /\ drift \in 0..MaxDrift

\* "A public subnet is one which has an internet gateway route": in a VPC that nobody
\* changes, the load balancer goes to a public subnet, "no public subnets" is said only
\* of a VPC that has none, and every subnet is found to have a table.
SelectionRight ==
    drift = 0 =>
        /\ pc = "done" => PublicSubnet(vpc, chosen)
        /\ pc = "noPublicSubnets" =>
            \A k \in DOMAIN vpc.subnets : ~PublicSubnet(vpc, vpc.subnets[k])
        /\ pc = "error" => masters = "unusable"

\* getPublicSubnets returns, if the VPC comes to fit on one page.  With a second page
\* the Reconcile, and with it the controller's only worker, asks for the first for ever.
Returns ==
    <>[](~NextToken(vpc.subnets) /\ ~NextToken(RouteTables(vpc))) =>
        <>(pc \in {"done", "noPublicSubnets", "error"})
================================================================================
