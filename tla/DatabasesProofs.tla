-------------------------- MODULE DatabasesProofs --------------------------
(***************************************************************************)
(* Proofs about the databases: what provisioning leaves behind, what a     *)
(* cutover that failed puts back, which rows recovery imports, and which   *)
(* processes a database opens to.                                          *)
(***************************************************************************)
EXTENDS Provisioning, Cutover, RecoveryRows, DatabaseIdentity, SequenceTheorems, TLAPS

(* What is left of a sequence, step by step.                               *)
LEMMA Rest ==
    ASSUME NEW S, NEW s \in Seq(S), NEW k \in 1..Len(s)
    PROVE  /\ Head(SubSeq(s, k, Len(s))) = s[k]
           /\ Tail(SubSeq(s, k, Len(s))) = SubSeq(s, k + 1, Len(s))
           /\ Len(SubSeq(s, k, Len(s))) = Len(s) - k + 1
           /\ SubSeq(s, k, Len(s)) \in Seq(S)
           /\ SubSeq(s, k, Len(s)) # <<>>
  <1>1. Len(s) \in Nat /\ k \in Nat /\ k <= Len(s) /\ \A i \in k..Len(s) : s[i] \in S
    BY LenProperties
  <1>2. /\ Head(SubSeq(s, k, Len(s))) = s[k]
        /\ Tail(SubSeq(s, k, Len(s))) = SubSeq(s, k + 1, Len(s))
    BY <1>1, HeadTailOfSubSeq
  <1>3. /\ SubSeq(s, k, Len(s)) \in Seq(S)
        /\ Len(SubSeq(s, k, Len(s))) = Len(s) - k + 1
    BY <1>1, SubSeqProperties
  <1>4. SubSeq(s, k, Len(s)) # <<>>
    <2>1. Len(<<>>) = 0
      OBVIOUS
    <2>2. Len(SubSeq(s, k, Len(s))) > 0
      BY <1>1, <1>3
    <2> QED
      BY <2>1, <2>2
  <1> QED
    BY <1>2, <1>3, <1>4

-----------------------------------------------------------------------------
(* Provisioning.  What a run has settled, statement by statement, and that *)
(* no migration which does not overtake it undoes.                         *)
Left(k) == SubSeq(Statements, k, 19)
Table == [owner : {"bootstrap", "migrate", "candidate"},
          users : SUBSET {"runtime", "migrate"}]
Run == [left : {Left(k) : k \in 1..19}, overtaken : BOOLEAN]

Handed == \A v \in DOMAIN tables : tables[v].owner \in {"migrate", "candidate"}
Served(schema) == \A v \in In(schema) : "runtime" \in tables[v].users
Defaulted(schema) == <<"migrate", schema>> \in defaults

Settled(k) ==
    /\ k > 6 => Handed
    /\ k > 7 => "public" \in usable
    /\ k > 8 => Served("public")
    /\ k > 9 => Defaulted("public")
    /\ k > 15 => "aarohan_meta" \in usable
    /\ k > 16 => Served("aarohan_meta")
    /\ k > 18 => Defaulted("aarohan_meta")
Ready ==
    /\ marker = "mine" /\ Handed /\ {"public", "aarohan_meta"} \subseteq usable
    /\ Served("public") /\ Served("aarohan_meta")
    /\ Defaulted("public") /\ Defaulted("aarohan_meta")

ProvisionTypeOK ==
    /\ tables \in Seq(Table)
    /\ "public" \in schemas
    /\ provision \in Run \union {NotProvisioning}
    /\ prepared \in BOOLEAN

ProvisioningInv ==
    /\ ProvisionTypeOK
    /\ Provisions => \A k \in 1..19 : provision.left = Left(k) =>
         /\ k > 13 => "aarohan_meta" \in schemas
         /\ ~provision.overtaken => Settled(k)
    /\ prepared => Ready

LEMMA StatementList ==
    /\ Statements \in Seq({Statements[i] : i \in 1..19}) /\ Len(Statements) = 19
    /\ Statements[1] = <<"role", "migrate">> /\ Statements[2] = <<"role", "runtime">>
    /\ Statements[3] = <<"create", "database">> /\ Statements[4] = <<"create", "public">>
    /\ Statements[5] = <<"create", "aarohan_meta">>
    /\ Statements[6] = <<"reassign", "all">>
    /\ Statements[7] = <<"usage", "public">> /\ Statements[8] = <<"tables", "public">>
    /\ Statements[9] = <<"default", "public">>
    /\ Statements[10] = <<"usage", "aarohan_meta">>
    /\ Statements[11] = <<"tables", "aarohan_meta">>
    /\ Statements[12] = <<"default", "aarohan_meta">>
    /\ Statements[13] = <<"schema", "aarohan_meta">>
    /\ Statements[14] = <<"owner", "aarohan_meta">>
    /\ Statements[15] = <<"usage", "aarohan_meta">>
    /\ Statements[16] = <<"tables", "aarohan_meta">>
    /\ Statements[17] = <<"all", "aarohan_meta">>
    /\ Statements[18] = <<"default", "aarohan_meta">>
    /\ Statements[19] = <<"marker", "aarohan_meta">>
  <1>1. Len(Statements) = 19
    BY DEF Statements
  <1>2. /\ Statements[1] = <<"role", "migrate">> /\ Statements[2] = <<"role", "runtime">>
        /\ Statements[3] = <<"create", "database">> /\ Statements[4] = <<"create", "public">>
        /\ Statements[5] = <<"create", "aarohan_meta">>
        /\ Statements[6] = <<"reassign", "all">>
    BY DEF Statements
  <1>3. /\ Statements[7] = <<"usage", "public">> /\ Statements[8] = <<"tables", "public">>
        /\ Statements[9] = <<"default", "public">>
        /\ Statements[10] = <<"usage", "aarohan_meta">>
        /\ Statements[11] = <<"tables", "aarohan_meta">>
        /\ Statements[12] = <<"default", "aarohan_meta">>
        /\ Statements[13] = <<"schema", "aarohan_meta">>
    BY DEF Statements
  <1>4. /\ Statements[14] = <<"owner", "aarohan_meta">>
        /\ Statements[15] = <<"usage", "aarohan_meta">>
        /\ Statements[16] = <<"tables", "aarohan_meta">>
        /\ Statements[17] = <<"all", "aarohan_meta">>
        /\ Statements[18] = <<"default", "aarohan_meta">>
        /\ Statements[19] = <<"marker", "aarohan_meta">>
    BY DEF Statements
  <1>5. Statements \in Seq({Statements[i] : i \in 1..19})
    <2>1. \A j \in 1..19 : Statements[j] \in {Statements[i] : i \in 1..19}
      OBVIOUS
    <2>2. Statements = [i \in 1..19 |-> Statements[i]]
      BY DEF Statements
    <2>3. Statements \in [1..19 -> {Statements[i] : i \in 1..19}]
      BY <2>1, <2>2
    <2> QED
      BY <2>3, SeqDef
  <1> QED
    BY <1>1, <1>2, <1>3, <1>4, <1>5

LEMMA LeftIs ==
    /\ Left(1) = Statements
    /\ \A k \in 1..19 : Head(Left(k)) = Statements[k] /\ Left(k) # <<>>
    /\ \A k \in 1..18 : SubSeq(Left(k), 2, Len(Left(k))) = Left(k + 1)
    /\ SubSeq(Left(10), 4, Len(Left(10))) = Left(13)
    /\ \A j, k \in 1..19 : Left(j) = Left(k) => j = k
  <1>1. Left(1) = Statements
    BY StatementList, SubSeqFull DEF Left
  <1>2. \A k \in 1..19 : /\ Head(Left(k)) = Statements[k] /\ Len(Left(k)) = 20 - k
                         /\ Left(k) # <<>>
    <2> TAKE k \in 1..19
    <2> DEFINE S == {Statements[i] : i \in 1..19}
    <2>1. Statements \in Seq(S) /\ Len(Statements) = 19 /\ k \in 1..Len(Statements)
      BY StatementList
    <2> HIDE DEF S
    <2>2. /\ Head(SubSeq(Statements, k, Len(Statements))) = Statements[k]
          /\ Len(SubSeq(Statements, k, Len(Statements))) = Len(Statements) - k + 1
          /\ SubSeq(Statements, k, Len(Statements)) # <<>>
      BY <2>1, Rest
    <2> QED
      BY <2>1, <2>2 DEF Left
  <1>3. \A k \in 1..19, n \in {1, 3} :
          k + n < 20 => SubSeq(Left(k), n + 1, Len(Left(k))) = Left(k + n)
    <2> SUFFICES ASSUME NEW k \in 1..19, NEW n \in {1, 3}, k + n < 20
                 PROVE  SubSeq(Left(k), n + 1, Len(Left(k))) = Left(k + n)
      OBVIOUS
    <2> DEFINE S == {Statements[i] : i \in 1..19}
    <2>1. Statements \in Seq(S) /\ Len(Statements) = 19
      BY StatementList
    <2> HIDE DEF S
    <2>2. Len(Left(k)) = 20 - k
      BY <1>2
    <2>3. /\ k \in 1..Len(Statements) /\ 19 \in 1..Len(Statements)
          /\ n + 1 \in 1..(19 - k + 1) /\ Len(Left(k)) \in 1..(19 - k + 1)
          /\ k + (n + 1) - 1 = k + n /\ k + Len(Left(k)) - 1 = 19
      BY <2>1, <2>2
    <2>4. SubSeq(SubSeq(Statements, k, 19), n + 1, Len(Left(k)))
          = SubSeq(Statements, k + (n + 1) - 1, k + Len(Left(k)) - 1)
      BY <2>1, <2>3, SubSeqOfSubSeq
    <2> QED
      BY <2>3, <2>4 DEF Left
  <1>4. \A k \in 1..18 : SubSeq(Left(k), 2, Len(Left(k))) = Left(k + 1)
    <2> TAKE k \in 1..18
    <2>1. k \in 1..19 /\ k + 1 < 20 /\ 1 + 1 = 2
      OBVIOUS
    <2>2. SubSeq(Left(k), 1 + 1, Len(Left(k))) = Left(k + 1)
      BY <1>3, <2>1
    <2> QED
      BY <2>1, <2>2
  <1>5. SubSeq(Left(10), 4, Len(Left(10))) = Left(13)
    <2>1. 10 \in 1..19 /\ 10 + 3 < 20 /\ 3 + 1 = 4 /\ 10 + 3 = 13
      OBVIOUS
    <2>2. SubSeq(Left(10), 3 + 1, Len(Left(10))) = Left(10 + 3)
      BY <1>3, <2>1
    <2> QED
      BY <2>1, <2>2
  <1>6. \A j, k \in 1..19 : Left(j) = Left(k) => j = k
    <2> TAKE j, k \in 1..19
    <2>1. Len(Left(j)) = 20 - j /\ Len(Left(k)) = 20 - k
      BY <1>2
    <2> QED
      BY <2>1
  <1> QED
    BY <1>1, <1>2, <1>4, <1>5, <1>6

(* Where a run stands tells the statement it has reached, and where its    *)
(* next one is.                                                            *)
LEMMA WhereItStands ==
    ASSUME ProvisionTypeOK, Provisions
    PROVE  provision \in Run /\ \E k \in 1..19 : provision.left = Left(k)
  BY DEF ProvisionTypeOK, Provisions, Run

MovedTo(k) ==
    /\ provision' \in Run /\ provision'.left = Left(k)
    /\ provision'.overtaken = provision.overtaken

LEMMA Reached ==
    ASSUME ProvisionTypeOK, Provisions, NEW k \in 1..19, provision.left = Left(k)
    PROVE  /\ \A kind, on : Reaches(kind, on) <=> Statements[k] = <<kind, on>>
           /\ Done /\ k < 19 => MovedTo(k + 1)
           /\ After(3) /\ k = 10 => MovedTo(13)
  <1>1. provision \in Run
    BY WhereItStands
  <1>2. Head(provision.left) = Statements[k]
    BY LeftIs
  <1>3. \A kind, on : Reaches(kind, on) <=> Statements[k] = <<kind, on>>
    BY <1>2 DEF Reaches
  <1>4. ASSUME NEW m \in 1..19, provision' = [provision EXCEPT !.left = Left(m)]
        PROVE  MovedTo(m)
    BY <1>1, <1>4 DEF Run, MovedTo
  <1>5. Done /\ k < 19 => MovedTo(k + 1)
    <2> SUFFICES ASSUME Done, k < 19 PROVE MovedTo(k + 1)
      OBVIOUS
    <2>1. k \in 1..18 /\ k + 1 \in 1..19 /\ 1 + 1 = 2
      OBVIOUS
    <2>2. SubSeq(provision.left, 2, Len(provision.left)) = Left(k + 1)
      BY <2>1, LeftIs
    <2>3. provision' = [provision EXCEPT
                          !.left = SubSeq(provision.left, 1 + 1, Len(provision.left))]
      BY DEF Done, After
    <2> QED
      BY <1>4, <2>1, <2>2, <2>3
  <1>6. After(3) /\ k = 10 => MovedTo(13)
    <2> SUFFICES ASSUME After(3), k = 10 PROVE MovedTo(13)
      OBVIOUS
    <2>1. 13 \in 1..19 /\ 3 + 1 = 4
      OBVIOUS
    <2>2. SubSeq(provision.left, 4, Len(provision.left)) = Left(13)
      BY LeftIs
    <2>3. provision' = [provision EXCEPT
                          !.left = SubSeq(provision.left, 3 + 1, Len(provision.left))]
      BY DEF After
    <2> QED
      BY <1>4, <2>1, <2>2, <2>3
  <1> QED
    BY <1>3, <1>5, <1>6

LEMMA TablesAre ==
    ASSUME tables \in Seq(Table)
    PROVE  /\ DOMAIN tables = 1..Len(tables) /\ Len(tables) \in Nat
           /\ \A v \in DOMAIN tables : tables[v] \in Table
  BY LenProperties

(* Whatever changes the tables one by one leaves a sequence of tables.     *)
LEMMA StillTables ==
    ASSUME tables \in Seq(Table), DOMAIN tables' = DOMAIN tables,
           tables' = [v \in DOMAIN tables |-> tables'[v]],
           \A v \in DOMAIN tables : tables'[v] \in Table
    PROVE  tables' \in Seq(Table)
  <1>1. PICK n \in Nat : DOMAIN tables = 1..n
    BY TablesAre
  <1>2. tables' \in [1..n -> Table]
    BY <1>1
  <1> QED
    BY <1>2, SeqDef

(* A statement that only adds rights, and keeps or hands over tables.      *)
Adds ==
    /\ DOMAIN tables' = DOMAIN tables
    /\ \A v \in DOMAIN tables :
         /\ tables[v].users \subseteq tables'[v].users
         /\ tables'[v].owner = tables[v].owner \/ tables'[v].owner = "migrate"
    /\ schemas \subseteq schemas' /\ usable \subseteq usable'
    /\ defaults \subseteq defaults' /\ marker' = marker /\ prepared' = prepared

LEMMA AddsKeeps ==
    ASSUME Adds
    PROVE  /\ Handed => Handed'
           /\ \A schema : /\ Served(schema) => Served(schema)'
                          /\ Defaulted(schema) => Defaulted(schema)'
                          /\ schema \in schemas => schema \in schemas'
                          /\ schema \in usable => schema \in usable'
           /\ Ready => Ready'
           /\ \A k \in 1..19 : Settled(k) => Settled(k)'
  <1>1. Handed => Handed'
    BY DEF Adds, Handed
  <1>2. \A schema : /\ Served(schema) => Served(schema)'
                    /\ Defaulted(schema) => Defaulted(schema)'
                    /\ schema \in schemas => schema \in schemas'
                    /\ schema \in usable => schema \in usable'
    BY DEF Adds, Served, In, Defaulted
  <1>3. Ready => Ready'
    BY <1>1, <1>2 DEF Ready, Adds
  <1>4. \A k \in 1..19 : Settled(k) => Settled(k)'
    BY <1>1, <1>2 DEF Settled
  <1> QED
    BY <1>1, <1>2, <1>3, <1>4

LEMMA Positions ==
    ASSUME NEW k \in 1..19
    PROVE  /\ \A role : Statements[k] = <<"role", role>> => k \in 1..2
           /\ \A on : Statements[k] = <<"create", on>> => k \in 3..5
           /\ Statements[k] = <<"reassign", "all">> => k = 6
           /\ Statements[k] = <<"usage", "public">> => k = 7
           /\ Statements[k] = <<"tables", "public">> => k = 8
           /\ Statements[k] = <<"default", "public">> => k = 9
           /\ Statements[k] = <<"usage", "aarohan_meta">> => k \in {10, 15}
           /\ Statements[k] = <<"tables", "aarohan_meta">> => k \in {11, 16}
           /\ Statements[k] = <<"default", "aarohan_meta">> => k \in {12, 18}
           /\ Statements[k] = <<"schema", "aarohan_meta">> => k = 13
           /\ Statements[k] = <<"owner", "aarohan_meta">> => k = 14
           /\ \A on : Statements[k] = <<"all", on>> => k = 17
           /\ Statements[k] = <<"marker", "aarohan_meta">> => k = 19
  <1>1. \/ k \in 1..6 \/ k \in 7..13 \/ k \in 14..19
    OBVIOUS
  <1>2. CASE k \in 1..6
    <2>1. k = 1 \/ k = 2 \/ k = 3 \/ k = 4 \/ k = 5 \/ k = 6
      BY <1>2
    <2> QED
      BY <2>1, StatementList
  <1>3. CASE k \in 7..13
    <2>1. k = 7 \/ k = 8 \/ k = 9 \/ k = 10 \/ k = 11 \/ k = 12 \/ k = 13
      BY <1>3
    <2> QED
      BY <2>1, StatementList
  <1>4. CASE k \in 14..19
    <2>1. k = 14 \/ k = 15 \/ k = 16 \/ k = 17 \/ k = 18 \/ k = 19
      BY <1>4
    <2> QED
      BY <2>1, StatementList
  <1> QED
    BY <1>1, <1>2, <1>3, <1>4

(* What the statement at place k is there for.                             *)
Settles(k) ==
    /\ k = 6 => Handed
    /\ k = 7 => "public" \in usable
    /\ k = 8 => Served("public")
    /\ k = 9 => Defaulted("public")
    /\ k = 13 => "aarohan_meta" \in schemas
    /\ k = 15 => "aarohan_meta" \in usable
    /\ k = 16 => Served("aarohan_meta")
    /\ k = 18 => Defaulted("aarohan_meta")

LEMMA AdvanceKeeps ==
    ASSUME ProvisioningInv, Provisions, NEW k \in 1..18, provision.left = Left(k),
           NEW m \in 1..19, m = k + 1 \/ (k = 10 /\ m = 13), MovedTo(m),
           Adds, tables' \in Seq(Table),
           Settles(k)'
    PROVE  ProvisioningInv'
  <1>1. ProvisionTypeOK'
    BY DEF MovedTo, ProvisionTypeOK, ProvisioningInv, Adds
  <1>2. prepared' => Ready'
    BY AddsKeeps DEF ProvisioningInv, Adds
  <1>3. ASSUME ~provision.overtaken PROVE Settled(m)'
    <2>1. Settled(k)'
      BY <1>3, AddsKeeps DEF ProvisioningInv
    <2>2. CASE m = k + 1
      BY <2>1, <2>2 DEF Settled, Settles
    <2>3. CASE k = 10 /\ m = 13
      BY <2>1, <2>3 DEF Settled
    <2> QED
      BY <2>2, <2>3
  <1>4. m > 13 => "aarohan_meta" \in schemas'
    BY AddsKeeps DEF ProvisioningInv, Settles
  <1>5. \A j \in 1..19 : provision'.left = Left(j) => j = m
    BY LeftIs DEF MovedTo
  <1> QED
    BY <1>1, <1>2, <1>3, <1>4, <1>5 DEF ProvisioningInv, MovedTo

LEMMA WithUsers ==
    ASSUME NEW table \in Table, NEW who \in SUBSET {"runtime", "migrate"}, NEW new,
           new = [table EXCEPT !.users = table.users \union who]
    PROVE  new \in Table /\ new.users = table.users \union who /\ new.owner = table.owner
  BY DEF Table

LEMMA GrantedTables ==
    ASSUME tables \in Seq(Table), NEW who \in SUBSET {"runtime", "migrate"}, NEW schema,
           tables' = Granted(who, schema)
    PROVE  /\ tables' \in Seq(Table) /\ DOMAIN tables' = DOMAIN tables
           /\ \A v \in DOMAIN tables :
                /\ tables'[v].owner = tables[v].owner
                /\ tables[v].users \subseteq tables'[v].users
           /\ \A v \in In(schema)' : who \subseteq tables'[v].users
  <1>1. \A v \in DOMAIN tables : tables[v] \in Table
    BY TablesAre
  <1>2. /\ DOMAIN tables' = DOMAIN tables
        /\ tables' = [v \in DOMAIN tables |-> tables'[v]]
        /\ \A v \in DOMAIN tables :
             tables'[v] = IF v \in In(schema) THEN [tables[v] EXCEPT !.users = @ \union who]
                                              ELSE tables[v]
    BY DEF Granted
  <1>3. \A v \in DOMAIN tables :
          /\ tables'[v].owner = tables[v].owner /\ tables'[v] \in Table
          /\ tables'[v].users = IF v \in In(schema) THEN tables[v].users \union who
                                                    ELSE tables[v].users
    <2> TAKE v \in DOMAIN tables
    <2>1. PICK table \in Table : table = tables[v]
      BY <1>1
    <2>2. PICK new : new = tables'[v]
      OBVIOUS
    <2>3. new = IF v \in In(schema) THEN [table EXCEPT !.users = table.users \union who]
                                    ELSE table
      BY <1>2, <2>1, <2>2
    <2>4. /\ new.owner = table.owner /\ new \in Table
          /\ new.users = IF v \in In(schema) THEN table.users \union who ELSE table.users
      BY <2>3, WithUsers, ZenonT(60)
    <2> QED
      BY <2>1, <2>2, <2>4
  <1>4. tables' \in Seq(Table)
    BY <1>2, <1>3, StillTables
  <1>5. In(schema)' = In(schema)
    BY <1>2 DEF In
  <1> QED
    BY <1>2, <1>3, <1>4, <1>5 DEF In

(* Rights on the tables of a schema.                                       *)
LEMMA GrantAdds ==
    ASSUME tables \in Seq(Table), NEW who \in {"runtime", "migrate"}, NEW schema,
           tables' = Granted({who}, schema),
           UNCHANGED <<defaults, marker, prepared>>,
           schemas \subseteq schemas', usable \subseteq usable'
    PROVE  Adds /\ tables' \in Seq(Table) /\ (who = "runtime" => Served(schema)')
  <1>1. PICK given \in SUBSET {"runtime", "migrate"} : given = {who}
    OBVIOUS
  <1>2. tables' = Granted(given, schema)
    BY <1>1
  <1>3. /\ tables' \in Seq(Table) /\ DOMAIN tables' = DOMAIN tables
        /\ \A v \in DOMAIN tables : /\ tables'[v].owner = tables[v].owner
                                    /\ tables[v].users \subseteq tables'[v].users
        /\ \A v \in In(schema)' : given \subseteq tables'[v].users
    BY <1>2, GrantedTables
  <1> QED
    BY <1>1, <1>3 DEF Adds, Served

LEMMA RoleKeeps ==
    ASSUME ProvisioningInv, EnsureRole \/ GrantMigrate
    PROVE  ProvisioningInv'
  <1>1. ProvisionTypeOK /\ Provisions /\ Done
    BY DEF EnsureRole, GrantMigrate, Reaches, ProvisioningInv
  <1>2. PICK k \in 1..19 : provision.left = Left(k)
    BY <1>1, WhereItStands
  <1>3. k < 6
    BY <1>1, <1>2, Reached, Positions DEF EnsureRole, GrantMigrate
  <1>4. Adds /\ tables' \in Seq(Table)
    <2>1. CASE EnsureRole
      BY <1>1, <2>1 DEF EnsureRole, Adds, ProvisionTypeOK
    <2>2. CASE GrantMigrate
      <3>1. PICK on \in {"database", "public", "aarohan_meta"} :
              tables' = Granted({"migrate"}, on) \/ tables' = tables
        BY <2>2 DEF GrantMigrate
      <3>2. UNCHANGED <<schemas, usable, defaults, marker, prepared>>
        BY <2>2 DEF GrantMigrate
      <3>3. CASE tables' = tables
        BY <1>1, <3>2, <3>3 DEF Adds, ProvisionTypeOK
      <3>4. CASE tables' = Granted({"migrate"}, on)
        BY <1>1, <3>2, <3>4, GrantAdds DEF ProvisionTypeOK
      <3> QED
        BY <3>1, <3>3, <3>4
    <2> QED
      BY <2>1, <2>2
  <1>5. /\ k \in 1..18 /\ k + 1 \in 1..19 /\ MovedTo(k + 1)
    BY <1>1, <1>2, <1>3, Reached
  <1>6. Settles(k)'
    BY <1>3 DEF Settles
  <1> QED
    BY <1>1, <1>2, <1>4, <1>5, <1>6, AdvanceKeeps

LEMMA ReassignKeeps ==
    ASSUME ProvisioningInv, Reassign
    PROVE  ProvisioningInv'
  <1>1. ProvisionTypeOK /\ Provisions
    BY DEF Reassign, Reaches, ProvisioningInv
  <1>2. PICK k \in 1..19 : provision.left = Left(k)
    BY <1>1, WhereItStands
  <1>3. k = 6
    BY <1>1, <1>2, Reached, Positions DEF Reassign
  <1>4. CASE Reassignable = {}
    <2>1. Done /\ Adds /\ tables' = tables
      BY <1>4 DEF Reassign, Adds
    <2>2. Handed'
      <3>1. \A v \in DOMAIN tables : tables[v] \in Table
        BY <1>1, TablesAre DEF ProvisionTypeOK
      <3> QED
        BY <1>4, <2>1, <3>1 DEF Reassignable, Handed, Table
    <2>3. k \in 1..18 /\ k + 1 \in 1..19 /\ MovedTo(k + 1)
      BY <1>1, <1>2, <1>3, <2>1, Reached
    <2>4. Settles(k)'
      BY <1>3, <2>2 DEF Settles
    <2> QED
      BY <1>1, <1>2, <2>1, <2>3, <2>4, AdvanceKeeps DEF ProvisionTypeOK
  <1>5. CASE Reassignable # {}
    <2>1. PICK v \in DOMAIN tables : tables' = [tables EXCEPT ![v].owner = "migrate"]
      BY <1>5 DEF Reassign, Reassignable
    <2>2. /\ UNCHANGED <<provision, schemas, usable, defaults, marker, prepared>>
      BY <1>5 DEF Reassign
    <2>3. \A u \in DOMAIN tables : tables[u] \in Table
      BY <1>1, TablesAre DEF ProvisionTypeOK
    <2>4. /\ DOMAIN tables' = DOMAIN tables
          /\ tables' = [u \in DOMAIN tables |-> tables'[u]]
          /\ \A u \in DOMAIN tables :
               tables'[u] = IF u = v THEN [tables[v] EXCEPT !.owner = "migrate"]
                                     ELSE tables[u]
      BY <2>1
    <2>5. /\ [tables[v] EXCEPT !.owner = "migrate"] \in Table
          /\ [tables[v] EXCEPT !.owner = "migrate"].users = tables[v].users
          /\ [tables[v] EXCEPT !.owner = "migrate"].owner = "migrate"
      BY <2>3 DEF Table
    <2>6. tables' \in Seq(Table)
      BY <1>1, <2>3, <2>4, <2>5, StillTables DEF ProvisionTypeOK
    <2>7. Adds
      BY <2>2, <2>4, <2>5 DEF Adds
    <2> QED
      BY <1>1, <2>2, <2>6, <2>7, AddsKeeps
      DEF ProvisioningInv, ProvisionTypeOK, Provisions
  <1> QED
    BY <1>4, <1>5

(* A schema that exists by then is granted, and one that does not is       *)
(* passed over before its own statements come.                             *)
LEMMA UsageKeeps ==
    ASSUME ProvisioningInv, GrantUsage
    PROVE  ProvisioningInv'
  <1>1. ProvisionTypeOK /\ Provisions
    BY DEF GrantUsage, Reaches, ProvisioningInv
  <1>2. PICK schema \in {"public", "aarohan_meta"} :
          /\ Reaches("usage", schema)
          /\ IF schema \in schemas THEN Done /\ usable' = usable \union {schema}
                                   ELSE After(3) /\ UNCHANGED usable
    BY DEF GrantUsage
  <1>3. PICK k \in 1..19 : provision.left = Left(k)
    BY <1>1, WhereItStands
  <1>4. \/ k = 7 /\ schema = "public"
        \/ k \in {10, 15} /\ schema = "aarohan_meta"
    <2>1. Statements[k] = <<"usage", schema>>
      BY <1>1, <1>2, <1>3, Reached
    <2> QED
      BY <1>2, <2>1, Positions
  <1>5. Adds /\ tables' \in Seq(Table)
    BY <1>1, <1>2 DEF GrantUsage, Adds, ProvisionTypeOK
  <1>6. CASE schema \in schemas
    <2>1. k \in 1..18 /\ k + 1 \in 1..19 /\ MovedTo(k + 1)
      BY <1>1, <1>2, <1>3, <1>4, <1>6, Reached
    <2>2. Settles(k)'
      BY <1>2, <1>4, <1>6 DEF Settles
    <2> QED
      BY <1>1, <1>3, <1>5, <2>1, <2>2, AdvanceKeeps
  <1>7. CASE schema \notin schemas
    <2>1. k = 10
      BY <1>1, <1>3, <1>4, <1>7 DEF ProvisioningInv, ProvisionTypeOK
    <2>2. k \in 1..18 /\ 13 \in 1..19 /\ MovedTo(13)
      BY <1>1, <1>2, <1>3, <1>7, <2>1, Reached
    <2>3. Settles(k)'
      BY <2>1 DEF Settles
    <2> QED
      BY <1>1, <1>3, <1>5, <2>1, <2>2, <2>3, AdvanceKeeps
  <1> QED
    BY <1>6, <1>7

LEMMA TablesKeeps ==
    ASSUME ProvisioningInv, GrantTables
    PROVE  ProvisioningInv'
  <1>1. ProvisionTypeOK /\ Provisions /\ Done
    BY DEF GrantTables, Reaches, ProvisioningInv
  <1>2. PICK schema \in {"public", "aarohan_meta"} :
          \/ Reaches("tables", schema) /\ tables' = Granted({"runtime"}, schema)
          \/ Reaches("all", schema) /\ tables' = Granted({"migrate"}, schema)
    BY DEF GrantTables
  <1>3. PICK k \in 1..19 : provision.left = Left(k)
    BY <1>1, WhereItStands
  <1>4. UNCHANGED <<schemas, usable, defaults, marker, prepared>>
    BY DEF GrantTables
  <1>5. CASE Reaches("tables", schema) /\ tables' = Granted({"runtime"}, schema)
    <2>1. \/ k = 8 /\ schema = "public"
          \/ k \in {11, 16} /\ schema = "aarohan_meta"
      <3>1. Statements[k] = <<"tables", schema>>
        BY <1>1, <1>3, <1>5, Reached
      <3> QED
        BY <1>2, <3>1, Positions
    <2>2. Adds /\ tables' \in Seq(Table) /\ Served(schema)'
      BY <1>1, <1>4, <1>5, GrantAdds DEF ProvisionTypeOK
    <2>3. k \in 1..18 /\ k + 1 \in 1..19 /\ MovedTo(k + 1)
      BY <1>1, <1>3, <2>1, Reached
    <2>4. Settles(k)'
      BY <2>1, <2>2 DEF Settles
    <2> QED
      BY <1>1, <1>3, <2>2, <2>3, <2>4, AdvanceKeeps
  <1>6. CASE Reaches("all", schema) /\ tables' = Granted({"migrate"}, schema)
    <2>1. k = 17
      BY <1>1, <1>3, <1>6, Reached, Positions
    <2>2. Adds /\ tables' \in Seq(Table)
      BY <1>1, <1>4, <1>6, GrantAdds DEF ProvisionTypeOK
    <2>3. k \in 1..18 /\ k + 1 \in 1..19 /\ MovedTo(k + 1)
      BY <1>1, <1>3, <2>1, Reached
    <2>4. Settles(k)'
      BY <2>1 DEF Settles
    <2> QED
      BY <1>1, <1>3, <2>2, <2>3, <2>4, AdvanceKeeps
  <1> QED
    BY <1>2, <1>5, <1>6

LEMMA DefaultKeeps ==
    ASSUME ProvisioningInv, SetDefault
    PROVE  ProvisioningInv'
  <1>1. ProvisionTypeOK /\ Provisions /\ Done
    BY DEF SetDefault, Reaches, ProvisioningInv
  <1>2. PICK schema \in {"public", "aarohan_meta"} :
          Reaches("default", schema) /\ defaults' = defaults \union DefaultFor(schema)
    BY DEF SetDefault
  <1>3. PICK k \in 1..19 : provision.left = Left(k)
    BY <1>1, WhereItStands
  <1>4. \/ k = 9 /\ schema = "public"
        \/ k \in {12, 18} /\ schema = "aarohan_meta"
    <2>1. Statements[k] = <<"default", schema>>
      BY <1>1, <1>2, <1>3, Reached
    <2> QED
      BY <1>2, <2>1, Positions
  <1>5. Adds /\ tables' \in Seq(Table)
    BY <1>1, <1>2 DEF SetDefault, Adds, ProvisionTypeOK
  <1>6. k \in 1..18 /\ k + 1 \in 1..19 /\ MovedTo(k + 1)
    BY <1>1, <1>3, <1>4, Reached
  <1>7. Settles(k)'
    BY <1>2, <1>4 DEF Settles, Defaulted, DefaultFor
  <1> QED
    BY <1>1, <1>3, <1>5, <1>6, <1>7, AdvanceKeeps

LEMMA MetaKeeps ==
    ASSUME ProvisioningInv, EnsureMetaSchema
    PROVE  ProvisioningInv'
  <1>1. ProvisionTypeOK /\ Provisions /\ Done
    BY DEF EnsureMetaSchema, Reaches, ProvisioningInv
  <1>2. \/ Reaches("schema", "aarohan_meta") /\ schemas' = schemas \union {"aarohan_meta"}
        \/ Reaches("owner", "aarohan_meta") /\ schemas' = schemas
    BY DEF EnsureMetaSchema
  <1>3. PICK k \in 1..19 : provision.left = Left(k)
    BY <1>1, WhereItStands
  <1>4. \/ k = 13 /\ "aarohan_meta" \in schemas'
        \/ k = 14
    BY <1>1, <1>2, <1>3, Reached, Positions
  <1>5. Adds /\ tables' \in Seq(Table)
    BY <1>1, <1>2 DEF EnsureMetaSchema, Adds, ProvisionTypeOK
  <1>6. k \in 1..18 /\ k + 1 \in 1..19 /\ MovedTo(k + 1)
    BY <1>1, <1>3, <1>4, Reached
  <1>7. Settles(k)'
    BY <1>4 DEF Settles
  <1> QED
    BY <1>1, <1>3, <1>5, <1>6, <1>7, AdvanceKeeps

(* A migration's table is usable at once, if the migration role made it    *)
(* where default privileges are stated; other migrations overtake.         *)
LEMMA MigrateKeeps ==
    ASSUME ProvisioningInv, NEW role \in {"bootstrap", "migrate"}, Migrate(role)
    PROVE  ProvisioningInv'
  <1>1. ProvisionTypeOK /\ tables \in Seq(Table)
    BY DEF ProvisioningInv, ProvisionTypeOK
  <1> DEFINE served == <<role, SchemaOf(NextVersion)>> \in defaults
  <1>2. PICK new : new = [owner |-> role, users |-> IF served THEN {"runtime"} ELSE {}]
    OBVIOUS
  <1>3. new \in Table /\ new.owner = role /\ (served => "runtime" \in new.users)
    BY <1>2 DEF Table
  <1>4. tables' = Append(tables, new)
    BY <1>2 DEF Migrate
  <1>5. /\ tables' \in Seq(Table)
        /\ DOMAIN tables' = DOMAIN tables \union {NextVersion}
        /\ \A v \in DOMAIN tables : tables'[v] = tables[v]
        /\ tables'[NextVersion] = new
    <2>1. /\ tables' \in Seq(Table) /\ Len(tables') = NextVersion
          /\ \A v \in 1..Len(tables) : tables'[v] = tables[v]
          /\ tables'[NextVersion] = new
      BY <1>1, <1>3, <1>4, AppendProperties DEF NextVersion
    <2>2. DOMAIN tables = 1..Len(tables) /\ DOMAIN tables' = 1..NextVersion /\ Len(tables) \in Nat
      BY <1>1, <2>1, TablesAre, LenProperties
    <2>3. 1..NextVersion = 1..Len(tables) \union {NextVersion}
      BY <2>2 DEF NextVersion
    <2> QED
      BY <2>1, <2>2, <2>3
  <1>6. /\ defaults' = defaults /\ marker' = marker /\ usable' = usable
        /\ schemas \subseteq schemas'
        /\ prepared' = (prepared /\ role = "migrate")
        /\ provision' = IF Provisions
                        THEN [provision EXCEPT !.overtaken =
                                @ \/ role = "bootstrap" \/ ~served]
                        ELSE provision
    BY DEF Migrate
  <1>7. SchemaOf(NextVersion) \in {"public", "aarohan_meta"}
    BY DEF SchemaOf
  <1>8. /\ \A schema : /\ Defaulted(schema)' <=> Defaulted(schema)
                       /\ Served(schema) /\ served => Served(schema)'
        /\ role = "migrate" /\ Handed => Handed'
    BY <1>3, <1>5, <1>6 DEF Defaulted, Handed, Served, In
  <1>9. role = "migrate" /\ Ready => served
    BY <1>7 DEF Ready, Defaulted
  <1>10. provision' \in Run \union {NotProvisioning} /\ prepared' \in BOOLEAN
    BY <1>1, <1>6 DEF ProvisionTypeOK, Provisions, Run
  <1>11. ASSUME prepared' PROVE Ready'
    <2>1. role = "migrate" /\ Ready
      BY <1>6, <1>11 DEF ProvisioningInv
    <2> QED
      BY <1>6, <1>8, <1>9, <2>1 DEF Ready
  <1>12. ASSUME Provisions', NEW k \in 1..19, provision'.left = Left(k)
         PROVE  /\ k > 13 => "aarohan_meta" \in schemas'
                /\ ~provision'.overtaken => Settled(k)'
    <2>1. Provisions /\ provision \in Run
      BY <1>1, <1>6, <1>12 DEF ProvisionTypeOK, Provisions
    <2>2. /\ provision'.left = provision.left
          /\ ~provision'.overtaken => ~provision.overtaken /\ role = "migrate" /\ served
      BY <1>6, <2>1 DEF Run
    <2>3. /\ k > 13 => "aarohan_meta" \in schemas
          /\ ~provision.overtaken => Settled(k)
      BY <1>12, <2>1, <2>2 DEF ProvisioningInv
    <2>4. ASSUME ~provision'.overtaken PROVE Settled(k)'
      <3>1. Settled(k) /\ role = "migrate" /\ served
        BY <2>2, <2>3, <2>4
      <3> HIDE DEF served
      <3> QED
        BY <1>6, <1>8, <3>1 DEF Settled
    <2> QED
      BY <1>6, <2>3, <2>4
  <1> QED
    BY <1>1, <1>5, <1>6, <1>10, <1>11, <1>12 DEF ProvisioningInv, ProvisionTypeOK

LEMMA CutOverKeeps ==
    ASSUME ProvisioningInv, CutOver
    PROVE  ProvisioningInv'
  <1>1. PICK new : new = [owner |-> "candidate", users |-> {}]
    OBVIOUS
  <1>2. new \in Table
    BY <1>1 DEF Table
  <1>3. /\ DOMAIN tables' = DOMAIN tables /\ \A v \in DOMAIN tables : tables'[v] = new
        /\ tables' = [v \in DOMAIN tables |-> tables'[v]]
    BY <1>1 DEF CutOver
  <1>4. tables' \in Seq(Table)
    BY <1>2, <1>3, StillTables DEF ProvisioningInv, ProvisionTypeOK
  <1> QED
    BY <1>4 DEF CutOver, ProvisioningInv, ProvisionTypeOK, Provisions

LEMMA ProvisionKeeps ==
    ASSUME ProvisioningInv, Provision
    PROVE  ProvisioningInv'
  <1>1. /\ UNCHANGED <<tables, schemas, usable, defaults, marker, prepared>>
        /\ provision' = [left |-> Left(1), overtaken |-> FALSE]
    BY LeftIs DEF Provision
  <1>2. provision' \in Run
    BY <1>1 DEF Run
  <1>3. ProvisionTypeOK'
    BY <1>1, <1>2 DEF ProvisioningInv, ProvisionTypeOK
  <1>4. Settled(1)'
    BY DEF Settled
  <1>5. \A k \in 1..19 : provision'.left = Left(k) => k = 1
    <2>1. provision'.left = Left(1) /\ 1 \in 1..19
      BY <1>1
    <2> QED
      BY <2>1, LeftIs
  <1>6. Ready => Ready'
    BY <1>1 DEF Ready, Handed, Served, Defaulted, In
  <1> QED
    BY <1>1, <1>3, <1>4, <1>5, <1>6 DEF ProvisioningInv

LEMMA MarkerKeeps ==
    ASSUME ProvisioningInv, EnsureMarker
    PROVE  ProvisioningInv'
  <1>1. /\ ProvisionTypeOK /\ Provisions /\ provision' = NotProvisioning
        /\ UNCHANGED <<tables, schemas, usable, defaults>>
        /\ prepared' = (prepared \/ (marker' = "mine" /\ ~provision.overtaken))
        /\ marker = "mine" => marker' = "mine"
    BY DEF EnsureMarker, Reaches, ProvisioningInv
  <1>2. PICK k \in 1..19 : provision.left = Left(k)
    BY <1>1, WhereItStands
  <1>3. k = 19
    <2>1. Statements[k] = <<"marker", "aarohan_meta">>
      BY <1>1, <1>2, Reached DEF EnsureMarker
    <2> QED
      BY <2>1, Positions
  <1>4. ~provision.overtaken => Settled(19)
    BY <1>1, <1>2, <1>3 DEF ProvisioningInv
  <1>5. marker' = "mine" /\ ~provision.overtaken => Ready'
    BY <1>1, <1>4 DEF Settled, Ready, Handed, Served, Defaulted, In
  <1>6. Ready => Ready'
    BY <1>1 DEF Ready, Handed, Served, Defaulted, In
  <1> QED
    BY <1>1, <1>5, <1>6 DEF ProvisioningInv, ProvisionTypeOK, Provisions

LEMMA KilledKeeps ==
    ASSUME ProvisioningInv, ProvisionKilled \/ UNCHANGED provisionVars
    PROVE  ProvisioningInv'
  <1>1. Ready => Ready'
    BY DEF ProvisionKilled, provisionVars, Ready, Handed, Served, Defaulted, In
  <1>2. CASE ProvisionKilled
    BY <1>1, <1>2 DEF ProvisionKilled, ProvisioningInv, ProvisionTypeOK, Provisions
  <1>3. CASE UNCHANGED provisionVars
    BY <1>1, <1>3 DEF provisionVars, ProvisioningInv, ProvisionTypeOK, Provisions, Handed,
                Served, Defaulted, In, Settled
  <1> QED
    BY <1>2, <1>3

(* Once a run of provisioning passed that no migration overtook, statement *)
(* by statement and after any others that died or failed, the application  *)
(* may use every table and its schema, also of migrations that come later  *)
(* or run meanwhile, and the marker is its own (provision_owner).          *)
THEOREM PreparedServes == ProvisioningSpec => []PreparedForRuntime
  <1>1. ProvisioningInit => ProvisioningInv
    <2>1. <<>> \in Seq(Table)
      BY EmptySeq
    <2> QED
      BY <2>1 DEF ProvisioningInit, ProvisioningInv, ProvisionTypeOK, Provisions
  <1>2. ProvisioningInv /\ [ProvisioningNext]_provisionVars => ProvisioningInv'
    BY MigrateKeeps, CutOverKeeps, ProvisionKeeps, RoleKeeps, ReassignKeeps, UsageKeeps,
       TablesKeeps, DefaultKeeps, MetaKeeps, MarkerKeeps, KilledKeeps DEF ProvisioningNext
  <1>3. ProvisioningInv => PreparedForRuntime
    BY DEF ProvisioningInv, PreparedForRuntime, Ready, Handed, Served, In, SchemaOf
  <1>4. ProvisioningSpec => []ProvisioningInv
    BY <1>1, <1>2, PTL DEF ProvisioningSpec
  <1> QED
    BY <1>3, <1>4, PTL

-----------------------------------------------------------------------------
(* The cutover.  What each script has done so far, told from the databases *)
(* that were there when it began.                                          *)
TypedIn == {"candidate", "mistyped"}
Db == [data : {"damaged", "rebuilt"},
       marker : {OldOwner, NewOwner, NoMarker} \union {CandidateMarker(u) : u \in TypedIn},
       guarded : BOOLEAN]

(* The damaged data are never where the candidate's marker is repaired.    *)
Well(f) ==
    /\ f \in [DOMAIN f -> Db]
    /\ \A n \in DOMAIN f : /\ f[n].data = "damaged" <=> f[n].marker = OldOwner
                           /\ f[n].data = "damaged" => f[n].guarded
    /\ Candidate \in DOMAIN f => f[Candidate].data = "rebuilt"

Was == script.before
Working(name, left, u, n, whole) ==
    script = [name |-> name, left |-> left, given |-> u, run |-> n,
              whole |-> whole, before |-> Was]
Began(n) ==
    {Live, Candidate} \subseteq DOMAIN Was /\ Archive(n) \notin DOMAIN Was /\ Well(Was)

OthersKept(n) ==
    \A d \in DOMAIN Was \ {Live, Candidate} : d \in DOMAIN dbs /\ dbs[d] = Was[d]
Archived(n) ==
    /\ DOMAIN dbs = (DOMAIN Was \ {Live}) \union {Archive(n)}
    /\ dbs[Archive(n)] = Was[Live] /\ dbs[Candidate] = Was[Candidate] /\ OthersKept(n)
Promoted(n) ==
    /\ DOMAIN dbs = (DOMAIN Was \ {Candidate}) \union {Archive(n)}
    /\ dbs[Archive(n)] = Was[Live] /\ dbs[Live].data = Was[Candidate].data /\ OthersKept(n)
Remarked(db, u) == db.marker = CandidateMarker(u) /\ db.guarded
Demoted(n, u) ==
    /\ DOMAIN dbs = (DOMAIN Was \ {Live}) \union {Archive(n)}
    /\ dbs[Archive(n)] = Was[Live] /\ dbs[Candidate].data = Was[Candidate].data
    /\ Remarked(dbs[Candidate], u) /\ OthersKept(n)

InCutover(k, n, u) ==
    /\ Working("cutover", SubSeq(CutoverSteps(n, u), k, 8), u, n, TRUE) /\ Began(n)
    /\ k = 1 => dbs = Was
    /\ k = 2 => Archived(n)
    /\ k > 2 => Promoted(n)
InPutBack(n, u) ==
    Working("undo", <<Rename(Archive(n), Live)>>, u, n, TRUE) /\ Began(n) /\ Archived(n)
InUndo(k, n, u) ==
    /\ Working("undo", SubSeq(Undo(n, u), k, 6), u, n, TRUE) /\ Began(n)
    /\ k < 6 => Promoted(n)
    /\ k > 3 /\ k < 6 => dbs[Live].marker = CandidateMarker(u)
    /\ k = 5 => dbs[Live].guarded
    /\ k = 6 => Demoted(n, u)
InBrokenUndo(n, u) == Working("undo", SubSeq(Undo(n, u), 6, 6), u, n, FALSE)
InRollback(k, n, m) ==
    Working("rollback", SubSeq(RollbackSteps(n, Archive(m)), k, 2), "candidate", n, TRUE)
InRepair(k, n) ==
    /\ Working("repair", SubSeq(Marking(Candidate, CandidateMarker("candidate")), k, 4),
               "candidate", n, TRUE)
    /\ Candidate \in DOMAIN dbs

Started1 == \E n \in 0..(runs - 1) :
    \/ \E u \in TypedIn : \/ \E k \in 1..8 : InCutover(k, n, u)
                          \/ InPutBack(n, u)
                          \/ \E k \in 1..6 : InUndo(k, n, u)
                          \/ InBrokenUndo(n, u)
    \/ \E k \in 1..2, m \in 0..MaxRuns : InRollback(k, n, m)
    \/ \E k \in 1..4 : InRepair(k, n)

Fresh == \A n \in Nat : Archive(n) \in DOMAIN dbs => n < runs
CutoverInv ==
    /\ Well(dbs) /\ runs \in Nat /\ Fresh
    /\ script = NoScript \/ (script.name = "reported" /\ Restored) \/ Started1

LEMMA Joined ==
    ASSUME NEW S, NEW s \in Seq(S), NEW t \in Seq(S), NEW whole, whole = s \o t
    PROVE  /\ whole \in Seq(S) /\ Len(whole) = Len(s) + Len(t)
           /\ \A i \in 1..Len(s) + Len(t) :
                whole[i] = IF i <= Len(s) THEN s[i] ELSE t[i - Len(s)]
  BY ConcatProperties

LEMMA MarkingList ==
    ASSUME NEW name, NEW mark, NEW S, \A i \in 1..4 : Marking(name, mark)[i] \in S
    PROVE  /\ Marking(name, mark) \in Seq(S) /\ Len(Marking(name, mark)) = 4
  <1>1. Marking(name, mark) \in [1..4 -> S]
    BY DEF Marking
  <1>2. Marking(name, mark) \in Seq(S)
    BY <1>1, SeqDef
  <1>3. DOMAIN Marking(name, mark) = 1..4
    BY DEF Marking
  <1>4. PICK len \in Nat : len = Len(Marking(name, mark)) /\ 1..len = 1..4
    BY <1>2, <1>3, LenProperties
  <1>5. 4 \in 1..len
    BY <1>4
  <1>6. len \in 1..len
    BY <1>5
  <1>7. len \in 1..4
    BY <1>4, <1>6
  <1> QED
    BY <1>2, <1>4, <1>5, <1>7

Renames == {Rename(from, to) : from, to \in {Live, Candidate} \union
                {Archive(n) : n \in Nat} \union {Failed(n) : n \in Nat}}
MarkersSet == {NewOwner} \union {CandidateMarker(u) : u \in TypedIn}
Marks == {Marking(name, mark)[i] : name \in {Live, Candidate}, mark \in MarkersSet,
                                   i \in 1..4}
Checks == {Check(NewOwner)} \union {Check(CandidateMarker(u)) : u \in TypedIn}
Steps == Renames \union Marks \union Checks

LEMMA MarkingSteps ==
    ASSUME NEW name \in {Live, Candidate},
           NEW mark \in MarkersSet
    PROVE  /\ Marking(name, mark) \in Seq(Steps) /\ Len(Marking(name, mark)) = 4
           /\ \A i \in 1..4 : /\ Marking(name, mark)[i] \in Marks
                              /\ Marking(name, mark)[i].kind = "mark"
                              /\ Marking(name, mark)[i].on = name
                              /\ Marking(name, mark)[i].statement = i
                              /\ Marking(name, mark)[i].marker = mark
  <1>1. \A i \in 1..4 : Marking(name, mark)[i] \in Marks
    BY DEF Marks
  <1>2. Marking(name, mark) \in Seq(Steps) /\ Len(Marking(name, mark)) = 4
    BY <1>1, MarkingList DEF Steps
  <1> QED
    BY <1>1, <1>2 DEF Marking

LEMMA CutoverList ==
    ASSUME NEW n \in Nat, NEW u \in TypedIn
    PROVE  /\ CutoverSteps(n, u) \in Seq(Steps) /\ Len(CutoverSteps(n, u)) = 8
           /\ CutoverSteps(n, u)[1] = Rename(Live, Archive(n))
           /\ CutoverSteps(n, u)[2] = Rename(Candidate, Live)
           /\ CutoverSteps(n, u)[3] = Check(CandidateMarker(u))
           /\ CutoverSteps(n, u)[8] = Check(NewOwner)
           /\ \A i \in 4..7 : /\ CutoverSteps(n, u)[i].kind = "mark"
                              /\ CutoverSteps(n, u)[i].on = Live
                              /\ CutoverSteps(n, u)[i].statement = i - 3
                              /\ CutoverSteps(n, u)[i].marker = NewOwner
  <1>1. PICK first : first = <<Rename(Live, Archive(n)), Rename(Candidate, Live),
                               Check(CandidateMarker(u))>>
    OBVIOUS
  <1>2. PICK last : last = <<Check(NewOwner)>>
    OBVIOUS
  <1>3. PICK marking : marking = Marking(Live, NewOwner)
    OBVIOUS
  <1>4. /\ first \in Seq(Steps) /\ Len(first) = 3 /\ first[1] = Rename(Live, Archive(n))
        /\ first[2] = Rename(Candidate, Live) /\ first[3] = Check(CandidateMarker(u))
    BY <1>1 DEF Steps, Renames, Checks
  <1>5. last \in Seq(Steps) /\ Len(last) = 1 /\ last[1] = Check(NewOwner)
    BY <1>2 DEF Steps, Checks
  <1>6. /\ marking \in Seq(Steps) /\ Len(marking) = 4
        /\ \A i \in 1..4 : marking[i].kind = "mark" /\ marking[i].on = Live
                           /\ marking[i].statement = i /\ marking[i].marker = NewOwner
    BY <1>3, MarkingSteps DEF MarkersSet
  <1>7. PICK start : start = first \o marking
    OBVIOUS
  <1>8. /\ start \in Seq(Steps) /\ Len(start) = 7
        /\ \A i \in 1..7 : start[i] = IF i <= 3 THEN first[i] ELSE marking[i - 3]
    <2>1. /\ start \in Seq(Steps)
          /\ Len(start) = Len(first) + Len(marking)
          /\ \A i \in 1..Len(first) + Len(marking) :
               start[i] = IF i <= Len(first) THEN first[i] ELSE marking[i - Len(first)]
      BY <1>4, <1>6, <1>7, ConcatProperties, ZenonT(60)
    <2> QED
      BY <1>4, <1>6, <1>7, <2>1
  <1>9. PICK steps : steps = start \o last /\ steps = CutoverSteps(n, u)
    BY <1>1, <1>2, <1>3, <1>7 DEF CutoverSteps
  <1>10. /\ steps \in Seq(Steps) /\ Len(steps) = 8
         /\ \A i \in 1..8 : steps[i] = IF i <= 7 THEN start[i] ELSE last[i - 7]
    <2>1. /\ steps \in Seq(Steps)
          /\ Len(steps) = Len(start) + Len(last)
          /\ \A i \in 1..Len(start) + Len(last) :
               steps[i] = IF i <= Len(start) THEN start[i] ELSE last[i - Len(start)]
      <3>1. start \in Seq(Steps) /\ last \in Seq(Steps) /\ steps = start \o last
        BY <1>5, <1>8, <1>9
      <3> QED
        BY <3>1, Joined
    <2> QED
      BY <1>5, <1>8, <1>9, <2>1
  <1>11. \A i \in 4..7 : i - 3 \in 1..4 /\ steps[i] = marking[i - 3]
    BY <1>8, <1>10
  <1> QED
    BY <1>4, <1>5, <1>6, <1>8, <1>9, <1>10, <1>11

LEMMA UndoList ==
    ASSUME NEW n \in Nat, NEW u \in TypedIn
    PROVE  /\ Undo(n, u) \in Seq(Steps) /\ Len(Undo(n, u)) = 6
           /\ \A i \in 1..4 : /\ Undo(n, u)[i].kind = "mark" /\ Undo(n, u)[i].on = Live
                              /\ Undo(n, u)[i].statement = i
                              /\ Undo(n, u)[i].marker = CandidateMarker(u)
           /\ Undo(n, u)[5] = Rename(Live, Candidate)
           /\ Undo(n, u)[6] = Rename(Archive(n), Live)
  <1>1. PICK last : last = <<Rename(Live, Candidate), Rename(Archive(n), Live)>>
    OBVIOUS
  <1>2. PICK marking : marking = Marking(Live, CandidateMarker(u))
    OBVIOUS
  <1>3. /\ last \in Seq(Steps) /\ Len(last) = 2 /\ last[1] = Rename(Live, Candidate)
        /\ last[2] = Rename(Archive(n), Live)
    BY <1>1 DEF Steps, Renames
  <1>4. /\ marking \in Seq(Steps) /\ Len(marking) = 4
        /\ \A i \in 1..4 : marking[i].kind = "mark" /\ marking[i].on = Live
                           /\ marking[i].statement = i
                           /\ marking[i].marker = CandidateMarker(u)
    BY <1>2, MarkingSteps DEF MarkersSet
  <1>5. PICK steps : steps = marking \o last /\ steps = Undo(n, u)
    BY <1>1, <1>2 DEF Undo
  <1>6. /\ steps \in Seq(Steps) /\ Len(steps) = 6
        /\ \A i \in 1..6 : steps[i] = IF i <= 4 THEN marking[i] ELSE last[i - 4]
    <2>1. /\ steps \in Seq(Steps)
          /\ Len(steps) = Len(marking) + Len(last)
          /\ \A i \in 1..Len(marking) + Len(last) :
               steps[i] = IF i <= Len(marking) THEN marking[i] ELSE last[i - Len(marking)]
      <3>1. marking \in Seq(Steps) /\ last \in Seq(Steps) /\ steps = marking \o last
        BY <1>3, <1>4, <1>5
      <3> QED
        BY <3>1, Joined
    <2> QED
      BY <1>3, <1>4, <1>5, <2>1
  <1> QED
    BY <1>3, <1>4, <1>5, <1>6

LEMMA RollbackList ==
    ASSUME NEW n \in Nat, NEW m \in Nat
    PROVE  /\ RollbackSteps(n, Archive(m)) \in Seq(Steps)
           /\ Len(RollbackSteps(n, Archive(m))) = 2
           /\ RollbackSteps(n, Archive(m))[1] = Rename(Live, Failed(n))
           /\ RollbackSteps(n, Archive(m))[2] = Rename(Archive(m), Live)
  BY DEF RollbackSteps, Steps, Renames

LEMMA PutBackList ==
    ASSUME NEW n \in Nat
    PROVE  /\ <<Rename(Archive(n), Live)>> \in Seq(Steps)
           /\ Len(<<Rename(Archive(n), Live)>>) = 1
           /\ <<Rename(Archive(n), Live)>>[1] = Rename(Archive(n), Live)
  BY DEF Steps, Renames

LEMMA NamesDiffer ==
    /\ Live # Candidate
    /\ \A n : Archive(n) \notin {Live, Candidate} /\ Failed(n) \notin {Live, Candidate}
    /\ \A m, n : Archive(m) # Failed(n) /\ (Archive(m) = Archive(n) => m = n)
  BY DEF Live, Candidate, Archive, Failed

LEMMA Moved ==
    ASSUME Well(dbs), NEW from, NEW into, from \in DOMAIN dbs, into \notin DOMAIN dbs,
           dbs' = [n \in (DOMAIN dbs \ {from}) \union {into} |->
                     IF n = into THEN dbs[from] ELSE dbs[n]],
           into = Candidate => dbs[from].data = "rebuilt"
    PROVE  /\ Well(dbs') /\ DOMAIN dbs' = (DOMAIN dbs \ {from}) \union {into}
           /\ dbs'[into] = dbs[from]
           /\ \A d \in DOMAIN dbs \ {from} : dbs'[d] = dbs[d]
  <1>1. /\ DOMAIN dbs' = (DOMAIN dbs \ {from}) \union {into}
        /\ dbs'[into] = dbs[from]
        /\ \A d \in DOMAIN dbs \ {from} : dbs'[d] = dbs[d]
    OBVIOUS
  <1>2. \A d \in DOMAIN dbs' : dbs'[d] \in Db
    BY <1>1 DEF Well
  <1>3. dbs' \in [DOMAIN dbs' -> Db]
    BY <1>2
  <1>4. \A d \in DOMAIN dbs' : \E e \in DOMAIN dbs : dbs'[d] = dbs[e]
    BY <1>1
  <1>5. Candidate \in DOMAIN dbs' => dbs'[Candidate].data = "rebuilt"
    BY <1>1 DEF Well
  <1> QED
    BY <1>1, <1>3, <1>4, <1>5 DEF Well

LEMMA Remade ==
    ASSUME Well(dbs), NEW on \in DOMAIN dbs, dbs[on].data = "rebuilt", NEW step,
           step.statement \in 1..4, step.marker \in MarkersSet,
           dbs' = [dbs EXCEPT ![on] = Marked(dbs[on], step)]
    PROVE  /\ Well(dbs') /\ DOMAIN dbs' = DOMAIN dbs /\ dbs'[on].data = "rebuilt"
           /\ \A d \in DOMAIN dbs \ {on} : dbs'[d] = dbs[d]
           /\ step.statement = 3 => dbs'[on].marker = step.marker
           /\ step.statement = 4 => dbs'[on].guarded /\ dbs'[on].marker = dbs[on].marker
  <1>1. PICK db \in Db : db = dbs[on] /\ db.data = "rebuilt" /\ db.marker # OldOwner
    BY DEF Well
  <1>2. PICK new : new = Marked(db, step)
    OBVIOUS
  <1>3. /\ DOMAIN dbs' = DOMAIN dbs /\ dbs'[on] = new
        /\ \A d \in DOMAIN dbs \ {on} : dbs'[d] = dbs[d]
    BY <1>1, <1>2
  <1>4. /\ step.marker # OldOwner /\ NoMarker # OldOwner
        /\ step.marker \in {OldOwner, NewOwner, NoMarker}
             \union {CandidateMarker(u) : u \in TypedIn}
    BY DEF MarkersSet, OldOwner, NewOwner, NoMarker, CandidateMarker, Marker
  <1>5. /\ new \in Db /\ new.data = "rebuilt" /\ new.marker # OldOwner
        /\ step.statement = 3 => new.marker = step.marker
        /\ step.statement = 4 => new.guarded /\ new.marker = db.marker
    <2>1. CASE step.statement = 1
      <3>1. new = [db EXCEPT !.guarded = FALSE]
        BY <1>2, <2>1 DEF Marked
      <3>2. new \in Db
        BY <1>1, <3>1 DEF Db
      <3>3. new.data = db.data /\ new.marker = db.marker /\ new.guarded = FALSE
        BY <1>1, <3>1 DEF Db
      <3> QED
        BY <1>1, <2>1, <3>2, <3>3
    <2>2. CASE step.statement = 2
      <3>1. new = [db EXCEPT !.marker = NoMarker]
        BY <1>2, <2>2 DEF Marked
      <3> QED
        BY <1>1, <1>4, <2>2, <3>1 DEF Db
    <2>3. CASE step.statement = 3
      <3>1. new = [db EXCEPT !.marker = step.marker]
        BY <1>2, <2>3 DEF Marked
      <3> QED
        BY <1>1, <1>4, <2>3, <3>1 DEF Db
    <2>4. CASE step.statement = 4
      <3>1. new = [db EXCEPT !.guarded = TRUE]
        BY <1>2, <2>4 DEF Marked
      <3>2. new \in Db
        BY <1>1, <3>1 DEF Db
      <3>3. new.data = db.data /\ new.marker = db.marker /\ new.guarded = TRUE
        BY <1>1, <3>1 DEF Db
      <3> QED
        BY <1>1, <2>4, <3>2, <3>3
    <2> QED
      BY <2>1, <2>2, <2>3, <2>4
  <1>6. dbs' \in [DOMAIN dbs' -> Db]
    BY <1>3, <1>5 DEF Well
  <1>7. \A d \in DOMAIN dbs' : /\ dbs'[d].data = "damaged" <=> dbs'[d].marker = OldOwner
                               /\ dbs'[d].data = "damaged" => dbs'[d].guarded
    BY <1>3, <1>5 DEF Well
  <1>8. Candidate \in DOMAIN dbs' => dbs'[Candidate].data = "rebuilt"
    BY <1>3, <1>5 DEF Well
  <1> QED
    BY <1>1, <1>3, <1>5, <1>6, <1>7, <1>8 DEF Well

LEMMA NowIs ==
    ASSUME NEW S, NEW s \in Seq(S), NEW k \in 1..Len(s), NEW name, NEW u, NEW n, NEW whole,
           Working(name, SubSeq(s, k, Len(s)), u, n, whole)
    PROVE  /\ Now = s[k] /\ Len(script.left) = Len(s) - k + 1
           /\ Tail(script.left) = SubSeq(s, k + 1, Len(s))
           /\ script.name = name /\ script.given = u /\ script.run = n /\ script.whole = whole
  <1>1. script.left = SubSeq(s, k, Len(s))
    BY DEF Working
  <1>2. script.name = name /\ script.given = u /\ script.run = n /\ script.whole = whole
    BY DEF Working
  <1> QED
    BY <1>1, <1>2, Rest DEF Now

LEMMA ProceedsTo ==
    ASSUME NEW S, NEW s \in Seq(S), NEW k \in 1..Len(s), NEW name, NEW u, NEW n,
           NEW whole \in BOOLEAN, NEW done \in BOOLEAN, NEW still \in BOOLEAN,
           still = (whole /\ done),
           Working(name, SubSeq(s, k, Len(s)), u, n, whole), Proceeds(done)
    PROVE  /\ Was' = Was
           /\ k < Len(s) => Working(name, SubSeq(s, k + 1, Len(s)), u, n, still)'
           /\ k = Len(s) => /\ script'.name = "reported" /\ script'.given = u
                            /\ script'.outcome = IF name # "undo" THEN "passed"
                                                 ELSE IF done /\ whole THEN "undone"
                                                 ELSE "broken"
  <1>1. /\ Len(script.left) = Len(s) - k + 1 /\ Tail(script.left) = SubSeq(s, k + 1, Len(s))
        /\ script.name = name /\ script.given = u /\ script.run = n /\ script.whole = whole
    BY NowIs
  <1>2. CASE k < Len(s)
    <2>1. Len(script.left) # 1
      BY <1>1, <1>2, LenProperties
    <2>2. script' = [script EXCEPT !.left = SubSeq(s, k + 1, Len(s)), !.whole = @ /\ done]
      BY <1>1, <2>1 DEF Proceeds
    <2>3. script' = [name |-> name, left |-> SubSeq(s, k + 1, Len(s)), given |-> u, run |-> n,
                     whole |-> still, before |-> Was]
      BY <2>2 DEF Working
    <2> QED
      BY <1>2, <2>3 DEF Working, Was
  <1>3. CASE k = Len(s)
    <2>1. Len(script.left) = 1
      BY <1>1, <1>3, LenProperties
    <2>2. script' = Reported(IF name # "undo" THEN "passed"
                             ELSE IF done /\ whole THEN "undone" ELSE "broken", Was)
      BY <1>1, <2>1 DEF Proceeds, Was
    <2> QED
      BY <1>1, <1>3, <2>2 DEF Reported, Was
  <1> QED
    BY <1>2, <1>3

LEMMA Kinds ==
    /\ \A from, into : /\ Rename(from, into).kind = "rename"
                       /\ Rename(from, into).from = from /\ Rename(from, into).to = into
    /\ \A m : Check(m).kind = "check" /\ Check(m).marker = m
  BY DEF Rename, Check

LEMMA CutoverKinds ==
    ASSUME NEW n \in Nat, NEW u \in TypedIn, NEW steps, steps = CutoverSteps(n, u)
    PROVE  /\ steps[1].from = Live /\ steps[1].to = Archive(n)
           /\ steps[2].from = Candidate /\ steps[2].to = Live
           /\ steps[1].kind = "rename" /\ steps[2].kind = "rename"
           /\ steps[3].kind = "check" /\ steps[8].kind = "check"
           /\ \A i \in 4..7 : steps[i].kind = "mark"
  BY CutoverList, Kinds

(* A script that ended leaves nothing to remember but its report.          *)
LEMMA Ended ==
    ASSUME Well(dbs'), runs' \in Nat, Fresh',
           script' = NoScript \/ (script'.name = "reported" /\ Restored')
    PROVE  CutoverInv'
  BY DEF CutoverInv

LEMMA Below == ASSUME NEW n \in Nat, NEW m \in Nat, n < m PROVE n \in 0..(m - 1)
  OBVIOUS

LEMMA GoesOn ==
    ASSUME Well(dbs'), runs' \in Nat, Fresh', NEW n \in Nat, n < runs', NEW k \in Nat,
           \/ \E u \in TypedIn :
                \/ k \in 1..8 /\ InCutover(k, n, u)'
                \/ InPutBack(n, u)'
                \/ k \in 1..6 /\ InUndo(k, n, u)'
                \/ InBrokenUndo(n, u)'
           \/ \E m \in 0..MaxRuns : k \in 1..2 /\ InRollback(k, n, m)'
           \/ k \in 1..4 /\ InRepair(k, n)'
    PROVE  CutoverInv'
  <1>1. n \in 0..(runs' - 1)
    BY Below
  <1> QED
    BY <1>1 DEF CutoverInv, Started1

LEMMA CutoverGoesOn ==
    ASSUME Well(dbs'), runs' \in Nat, Fresh', NEW n \in Nat, n < runs',
           NEW k \in 1..8, NEW u \in TypedIn, InCutover(k, n, u)'
    PROVE  CutoverInv'
  BY GoesOn

LEMMA StillFresh ==
    ASSUME Fresh, runs' = runs,
           \A d \in DOMAIN dbs' : \/ d \in DOMAIN dbs
                                  \/ \A n \in Nat : d # Archive(n)
                                  \/ \E n \in Nat : d = Archive(n) /\ n < runs
    PROVE  Fresh'
  BY NamesDiffer DEF Fresh

LEMMA CutoverRaised ==
    ASSUME CutoverInv, NEW n \in 0..(runs - 1), NEW u \in TypedIn, NEW k \in 1..8,
           InCutover(k, n, u), UNCHANGED <<dbs, runs>>, Raised
    PROVE  CutoverInv'
  <1>1. /\ n \in Nat /\ script.name = "cutover" /\ script.run = n /\ script.given = u
        /\ script.whole = TRUE /\ Began(n) /\ Was = script.before
        /\ runs \in Nat /\ runs' \in Nat /\ n \in 0..(runs' - 1) /\ n < runs'
    BY DEF InCutover, Working, CutoverInv, Was
  <1>2. /\ Well(dbs') /\ Fresh'
    BY DEF CutoverInv, Fresh
  <1>3. CASE k = 1
    <2>1. dbs = Was /\ Archive(n) \notin DOMAIN dbs
      BY <1>1, <1>3 DEF InCutover, Began
    <2>2. script' = Reported("undone", Was)
      BY <1>1, <2>1 DEF Raised, Was
    <2>3. dbs' = script'.before /\ script'.name = "reported"
      BY <2>1, <2>2 DEF Reported
    <2>4. Restored'
      BY <2>3 DEF Restored
    <2> QED
      BY <1>1, <1>2, <2>3, <2>4, Ended
  <1>4. CASE k = 2
    <2>1. Archived(n) /\ Archive(n) \in DOMAIN dbs /\ Candidate \in DOMAIN dbs
      BY <1>1, <1>4, NamesDiffer DEF InCutover, Archived, Began
    <2>2. script' = [script EXCEPT !.name = "undo", !.left = <<Rename(Archive(n), Live)>>]
      BY <1>1, <2>1 DEF Raised
    <2>3. script' = [name |-> "undo", left |-> <<Rename(Archive(n), Live)>>, given |-> u,
                     run |-> n, whole |-> TRUE, before |-> Was]
      BY <2>2 DEF InCutover, Working
    <2>4. InPutBack(n, u)'
      BY <1>1, <2>1, <2>3 DEF InPutBack, Working, Was, Began, Archived, OthersKept
    <2> QED
      BY <1>1, <1>2, <2>4 DEF CutoverInv, Started1
  <1>5. CASE k > 2
    <2>1. Promoted(n) /\ Archive(n) \in DOMAIN dbs /\ Candidate \notin DOMAIN dbs
      BY <1>5, NamesDiffer DEF InCutover, Promoted
    <2>2. script' = [script EXCEPT !.name = "undo", !.left = Undo(n, u)]
      BY <1>1, <2>1 DEF Raised
    <2>3. script' = [name |-> "undo", left |-> Undo(n, u), given |-> u,
                     run |-> n, whole |-> TRUE, before |-> Was]
      BY <2>2 DEF InCutover, Working
    <2>4. Undo(n, u) = SubSeq(Undo(n, u), 1, 6)
      BY <1>1, UndoList, SubSeqFull
    <2>5. InUndo(1, n, u)'
      <3>1. Was' = Was
        BY <2>3 DEF Was
      <3>2. Began(n)' /\ Promoted(n)'
        BY <1>1, <2>1, <3>1 DEF Began, Promoted, OthersKept
      <3>3. Working("undo", SubSeq(Undo(n, u), 1, 6), u, n, TRUE)'
        BY <2>3, <2>4, <3>1 DEF Working
      <3> QED
        BY <3>2, <3>3 DEF InUndo, Working
    <2> QED
      BY <1>1, <1>2, <2>5, GoesOn
  <1> QED
    BY <1>3, <1>4, <1>5

LEMMA AtCutover ==
    ASSUME NEW n \in Nat, NEW u \in TypedIn, NEW k \in 1..8, InCutover(k, n, u)
    PROVE  /\ Now = CutoverSteps(n, u)[k] /\ script.name = "cutover"
           /\ Proceeds(TRUE) =>
                /\ Was' = Was
                /\ k < 8 =>
                     Working("cutover", SubSeq(CutoverSteps(n, u), k + 1, 8), u, n, TRUE)'
                /\ k = 8 => script'.name = "reported" /\ script'.outcome = "passed"
  <1>1. PICK steps \in Seq(Steps) : steps = CutoverSteps(n, u) /\ Len(steps) = 8
    BY CutoverList
  <1>2. Working("cutover", SubSeq(steps, k, Len(steps)), u, n, TRUE)
    BY <1>1 DEF InCutover
  <1>3. k \in 1..Len(steps) /\ TRUE \in BOOLEAN /\ TRUE = (TRUE /\ TRUE)
    BY <1>1
  <1>4. Now = steps[k] /\ script.name = "cutover"
    BY <1>2, <1>3, NowIs
  <1>5. ASSUME Proceeds(TRUE)
        PROVE  /\ Was' = Was
               /\ k < Len(steps) =>
                    Working("cutover", SubSeq(steps, k + 1, Len(steps)), u, n, TRUE)'
               /\ k = Len(steps) => script'.name = "reported" /\ script'.outcome = "passed"
    BY <1>2, <1>3, <1>5, ProceedsTo
  <1> QED
    BY <1>1, <1>4, <1>5

LEMMA CutoverRename ==
    ASSUME CutoverInv, NEW n \in 0..(runs - 1), NEW u \in TypedIn, NEW k \in 1..8,
           InCutover(k, n, u), RenameStep
    PROVE  CutoverInv'
  <1>1. /\ n \in Nat /\ runs \in Nat /\ runs' = runs /\ Began(n) /\ n < runs
    BY DEF InCutover, CutoverInv, RenameStep
  <1>2. /\ Now = CutoverSteps(n, u)[k] /\ script.name = "cutover"
        /\ Proceeds(TRUE) /\ k < 8 =>
             Was' = Was /\ Working("cutover", SubSeq(CutoverSteps(n, u), k + 1, 8), u, n, TRUE)'
    BY <1>1, AtCutover
  <1>3. CASE UNCHANGED dbs /\ Raised
    BY <1>1, <1>3, CutoverRaised
  <1>4. CASE /\ Now.from \in DOMAIN dbs /\ Now.to \notin DOMAIN dbs
             /\ dbs' = [d \in (DOMAIN dbs \ {Now.from}) \union {Now.to} |->
                          IF d = Now.to THEN dbs[Now.from] ELSE dbs[d]]
             /\ Proceeds(TRUE)
    <2>1. Now.kind = "rename" /\ k \in 1..2
      <3>1. Now.kind = "rename"
        BY DEF RenameStep, At
      <3>2. k # 3 /\ k # 8 /\ k \notin 4..7
        BY <1>1, <1>2, <3>1, CutoverList, Kinds
      <3> QED
        BY <3>1, <3>2
    <2>2. CASE k = 1
      <3>1. Now.from = Live /\ Now.to = Archive(n) /\ dbs = Was
        BY <1>1, <1>2, <2>2, CutoverList, Kinds DEF InCutover
      <3>2. /\ Well(dbs') /\ DOMAIN dbs' = (DOMAIN dbs \ {Live}) \union {Archive(n)}
            /\ dbs'[Archive(n)] = dbs[Live] /\ \A d \in DOMAIN dbs \ {Live} : dbs'[d] = dbs[d]
        BY <1>4, <3>1, NamesDiffer, Moved DEF CutoverInv
      <3>3. Was' = Was /\ Working("cutover", SubSeq(CutoverSteps(n, u), 2, 8), u, n, TRUE)'
        BY <1>2, <1>4, <2>2 DEF Working
      <3>4. Archived(n)' /\ Began(n)'
        BY <1>1, <3>1, <3>2, <3>3, NamesDiffer DEF Archived, Began, OthersKept
      <3>5. InCutover(2, n, u)'
        BY <3>3, <3>4 DEF InCutover, Working
      <3>6. Fresh'
        BY <1>1, <3>2, StillFresh DEF CutoverInv
      <3> QED
        BY <1>1, <3>2, <3>5, <3>6 DEF CutoverInv, Started1
    <2>3. CASE k = 2
      <3>1. Now.from = Candidate /\ Now.to = Live /\ Archived(n)
        <4>1. Now.from = Candidate /\ Now.to = Live
          <5>1. Now = CutoverSteps(n, u)[2]
            BY <1>2, <2>3
          <5>2. CutoverSteps(n, u)[2].from = Candidate /\ CutoverSteps(n, u)[2].to = Live
            BY <1>1, CutoverKinds
          <5> QED
            BY <5>1, <5>2
        <4>2. Archived(n)
          BY <2>3 DEF InCutover
        <4> QED
          BY <4>1, <4>2
      <3>2. /\ Well(dbs') /\ DOMAIN dbs' = (DOMAIN dbs \ {Candidate}) \union {Live}
            /\ dbs'[Live] = dbs[Candidate]
            /\ \A d \in DOMAIN dbs \ {Candidate} : dbs'[d] = dbs[d]
        BY <1>4, <3>1, NamesDiffer, Moved DEF CutoverInv
      <3>3. Was' = Was /\ Working("cutover", SubSeq(CutoverSteps(n, u), 3, 8), u, n, TRUE)'
        BY <1>2, <1>4, <2>3 DEF Working
      <3>4. Promoted(n)' /\ Began(n)'
        BY <1>1, <3>1, <3>2, <3>3, NamesDiffer DEF Archived, Promoted, Began, OthersKept
      <3>5. InCutover(3, n, u)'
        BY <3>3, <3>4 DEF InCutover, Working
      <3>6. Fresh'
        BY <1>1, <3>2, StillFresh, NamesDiffer DEF CutoverInv
      <3> QED
        BY <1>1, <3>2, <3>5, <3>6 DEF CutoverInv, Started1
    <2> QED
      BY <2>1, <2>2, <2>3
  <1> QED
    BY <1>2, <1>3, <1>4 DEF RenameStep

(* So does any report but that of a complete undo.                         *)
LEMMA EndedElse ==
    ASSUME Well(dbs'), runs' \in Nat, Fresh', script'.name = "reported",
           script'.outcome # "undone"
    PROVE  CutoverInv'
  <1>1. Restored'
    BY DEF Restored, Reports
  <1> QED
    BY <1>1, Ended

LEMMA SameDatabases ==
    ASSUME CutoverInv, UNCHANGED <<dbs, runs>>
    PROVE  Well(dbs') /\ Fresh' /\ runs' \in Nat
  BY DEF CutoverInv, Fresh

LEMMA CutoverMark ==
    ASSUME CutoverInv, NEW n \in 0..(runs - 1), NEW u \in TypedIn, NEW k \in 1..8,
           InCutover(k, n, u), MarkStep
    PROVE  CutoverInv'
  <1>1. /\ n \in Nat /\ runs \in Nat /\ runs' = runs /\ Began(n) /\ n < runs' /\ Well(dbs)
    BY DEF InCutover, CutoverInv, MarkStep
  <1>2. /\ Now = CutoverSteps(n, u)[k]
        /\ Proceeds(TRUE) /\ k < 8 =>
             Was' = Was /\ Working("cutover", SubSeq(CutoverSteps(n, u), k + 1, 8), u, n, TRUE)'
    BY <1>1, AtCutover
  <1>3. k \in 4..7
    <2>1. Now.kind = "mark"
      BY DEF MarkStep, At
    <2>2. k # 1 /\ k # 2 /\ k # 3 /\ k # 8
      BY <1>1, <1>2, <2>1, CutoverList, Kinds
    <2> QED
      BY <2>2
  <1>4. Now.on = Live /\ Now.statement \in 1..4 /\ Now.marker \in MarkersSet
    <2>1. Now.on = Live /\ Now.statement = k - 3 /\ Now.marker = NewOwner
      BY <1>1, <1>2, <1>3, CutoverList
    <2>2. k - 3 \in 1..4
      BY <1>3
    <2> QED
      BY <2>1, <2>2 DEF MarkersSet
  <1>5. Promoted(n) /\ Live \in DOMAIN dbs /\ dbs[Live].data = "rebuilt"
    <2>1. Promoted(n)
      BY <1>3 DEF InCutover
    <2> QED
      BY <1>1, <2>1, NamesDiffer DEF Promoted, Began, Well
  <1>6. CASE UNCHANGED dbs /\ Raised
    BY <1>1, <1>6, CutoverRaised
  <1>7. CASE dbs' = [dbs EXCEPT ![Live] = Marked(dbs[Live], Now)] /\ Proceeds(TRUE)
    <2>1. /\ Well(dbs') /\ DOMAIN dbs' = DOMAIN dbs /\ dbs'[Live].data = "rebuilt"
          /\ \A d \in DOMAIN dbs \ {Live} : dbs'[d] = dbs[d]
      BY <1>1, <1>4, <1>5, <1>7, Remade
    <2>2. /\ Was' = Was
          /\ Working("cutover", SubSeq(CutoverSteps(n, u), k + 1, 8), u, n, TRUE)'
      <3>1. k < 8
        BY <1>3
      <3> QED
        BY <1>2, <1>7, <3>1
    <2>3. Promoted(n)' /\ Began(n)'
      BY <1>1, <1>5, <2>1, <2>2, NamesDiffer DEF Promoted, Began, OthersKept
    <2>4. PICK next \in 5..8 : next = k + 1
      BY <1>3
    <2>5. InCutover(next, n, u)'
      BY <2>2, <2>3, <2>4 DEF InCutover, Working
    <2>6. Fresh'
      BY <1>1, <2>1, StillFresh DEF CutoverInv
    <2>7. next \in 1..8 /\ n \in Nat /\ runs' \in Nat /\ n < runs'
      BY <1>1
    <2> QED
      BY <2>1, <2>5, <2>6, <2>7, CutoverGoesOn
  <1> QED
    BY <1>4, <1>6, <1>7 DEF MarkStep

LEMMA CutoverCheck ==
    ASSUME CutoverInv, NEW n \in 0..(runs - 1), NEW u \in TypedIn, NEW k \in 1..8,
           InCutover(k, n, u), CheckStep
    PROVE  CutoverInv'
  <1>1. /\ n \in Nat /\ runs' = runs /\ Began(n) /\ n < runs' /\ UNCHANGED <<dbs, runs>>
        /\ runs' \in Nat
    BY DEF InCutover, CutoverInv, CheckStep
  <1>2. Well(dbs') /\ Fresh'
    BY <1>1, SameDatabases
  <1>3. CASE Raised
    BY <1>1, <1>3, CutoverRaised
  <1>4. CASE Proceeds(TRUE) /\ k = 8
    <2>1. script'.name = "reported" /\ script'.outcome = "passed"
      BY <1>1, <1>4, AtCutover
    <2> QED
      BY <1>1, <1>2, <2>1, EndedElse
  <1>5. CASE Proceeds(TRUE) /\ k < 8
    <2>1. /\ Was' = Was
          /\ Working("cutover", SubSeq(CutoverSteps(n, u), k + 1, 8), u, n, TRUE)'
      BY <1>1, <1>5, AtCutover
    <2>2. k = 3
      <3>1. Now.kind = "check" /\ Now = CutoverSteps(n, u)[k]
        BY <1>1, AtCutover DEF CheckStep, At
      <3>2. k # 1 /\ k # 2 /\ k \notin 4..7
        <4>1. PICK steps : steps = CutoverSteps(n, u)
          OBVIOUS
        <4>2. steps[k].kind = "check"
          BY <3>1, <4>1
        <4>3. /\ steps[1].kind = "rename" /\ steps[2].kind = "rename"
              /\ \A i \in 4..7 : steps[i].kind = "mark"
          BY <1>1, <4>1, CutoverKinds
        <4> QED
          BY <4>2, <4>3
      <3> QED
        BY <1>5, <3>2
    <2>3. Promoted(n)
      BY <2>2 DEF InCutover
    <2>4. Promoted(n)' /\ Began(n)'
      BY <1>1, <2>1, <2>3 DEF Promoted, Began, OthersKept
    <2>5. PICK next \in 4..4 : next = k + 1
      BY <2>2
    <2>6. InCutover(next, n, u)'
      BY <2>1, <2>4, <2>5 DEF InCutover, Working
    <2> QED
      BY <1>1, <1>2, <2>5, <2>6, GoesOn
  <1>6. k = 8 \/ k < 8
    OBVIOUS
  <1>7. Raised \/ Proceeds(TRUE)
    BY DEF CheckStep
  <1> QED
    BY <1>3, <1>4, <1>5, <1>6, <1>7

(* The cutover that failed between its renames puts the archive back.      *)
LEMMA PutBackRename ==
    ASSUME CutoverInv, NEW n \in 0..(runs - 1), NEW u \in TypedIn, InPutBack(n, u), RenameStep
    PROVE  CutoverInv'
  <1>1. /\ n \in Nat /\ runs \in Nat /\ runs' = runs /\ Began(n) /\ Archived(n) /\ n < runs'
        /\ Well(dbs)
    BY DEF InPutBack, CutoverInv, RenameStep
  <1>2. PICK steps \in Seq(Steps) : /\ steps = <<Rename(Archive(n), Live)>> /\ Len(steps) = 1
                                    /\ steps[1] = Rename(Archive(n), Live)
    BY <1>1, PutBackList
  <1>3. PICK k \in 1..Len(steps) : k = 1 /\ steps = SubSeq(steps, k, Len(steps))
    BY <1>2, SubSeqFull
  <1>4. Working("undo", SubSeq(steps, k, Len(steps)), u, n, TRUE)
    BY <1>2, <1>3 DEF InPutBack
  <1>5. Now = Rename(Archive(n), Live) /\ script.name = "undo"
    <2>1. Now = steps[k] /\ script.name = "undo"
      BY <1>4, NowIs
    <2> QED
      BY <1>2, <1>3, <2>1
  <1>6. Now.from = Archive(n) /\ Now.to = Live
    BY <1>5, Kinds
  <1>7. CASE UNCHANGED dbs /\ Proceeds(FALSE)
    <2>1. script'.name = "reported" /\ script'.outcome = "broken"
      <3>1. TRUE \in BOOLEAN /\ FALSE \in BOOLEAN /\ FALSE = (TRUE /\ FALSE)
        OBVIOUS
      <3> QED
        BY <1>2, <1>3, <1>4, <1>7, <3>1, ProceedsTo
    <2>2. Well(dbs') /\ Fresh' /\ runs' \in Nat
      BY <1>1, <1>7, SameDatabases
    <2> QED
      BY <2>1, <2>2, EndedElse
  <1>8. CASE /\ Archive(n) \in DOMAIN dbs /\ Live \notin DOMAIN dbs
             /\ dbs' = [d \in (DOMAIN dbs \ {Archive(n)}) \union {Live} |->
                          IF d = Live THEN dbs[Archive(n)] ELSE dbs[d]]
             /\ Proceeds(TRUE)
    <2>1. /\ Well(dbs') /\ DOMAIN dbs' = (DOMAIN dbs \ {Archive(n)}) \union {Live}
          /\ dbs'[Live] = dbs[Archive(n)]
          /\ \A d \in DOMAIN dbs \ {Archive(n)} : dbs'[d] = dbs[d]
      BY <1>1, <1>8, NamesDiffer, Moved
    <2>2. Was' = Was /\ script'.name = "reported"
      <3>1. TRUE \in BOOLEAN /\ TRUE = (TRUE /\ TRUE)
        OBVIOUS
      <3> QED
        BY <1>2, <1>3, <1>4, <1>8, <3>1, ProceedsTo
    <2>3. DOMAIN dbs' = DOMAIN Was
      BY <1>1, <2>1, NamesDiffer DEF Archived, Began
    <2>4. dbs'[Live] = Was[Live] /\ dbs'[Candidate] = Was[Candidate]
      BY <1>1, <2>1, NamesDiffer DEF Archived, Began
    <2>5. Restored'
      BY <2>2, <2>3, <2>4 DEF Restored, Was
    <2>6. Fresh'
      BY <1>1, <2>1, NamesDiffer, StillFresh DEF CutoverInv
    <2> QED
      BY <1>1, <2>1, <2>2, <2>5, <2>6, Ended
  <1> QED
    BY <1>5, <1>6, <1>7, <1>8 DEF RenameStep

(* Any failure but the cutover's own ends the script.                      *)
LEMMA GivenUp ==
    ASSUME CutoverInv, UNCHANGED <<dbs, runs>>, Raised, script.name # "cutover"
    PROVE  CutoverInv'
  <1>1. Well(dbs') /\ Fresh' /\ runs' \in Nat
    BY SameDatabases
  <1>2. script' = Reported("broken", Was)
    BY DEF Raised, Was
  <1>3. script'.name = "reported" /\ script'.outcome = "broken"
    BY <1>2 DEF Reported
  <1> QED
    BY <1>1, <1>3, EndedElse

LEMMA AtUndo ==
    ASSUME NEW n \in Nat, NEW u \in TypedIn, NEW k \in 1..6, InUndo(k, n, u)
    PROVE  /\ Now = Undo(n, u)[k] /\ script.name = "undo"
           /\ Proceeds(TRUE) =>
                /\ Was' = Was
                /\ k < 6 => Working("undo", SubSeq(Undo(n, u), k + 1, 6), u, n, TRUE)'
                /\ k = 6 => script'.name = "reported" /\ script'.given = u
           /\ Proceeds(FALSE) =>
                /\ Was' = Was
                /\ k < 6 => Working("undo", SubSeq(Undo(n, u), k + 1, 6), u, n, FALSE)'
                /\ k = 6 => script'.name = "reported" /\ script'.outcome = "broken"
  <1>1. PICK steps \in Seq(Steps) : steps = Undo(n, u) /\ Len(steps) = 6
    BY UndoList
  <1>2. Working("undo", SubSeq(steps, k, Len(steps)), u, n, TRUE)
    BY <1>1 DEF InUndo
  <1>3. /\ k \in 1..Len(steps) /\ TRUE \in BOOLEAN /\ TRUE = (TRUE /\ TRUE)
        /\ FALSE \in BOOLEAN /\ FALSE = (TRUE /\ FALSE)
    BY <1>1
  <1>4. Now = steps[k] /\ script.name = "undo"
    BY <1>2, <1>3, NowIs
  <1>5. ASSUME Proceeds(TRUE)
        PROVE  /\ Was' = Was
               /\ k < Len(steps) =>
                    Working("undo", SubSeq(steps, k + 1, Len(steps)), u, n, TRUE)'
               /\ k = Len(steps) => script'.name = "reported" /\ script'.given = u
    BY <1>2, <1>3, <1>5, ProceedsTo
  <1>6. ASSUME Proceeds(FALSE)
        PROVE  /\ Was' = Was
               /\ k < Len(steps) =>
                    Working("undo", SubSeq(steps, k + 1, Len(steps)), u, n, FALSE)'
               /\ k = Len(steps) => script'.name = "reported" /\ script'.outcome = "broken"
    BY <1>2, <1>3, <1>6, ProceedsTo
  <1> QED
    BY <1>1, <1>4, <1>5, <1>6

LEMMA UndoMark ==
    ASSUME CutoverInv, NEW n \in 0..(runs - 1), NEW u \in TypedIn, NEW k \in 1..6,
           InUndo(k, n, u), MarkStep
    PROVE  CutoverInv'
  <1>1. /\ n \in Nat /\ runs \in Nat /\ runs' = runs /\ Began(n) /\ n < runs' /\ Well(dbs)
    BY DEF InUndo, CutoverInv, MarkStep
  <1>2. Now = Undo(n, u)[k] /\ script.name = "undo"
    BY <1>1, AtUndo
  <1>3. k \in 1..4
    <2>1. Now.kind = "mark"
      BY DEF MarkStep, At
    <2>2. Undo(n, u)[5].kind = "rename" /\ Undo(n, u)[6].kind = "rename"
      <3>1. /\ Undo(n, u)[5] = Rename(Live, Candidate)
            /\ Undo(n, u)[6] = Rename(Archive(n), Live)
        BY <1>1, UndoList
      <3> QED
        BY <3>1, Kinds
    <2>3. k # 5 /\ k # 6
      BY <1>2, <2>1, <2>2
    <2> QED
      BY <2>3
  <1>4. Now.on = Live /\ Now.statement = k /\ Now.marker = CandidateMarker(u)
    BY <1>1, <1>2, <1>3, UndoList, ZenonT(60)
  <1>5. Promoted(n) /\ Live \in DOMAIN dbs /\ dbs[Live].data = "rebuilt"
    <2>1. Promoted(n)
      BY <1>3 DEF InUndo
    <2> QED
      BY <1>1, <2>1, NamesDiffer DEF Promoted, Began, Well
  <1>6. CASE UNCHANGED dbs /\ Raised
    BY <1>1, <1>2, <1>6, GivenUp
  <1>7. CASE dbs' = [dbs EXCEPT ![Live] = Marked(dbs[Live], Now)] /\ Proceeds(TRUE)
    <2>1. Now.statement \in 1..4 /\ Now.marker \in MarkersSet
      BY <1>3, <1>4 DEF MarkersSet
    <2>2. /\ Well(dbs') /\ DOMAIN dbs' = DOMAIN dbs /\ dbs'[Live].data = "rebuilt"
          /\ \A d \in DOMAIN dbs \ {Live} : dbs'[d] = dbs[d]
          /\ Now.statement = 3 => dbs'[Live].marker = Now.marker
          /\ Now.statement = 4 => /\ dbs'[Live].guarded
                                  /\ dbs'[Live].marker = dbs[Live].marker
      BY <1>1, <1>5, <1>7, <2>1, Remade
    <2>3. Was' = Was /\ Working("undo", SubSeq(Undo(n, u), k + 1, 6), u, n, TRUE)'
      <3>1. k < 6
        BY <1>3
      <3> QED
        BY <1>1, <1>7, <3>1, AtUndo
    <2>4. Promoted(n)' /\ Began(n)'
      BY <1>1, <1>5, <2>2, <2>3, NamesDiffer DEF Promoted, Began, OthersKept
    <2>5. PICK next \in 2..5 : next = k + 1
      BY <1>3
    <2>6. /\ next > 3 => dbs'[Live].marker = CandidateMarker(u)
          /\ next = 5 => dbs'[Live].guarded
      <3>1. CASE k = 4
        <4>1. dbs[Live].marker = CandidateMarker(u)
          BY <3>1 DEF InUndo
        <4> QED
          BY <1>4, <2>2, <2>5, <3>1, <4>1
      <3>2. CASE k = 3
        BY <1>4, <2>2, <2>5, <3>2
      <3>3. CASE k < 3
        BY <2>5, <3>3
      <3> QED
        BY <1>3, <3>1, <3>2, <3>3
    <2>7. InUndo(next, n, u)'
      BY <2>3, <2>4, <2>5, <2>6 DEF InUndo, Working
    <2>8. Fresh'
      BY <1>1, <2>2, StillFresh DEF CutoverInv
    <2> QED
      <3>1. next \in Nat /\ next \in 1..6
        BY <2>5
      <3> QED
        BY <1>1, <2>2, <2>7, <2>8, <3>1, GoesOn
  <1> QED
    BY <1>4, <1>6, <1>7 DEF MarkStep

LEMMA UndoRename ==
    ASSUME CutoverInv, NEW n \in 0..(runs - 1), NEW u \in TypedIn, NEW k \in 1..6,
           InUndo(k, n, u), RenameStep
    PROVE  CutoverInv'
  <1>1. /\ n \in Nat /\ runs \in Nat /\ runs' = runs /\ Began(n) /\ n < runs' /\ Well(dbs)
    BY DEF InUndo, CutoverInv, RenameStep
  <1>2. Now = Undo(n, u)[k] /\ script.name = "undo"
    BY <1>1, AtUndo
  <1>3. k \in {5, 6}
    <2>1. Now.kind = "rename"
      BY DEF RenameStep, At
    <2>2. k \notin 1..4
      BY <1>1, <1>2, <2>1, UndoList
    <2> QED
      BY <2>2
  <1>4. CASE UNCHANGED dbs /\ Proceeds(FALSE)
    <2>1. Well(dbs') /\ Fresh' /\ runs' \in Nat
      BY <1>1, <1>4, SameDatabases
    <2>2. CASE k = 5
      <3>1. Was' = Was /\ Working("undo", SubSeq(Undo(n, u), k + 1, 6), u, n, FALSE)'
        <4>1. k < 6
          BY <2>2
        <4> QED
          BY <1>1, <1>4, <4>1, AtUndo
      <3>2. InBrokenUndo(n, u)'
        BY <2>2, <3>1 DEF InBrokenUndo, Working
      <3> QED
        BY <1>1, <2>1, <3>2, GoesOn
    <2>3. CASE k = 6
      <3>1. script'.name = "reported" /\ script'.outcome = "broken"
        BY <1>1, <1>4, <2>3, AtUndo
      <3> QED
        BY <2>1, <3>1, EndedElse
    <2> QED
      BY <1>3, <2>2, <2>3
  <1>5. CASE /\ Now.from \in DOMAIN dbs /\ Now.to \notin DOMAIN dbs
             /\ dbs' = [d \in (DOMAIN dbs \ {Now.from}) \union {Now.to} |->
                          IF d = Now.to THEN dbs[Now.from] ELSE dbs[d]]
             /\ Proceeds(TRUE)
    <2>1. CASE k = 5
      <3>1. /\ Now.from = Live /\ Now.to = Candidate /\ Promoted(n)
            /\ dbs[Live].marker = CandidateMarker(u) /\ dbs[Live].guarded
        <4>1. Now = Rename(Live, Candidate)
          BY <1>1, <1>2, <2>1, UndoList
        <4>2. Now.from = Live /\ Now.to = Candidate
          BY <4>1, Kinds
        <4> QED
          BY <2>1, <4>2 DEF InUndo
      <3>2. dbs[Live].data = "rebuilt"
        BY <1>1, <3>1 DEF Promoted, Began, Well
      <3>3. /\ Well(dbs') /\ DOMAIN dbs' = (DOMAIN dbs \ {Live}) \union {Candidate}
            /\ dbs'[Candidate] = dbs[Live] /\ \A d \in DOMAIN dbs \ {Live} : dbs'[d] = dbs[d]
        BY <1>1, <1>5, <3>1, <3>2, NamesDiffer, Moved
      <3>4. Was' = Was /\ Working("undo", SubSeq(Undo(n, u), 6, 6), u, n, TRUE)'
        <4>1. k < 6
          BY <2>1
        <4>2. Was' = Was /\ Working("undo", SubSeq(Undo(n, u), k + 1, 6), u, n, TRUE)'
          BY <1>1, <1>5, <4>1, AtUndo
        <4> QED
          BY <2>1, <4>2 DEF Working
      <3>5. Demoted(n, u)' /\ Began(n)'
        BY <1>1, <3>1, <3>3, <3>4, NamesDiffer
        DEF Promoted, Demoted, Remarked, Began, OthersKept
      <3>6. InUndo(6, n, u)'
        BY <3>4, <3>5 DEF InUndo, Working
      <3>7. Fresh'
        BY <1>1, <3>3, NamesDiffer, StillFresh DEF CutoverInv
      <3> QED
        BY <1>1, <3>3, <3>6, <3>7, GoesOn
    <2>2. CASE k = 6
      <3>1. Now.from = Archive(n) /\ Now.to = Live /\ Demoted(n, u)
        BY <1>1, <1>2, <2>2, UndoList, Kinds DEF InUndo
      <3>2. /\ Well(dbs') /\ DOMAIN dbs' = (DOMAIN dbs \ {Archive(n)}) \union {Live}
            /\ dbs'[Live] = dbs[Archive(n)]
            /\ \A d \in DOMAIN dbs \ {Archive(n)} : dbs'[d] = dbs[d]
        BY <1>1, <1>5, <3>1, NamesDiffer, Moved
      <3>3. Was' = Was /\ script'.name = "reported" /\ script'.given = u
        BY <1>1, <1>5, <2>2, AtUndo
      <3>4. DOMAIN dbs' = DOMAIN Was
        BY <1>1, <3>1, <3>2, NamesDiffer DEF Demoted, Began
      <3>5. /\ dbs'[Live] = Was[Live] /\ dbs'[Candidate].data = Was[Candidate].data
            /\ dbs'[Candidate].marker = CandidateMarker(u) /\ dbs'[Candidate].guarded
        BY <1>1, <3>1, <3>2, NamesDiffer DEF Demoted, Remarked, Began
      <3>6. Restored'
        BY <3>3, <3>4, <3>5 DEF Restored, Was, CandidateMarker
      <3>7. Fresh'
        BY <1>1, <3>2, NamesDiffer, StillFresh DEF CutoverInv
      <3> QED
        BY <1>1, <3>2, <3>3, <3>6, <3>7, Ended
    <2> QED
      BY <1>3, <2>1, <2>2
  <1> QED
    BY <1>2, <1>4, <1>5 DEF RenameStep

LEMMA BrokenUndoRename ==
    ASSUME CutoverInv, NEW n \in 0..(runs - 1), NEW u \in TypedIn, InBrokenUndo(n, u),
           RenameStep
    PROVE  CutoverInv'
  <1>1. n \in Nat /\ runs \in Nat /\ runs' = runs /\ Well(dbs)
    BY DEF CutoverInv, RenameStep
  <1>2. PICK steps \in Seq(Steps) : /\ steps = Undo(n, u) /\ Len(steps) = 6
                                    /\ steps[6] = Rename(Archive(n), Live)
    BY <1>1, UndoList
  <1>3. PICK k \in 1..Len(steps) : k = 6
    BY <1>2
  <1>4. Working("undo", SubSeq(steps, k, Len(steps)), u, n, FALSE)
    BY <1>2, <1>3 DEF InBrokenUndo
  <1>5. Now = steps[k] /\ script.name = "undo"
    BY <1>4, NowIs
  <1>6. Now.from = Archive(n) /\ Now.to = Live
    BY <1>2, <1>3, <1>5, Kinds
  <1>7. k = Len(steps)
    BY <1>2, <1>3
  <1>8. Proceeds(TRUE) \/ Proceeds(FALSE)
        => script'.name = "reported" /\ script'.outcome = "broken"
    <2>1. /\ TRUE \in BOOLEAN /\ FALSE \in BOOLEAN /\ FALSE = (FALSE /\ FALSE)
          /\ FALSE = (FALSE /\ TRUE)
      OBVIOUS
    <2>2. CASE Proceeds(TRUE)
      BY <1>4, <1>7, <2>1, <2>2, ProceedsTo
    <2>3. CASE Proceeds(FALSE)
      BY <1>4, <1>7, <2>1, <2>3, ProceedsTo
    <2> QED
      BY <2>2, <2>3
  <1>9. CASE UNCHANGED dbs /\ Proceeds(FALSE)
    <2>1. Well(dbs') /\ Fresh' /\ runs' \in Nat
      BY <1>1, <1>9, SameDatabases
    <2> QED
      BY <1>8, <1>9, <2>1, EndedElse
  <1>10. CASE /\ Archive(n) \in DOMAIN dbs /\ Live \notin DOMAIN dbs
              /\ dbs' = [d \in (DOMAIN dbs \ {Archive(n)}) \union {Live} |->
                           IF d = Live THEN dbs[Archive(n)] ELSE dbs[d]]
              /\ Proceeds(TRUE)
    <2>1. Well(dbs') /\ DOMAIN dbs' = (DOMAIN dbs \ {Archive(n)}) \union {Live}
      BY <1>1, <1>10, NamesDiffer, Moved
    <2>2. Fresh'
      BY <1>1, <2>1, NamesDiffer, StillFresh DEF CutoverInv
    <2> QED
      BY <1>1, <1>8, <1>10, <2>1, <2>2, EndedElse
  <1> QED
    BY <1>5, <1>6, <1>9, <1>10 DEF RenameStep

LEMMA AtRollback ==
    ASSUME NEW n \in Nat, NEW m \in Nat, NEW k \in 1..2, InRollback(k, n, m)
    PROVE  /\ Now = RollbackSteps(n, Archive(m))[k] /\ script.name = "rollback"
           /\ Now.kind = "rename"
           /\ Now.to = Failed(n) \/ Now.to = Live
           /\ Proceeds(TRUE) =>
                /\ Was' = Was
                /\ k < 2 => Working("rollback", SubSeq(RollbackSteps(n, Archive(m)), k + 1, 2),
                                    "candidate", n, TRUE)'
                /\ k = 2 => script'.name = "reported" /\ script'.outcome = "passed"
  <1>1. PICK steps \in Seq(Steps) :
          /\ steps = RollbackSteps(n, Archive(m)) /\ Len(steps) = 2
          /\ steps[1] = Rename(Live, Failed(n)) /\ steps[2] = Rename(Archive(m), Live)
    BY RollbackList
  <1>2. Working("rollback", SubSeq(steps, k, Len(steps)), "candidate", n, TRUE)
    BY <1>1 DEF InRollback
  <1>3. k \in 1..Len(steps) /\ TRUE \in BOOLEAN /\ TRUE = (TRUE /\ TRUE)
    BY <1>1
  <1>4. Now = steps[k] /\ script.name = "rollback"
    BY <1>2, <1>3, NowIs
  <1>5. Now = Rename(Live, Failed(n)) \/ Now = Rename(Archive(m), Live)
    BY <1>1, <1>3, <1>4
  <1>6. Now.kind = "rename" /\ (Now.to = Failed(n) \/ Now.to = Live)
    BY <1>5, Kinds
  <1>7. ASSUME Proceeds(TRUE)
        PROVE  /\ Was' = Was
               /\ k < Len(steps) =>
                    Working("rollback", SubSeq(steps, k + 1, Len(steps)), "candidate", n, TRUE)'
               /\ k = Len(steps) => script'.name = "reported" /\ script'.outcome = "passed"
    BY <1>2, <1>3, <1>7, ProceedsTo
  <1> QED
    BY <1>1, <1>4, <1>6, <1>7

(* A rollback moves databases between names that no cutover will choose.   *)
LEMMA RollbackRename ==
    ASSUME CutoverInv, NEW n \in 0..(runs - 1), NEW m \in 0..MaxRuns, NEW k \in 1..2,
           InRollback(k, n, m), RenameStep
    PROVE  CutoverInv'
  <1>1. n \in Nat /\ m \in Nat /\ runs \in Nat /\ runs' = runs /\ n < runs' /\ Well(dbs)
    BY DEF CutoverInv, RenameStep
  <1>2. script.name = "rollback" /\ (Now.to = Failed(n) \/ Now.to = Live)
    BY <1>1, AtRollback
  <1>3. CASE UNCHANGED dbs /\ Raised
    BY <1>1, <1>2, <1>3, GivenUp
  <1>4. CASE /\ Now.from \in DOMAIN dbs /\ Now.to \notin DOMAIN dbs
             /\ dbs' = [d \in (DOMAIN dbs \ {Now.from}) \union {Now.to} |->
                          IF d = Now.to THEN dbs[Now.from] ELSE dbs[d]]
             /\ Proceeds(TRUE)
    <2>1. PICK from, into : from = Now.from /\ into = Now.to
      OBVIOUS
    <2>2. into # Candidate /\ \A i \in Nat : into # Archive(i)
      BY <1>2, <2>1, NamesDiffer
    <2>3. Well(dbs') /\ DOMAIN dbs' = (DOMAIN dbs \ {from}) \union {into}
      <3>1. /\ from \in DOMAIN dbs /\ into \notin DOMAIN dbs
            /\ dbs' = [d \in (DOMAIN dbs \ {from}) \union {into} |->
                         IF d = into THEN dbs[from] ELSE dbs[d]]
        BY <1>4, <2>1
      <3> QED
        BY <1>1, <2>2, <3>1, Moved
    <2>4. Fresh'
      BY <1>1, <2>2, <2>3, StillFresh DEF CutoverInv
    <2>5. CASE k = 1
      <3>1. k < 2
        BY <2>5
      <3>2. Working("rollback", SubSeq(RollbackSteps(n, Archive(m)), k + 1, 2), "candidate", n,
                    TRUE)'
        BY <1>1, <1>4, <3>1, AtRollback
      <3>3. InRollback(2, n, m)'
        BY <2>5, <3>2 DEF InRollback, Working
      <3> QED
        BY <1>1, <2>3, <2>4, <3>3, GoesOn
    <2>6. CASE k = 2
      <3>1. script'.name = "reported" /\ script'.outcome = "passed"
        BY <1>1, <1>4, <2>6, AtRollback
      <3> QED
        BY <1>1, <2>3, <2>4, <3>1, EndedElse
    <2> QED
      BY <2>5, <2>6
  <1> QED
    BY <1>2, <1>3, <1>4 DEF RenameStep

LEMMA AtRepair ==
    ASSUME NEW n \in Nat, NEW k \in 1..4, InRepair(k, n)
    PROVE  /\ script.name = "repair"
           /\ Now.kind = "mark" /\ Now.on = Candidate /\ Now.statement \in 1..4
           /\ Now.marker \in MarkersSet
           /\ Proceeds(TRUE) =>
                /\ Was' = Was
                /\ k < 4 => Working("repair",
                                    SubSeq(Marking(Candidate, CandidateMarker("candidate")),
                                           k + 1, 4), "candidate", n, TRUE)'
                /\ k = 4 => script'.name = "reported" /\ script'.outcome = "passed"
  <1>1. PICK mark \in MarkersSet : mark = CandidateMarker("candidate")
    BY DEF MarkersSet, TypedIn
  <1>2. PICK steps \in Seq(Steps) :
          /\ steps = Marking(Candidate, mark) /\ Len(steps) = 4
          /\ \A i \in 1..4 : /\ steps[i].kind = "mark" /\ steps[i].on = Candidate
                             /\ steps[i].statement = i /\ steps[i].marker = mark
    BY MarkingSteps
  <1>3. Working("repair", SubSeq(steps, k, Len(steps)), "candidate", n, TRUE)
    BY <1>1, <1>2 DEF InRepair
  <1>4. k \in 1..Len(steps) /\ TRUE \in BOOLEAN /\ TRUE = (TRUE /\ TRUE)
    BY <1>2
  <1>5. Now = steps[k] /\ script.name = "repair"
    BY <1>3, <1>4, NowIs
  <1>6. ASSUME Proceeds(TRUE)
        PROVE  /\ Was' = Was
               /\ k < Len(steps) =>
                    Working("repair", SubSeq(steps, k + 1, Len(steps)), "candidate", n, TRUE)'
               /\ k = Len(steps) => script'.name = "reported" /\ script'.outcome = "passed"
    BY <1>3, <1>4, <1>6, ProceedsTo
  <1> QED
    BY <1>1, <1>2, <1>5, <1>6

LEMMA RepairMark ==
    ASSUME CutoverInv, NEW n \in 0..(runs - 1), NEW k \in 1..4, InRepair(k, n), MarkStep
    PROVE  CutoverInv'
  <1>1. /\ n \in Nat /\ runs \in Nat /\ runs' = runs /\ n < runs' /\ Well(dbs)
        /\ Candidate \in DOMAIN dbs /\ dbs[Candidate].data = "rebuilt"
    BY DEF CutoverInv, MarkStep, InRepair, Well
  <1>2. /\ script.name = "repair" /\ Now.on = Candidate /\ Now.statement \in 1..4
        /\ Now.marker \in MarkersSet
    BY <1>1, AtRepair
  <1>3. CASE UNCHANGED dbs /\ Raised
    BY <1>1, <1>2, <1>3, GivenUp
  <1>4. CASE dbs' = [dbs EXCEPT ![Candidate] = Marked(dbs[Candidate], Now)] /\ Proceeds(TRUE)
    <2>1. Well(dbs') /\ DOMAIN dbs' = DOMAIN dbs
      BY <1>1, <1>2, <1>4, Remade
    <2>2. Fresh'
      BY <1>1, <2>1, StillFresh DEF CutoverInv
    <2>3. CASE k < 4
      <3>1. PICK next \in 2..4 : next = k + 1
        BY <2>3
      <3>2. Working("repair", SubSeq(Marking(Candidate, CandidateMarker("candidate")),
                                     k + 1, 4), "candidate", n, TRUE)'
        BY <1>1, <1>4, <2>3, AtRepair
      <3>3. InRepair(next, n)'
        BY <1>1, <2>1, <3>1, <3>2 DEF InRepair, Working
      <3> QED
        BY <1>1, <2>1, <2>2, <3>1, <3>3, GoesOn
    <2>4. CASE k = 4
      <3>1. script'.name = "reported" /\ script'.outcome = "passed"
        BY <1>1, <1>4, <2>4, AtRepair
      <3> QED
        BY <1>1, <2>1, <2>2, <3>1, EndedElse
    <2>5. k < 4 \/ k = 4
      OBVIOUS
    <2> QED
      BY <2>3, <2>4, <2>5
  <1> QED
    BY <1>2, <1>3, <1>4 DEF MarkStep

LEMMA UndoKinds ==
    ASSUME NEW n \in Nat, NEW u \in TypedIn
    PROVE  /\ \A k \in 1..6 : InUndo(k, n, u) => Now.kind \in {"mark", "rename"}
           /\ InPutBack(n, u) => Now.kind = "rename"
           /\ InBrokenUndo(n, u) => Now.kind = "rename"
  <1>1. PICK steps \in Seq(Steps) :
          /\ steps = Undo(n, u) /\ Len(steps) = 6 /\ \A i \in 1..4 : steps[i].kind = "mark"
          /\ steps[5] = Rename(Live, Candidate) /\ steps[6] = Rename(Archive(n), Live)
    BY UndoList
  <1>2. steps[5].kind = "rename" /\ steps[6].kind = "rename"
    BY <1>1, Kinds
  <1>3. ASSUME NEW k \in 1..6, InUndo(k, n, u) PROVE Now.kind \in {"mark", "rename"}
    <2>1. Now = steps[k]
      BY <1>1, <1>3, AtUndo
    <2>2. k \in 1..4 \/ k = 5 \/ k = 6
      OBVIOUS
    <2> QED
      BY <1>1, <1>2, <2>1, <2>2
  <1>4. ASSUME InPutBack(n, u) PROVE Now.kind = "rename"
    <2>1. script.left = <<Rename(Archive(n), Live)>>
      BY <1>4 DEF InPutBack, Working
    <2>2. Now = Rename(Archive(n), Live)
      BY <2>1 DEF Now
    <2> QED
      BY <2>2, Kinds
  <1>5. ASSUME InBrokenUndo(n, u) PROVE Now.kind = "rename"
    <2>1. PICK k \in 1..Len(steps) : k = 6
      BY <1>1
    <2>2. Working("undo", SubSeq(steps, k, Len(steps)), u, n, FALSE)
      BY <1>1, <1>5, <2>1 DEF InBrokenUndo
    <2>3. Now = steps[k]
      BY <2>2, NowIs
    <2> QED
      BY <1>2, <2>1, <2>3
  <1> QED
    BY <1>3, <1>4, <1>5

(* A step is taken by the script that is at work.                          *)
LEMMA StepKeeps ==
    ASSUME CutoverInv, RenameStep \/ MarkStep \/ CheckStep
    PROVE  CutoverInv'
  <1>1. script.name \in {"cutover", "undo", "rollback", "repair"}
    BY DEF RenameStep, MarkStep, CheckStep, At
  <1>2. Started1
    BY <1>1 DEF CutoverInv, NoScript
  <1>3. PICK n \in 0..(runs - 1) :
          \/ \E u \in TypedIn : \/ \E k \in 1..8 : InCutover(k, n, u)
                                \/ InPutBack(n, u)
                                \/ \E k \in 1..6 : InUndo(k, n, u)
                                \/ InBrokenUndo(n, u)
          \/ \E k \in 1..2, m \in 0..MaxRuns : InRollback(k, n, m)
          \/ \E k \in 1..4 : InRepair(k, n)
    BY <1>2 DEF Started1
  <1>4. n \in Nat
    BY DEF CutoverInv
  <1>5. /\ RenameStep => Now.kind = "rename"
        /\ MarkStep => Now.kind = "mark"
        /\ CheckStep => Now.kind = "check"
    BY DEF RenameStep, MarkStep, CheckStep, At
  <1>6. ASSUME NEW u \in TypedIn, NEW k \in 1..8, InCutover(k, n, u) PROVE CutoverInv'
    BY <1>6, CutoverRename, CutoverMark, CutoverCheck
  <1>7. ASSUME NEW u \in TypedIn, InPutBack(n, u) PROVE CutoverInv'
    BY <1>4, <1>5, <1>7, UndoKinds, PutBackRename
  <1>8. ASSUME NEW u \in TypedIn, NEW k \in 1..6, InUndo(k, n, u) PROVE CutoverInv'
    BY <1>4, <1>5, <1>8, UndoKinds, UndoMark, UndoRename
  <1>9. ASSUME NEW u \in TypedIn, InBrokenUndo(n, u) PROVE CutoverInv'
    BY <1>4, <1>5, <1>9, UndoKinds, BrokenUndoRename
  <1>10. ASSUME NEW k \in 1..2, NEW m \in 0..MaxRuns, InRollback(k, n, m) PROVE CutoverInv'
    <2>1. m \in Nat
      OBVIOUS
    <2> QED
      BY <1>4, <1>5, <1>10, <2>1, AtRollback, RollbackRename
  <1>11. ASSUME NEW k \in 1..4, InRepair(k, n) PROVE CutoverInv'
    BY <1>4, <1>5, <1>11, AtRepair, RepairMark
  <1> QED
    BY <1>3, <1>6, <1>7, <1>8, <1>9, <1>10, <1>11

(* The names a script chooses are new, for its number is.                  *)
LEMMA StartKeeps ==
    ASSUME CutoverInv, StartCutover \/ StartRollback \/ StartRepair
    PROVE  CutoverInv'
  <1>1. PICK n \in Nat : n = runs
    BY DEF CutoverInv
  <1>2. /\ runs' = n + 1 /\ Well(dbs) /\ Fresh /\ dbs' = dbs /\ Was' = dbs
    BY <1>1 DEF StartCutover, StartRollback, StartRepair, Started, CutoverInv, Was
  <1>3. runs' \in Nat /\ n < runs' /\ Well(dbs')
    BY <1>2
  <1>4. Fresh'
    BY <1>1, <1>2 DEF Fresh
  <1>5. CASE StartCutover
    <2>1. PICK u \in TypedIn : Started("cutover", CutoverSteps(n, u), u)
      BY <1>1, <1>5 DEF StartCutover, TypedIn
    <2>2. CutoverSteps(n, u) = SubSeq(CutoverSteps(n, u), 1, 8)
      BY CutoverList, SubSeqFull
    <2>3. Working("cutover", SubSeq(CutoverSteps(n, u), 1, 8), u, n, TRUE)'
      <3>1. script' = [name |-> "cutover", left |-> CutoverSteps(n, u), given |-> u,
                       run |-> n, whole |-> TRUE, before |-> dbs]
        BY <1>1, <2>1 DEF Started
      <3> QED
        BY <1>2, <2>2, <3>1 DEF Working
    <2>4. Began(n)' /\ dbs' = Was'
      <3>1. Archive(n) \notin DOMAIN dbs
        BY <1>1, <1>2 DEF Fresh
      <3> QED
        BY <1>2, <1>5, <3>1 DEF StartCutover, Began
    <2>5. PICK k \in 1..8 : k = 1
      OBVIOUS
    <2>6. InCutover(k, n, u)'
      BY <2>3, <2>4, <2>5 DEF InCutover, Working
    <2> QED
      BY <1>3, <1>4, <2>6, GoesOn
  <1>6. CASE StartRollback
    <2>1. PICK m \in 0..MaxRuns :
            Started("rollback", RollbackSteps(n, Archive(m)), "candidate")
      BY <1>1, <1>6 DEF StartRollback
    <2>2. RollbackSteps(n, Archive(m)) = SubSeq(RollbackSteps(n, Archive(m)), 1, 2)
      <3>1. m \in Nat
        OBVIOUS
      <3> QED
        BY <3>1, RollbackList, SubSeqFull
    <2>3. script' = [name |-> "rollback", left |-> RollbackSteps(n, Archive(m)),
                     given |-> "candidate", run |-> n, whole |-> TRUE, before |-> dbs]
      BY <1>1, <2>1 DEF Started
    <2>4. InRollback(1, n, m)'
      BY <1>2, <2>2, <2>3 DEF Working, InRollback
    <2>5. 1 \in 1..2
      OBVIOUS
    <2> QED
      BY <1>3, <1>4, <2>4, <2>5, GoesOn
  <1>7. CASE StartRepair
    <2>1. PICK mark \in MarkersSet : mark = CandidateMarker("candidate")
      BY DEF MarkersSet, TypedIn
    <2>2. Marking(Candidate, mark) = SubSeq(Marking(Candidate, mark), 1, 4)
      BY MarkingSteps, SubSeqFull
    <2>3. /\ script' = [name |-> "repair", left |-> Marking(Candidate, mark),
                        given |-> "candidate", run |-> n, whole |-> TRUE, before |-> dbs]
          /\ Candidate \in DOMAIN dbs'
      BY <1>1, <1>7, <2>1 DEF StartRepair, Started
    <2>4. InRepair(1, n)'
      BY <1>2, <2>1, <2>2, <2>3 DEF Working, InRepair
    <2>5. 1 \in 1..4
      OBVIOUS
    <2> QED
      BY <1>3, <1>4, <2>4, <2>5, GoesOn
  <1> QED
    BY <1>5, <1>6, <1>7

(* What a step that changes nothing leaves standing.                       *)
LEMMA NothingMoves ==
    ASSUME CutoverInv, UNCHANGED cutoverVars
    PROVE  CutoverInv'
  <1>1. UNCHANGED <<dbs, runs>> /\ script' = script /\ Was' = Was
    BY DEF cutoverVars, Was
  <1>2. Well(dbs') /\ Fresh' /\ runs' \in Nat /\ runs' = runs
    BY <1>1, SameDatabases
  <1>3. CASE script = NoScript \/ (script.name = "reported" /\ Restored)
    BY <1>1, <1>2, <1>3, Ended DEF Restored, Reports
  <1>4. CASE Started1
    <2>1. PICK n \in 0..(runs - 1) :
            \/ \E u \in TypedIn : \/ \E k \in 1..8 : InCutover(k, n, u)
                                  \/ InPutBack(n, u)
                                  \/ \E k \in 1..6 : InUndo(k, n, u)
                                  \/ InBrokenUndo(n, u)
            \/ \E k \in 1..2, m \in 0..MaxRuns : InRollback(k, n, m)
            \/ \E k \in 1..4 : InRepair(k, n)
      BY <1>4 DEF Started1
    <2>2. n \in Nat /\ n < runs'
      BY <1>2 DEF CutoverInv
    <2>3. /\ Began(n) => Began(n)'
          /\ Archived(n) => Archived(n)'
          /\ Promoted(n) => Promoted(n)'
          /\ \A u : Demoted(n, u) => Demoted(n, u)'
      BY <1>1 DEF Began, Archived, Promoted, Demoted, OthersKept
    <2>4. ASSUME NEW u \in TypedIn, NEW k \in 1..8, InCutover(k, n, u) PROVE CutoverInv'
      <3>1. InCutover(k, n, u)'
        BY <1>1, <2>3, <2>4 DEF InCutover, Working
      <3> QED
        BY <1>2, <2>2, <3>1, GoesOn
    <2>5. ASSUME NEW u \in TypedIn, InPutBack(n, u) PROVE CutoverInv'
      <3>1. InPutBack(n, u)'
        BY <1>1, <2>3, <2>5 DEF InPutBack, Working
      <3> QED
        BY <1>2, <2>2, <3>1, GoesOn
    <2>6. ASSUME NEW u \in TypedIn, NEW k \in 1..6, InUndo(k, n, u) PROVE CutoverInv'
      <3>1. InUndo(k, n, u)'
        BY <1>1, <2>3, <2>6 DEF InUndo, Working
      <3> QED
        BY <1>2, <2>2, <3>1, GoesOn
    <2>7. ASSUME NEW u \in TypedIn, InBrokenUndo(n, u) PROVE CutoverInv'
      <3>1. InBrokenUndo(n, u)'
        BY <1>1, <2>7 DEF InBrokenUndo, Working
      <3> QED
        BY <1>2, <2>2, <3>1, GoesOn
    <2>8. ASSUME NEW k \in 1..2, NEW m \in 0..MaxRuns, InRollback(k, n, m) PROVE CutoverInv'
      <3>1. InRollback(k, n, m)'
        BY <1>1, <2>8 DEF InRollback, Working
      <3> QED
        BY <1>2, <2>2, <3>1, GoesOn
    <2>9. ASSUME NEW k \in 1..4, InRepair(k, n) PROVE CutoverInv'
      <3>1. InRepair(k, n)'
        BY <1>1, <2>9 DEF InRepair, Working
      <3> QED
        BY <1>2, <2>2, <3>1, GoesOn
    <2> QED
      BY <2>1, <2>4, <2>5, <2>6, <2>7, <2>8, <2>9
  <1> QED
    BY <1>3, <1>4 DEF CutoverInv

LEMMA CutoverStarts == CutoverInit => CutoverInv
  <1> SUFFICES ASSUME CutoverInit PROVE CutoverInv
    OBVIOUS
  <1>1. /\ DOMAIN dbs = {Live, Candidate}
        /\ dbs[Live] = [data |-> "damaged", marker |-> OldOwner, guarded |-> TRUE]
        /\ dbs[Candidate] = [data |-> "rebuilt", marker |-> CandidateMarker("candidate"),
                             guarded |-> TRUE]
    BY NamesDiffer DEF CutoverInit
  <1>2. /\ dbs[Live] \in Db /\ dbs[Candidate] \in Db
    BY <1>1 DEF Db, TypedIn
  <1>3. CandidateMarker("candidate") # OldOwner
    BY DEF CandidateMarker, OldOwner, Marker
  <1>4. dbs \in [DOMAIN dbs -> Db]
    BY <1>1, <1>2 DEF CutoverInit
  <1>5. Well(dbs)
    BY <1>1, <1>3, <1>4, NamesDiffer DEF Well
  <1>6. Fresh
    BY <1>1, NamesDiffer DEF Fresh
  <1> QED
    BY <1>5, <1>6 DEF CutoverInit, CutoverInv

(* Whatever sequence of cutovers, rollbacks and repairs ran, failed or     *)
(* died, a cutover that reports its undo complete has put back what it     *)
(* found, and the old owner's identity marks the damaged data and nothing  *)
(* else (phase4_execute_cutover.py).                                       *)
THEOREM FailedCutoverUndone == CutoverSpec => []FailedCutoverRestores
  <1>1. CutoverInv /\ [CutoverNext]_cutoverVars => CutoverInv'
    <2> SUFFICES ASSUME CutoverInv, [CutoverNext]_cutoverVars PROVE CutoverInv'
      OBVIOUS
    <2>1. CASE Killed
      <3>1. UNCHANGED <<dbs, runs>> /\ script' = NoScript
        BY <2>1 DEF Killed
      <3> QED
        BY <3>1, SameDatabases, Ended
    <2> QED
      BY <2>1, NothingMoves, StartKeeps, StepKeeps DEF CutoverNext
  <1>2. CutoverInv => FailedCutoverRestores
    <2> SUFFICES ASSUME CutoverInv PROVE FailedCutoverRestores
      OBVIOUS
    <2>1. MarkerTellsData
      BY DEF CutoverInv, Well, MarkerTellsData
    <2>2. Restored
      <3>1. CASE script = NoScript
        BY <3>1 DEF Restored, Reports, NoScript
      <3>2. CASE Started1
        BY <3>2 DEF Started1, InCutover, InPutBack, InUndo, InBrokenUndo, InRollback,
                    InRepair, Working, Restored, Reports
      <3> QED
        BY <3>1, <3>2 DEF CutoverInv
    <2> QED
      BY <2>1, <2>2 DEF FailedCutoverRestores
  <1>3. CutoverSpec => []CutoverInv
    BY <1>1, CutoverStarts, PTL DEF CutoverSpec
  <1> QED
    BY <1>2, <1>3, PTL

-----------------------------------------------------------------------------
(* Recovery.  A damaged database, and what tagging its jobs leaves alone.  *)
Tags == {"live", "TEST", "FIXTURE"}
IsKind(kind) ==
    kind = [signs |-> kind.signs, tag |-> kind.tag] /\ kind.tag \in Tags
IsDamaged(d) ==
    /\ d = [applied |-> d.applied, eligible |-> d.eligible, kind |-> d.kind,
            company |-> d.company, companyTag |-> d.companyTag,
            applicationTag |-> d.applicationTag]
    /\ d.applied \subseteq Jobs
    /\ d.kind = [j \in Jobs |-> d.kind[j]] /\ \A j \in Jobs : IsKind(d.kind[j])
    /\ d.company \in [Jobs -> CompanyIds]
    /\ d.companyTag \in [CompanyIds -> Tags]
    /\ d.applicationTag \in [Jobs -> Tags]

(* A job is tagged by signs that it keeps, and only if it had no tag: its  *)
(* class stays, and it is tagged once.                                     *)
Tagged(kind) == [kind EXCEPT !.tag = JobTag(kind)]

LEMMA KindKept ==
    ASSUME NEW kind, IsKind(kind)
    PROVE  /\ IsKind(Tagged(kind)) /\ Tagged(kind).tag = JobTag(kind)
           /\ Tagged(kind).signs = kind.signs
           /\ Legacy(Tagged(kind)) = Legacy(kind)
           /\ JobTag(Tagged(kind)) = JobTag(kind)
           /\ Tagged(Tagged(kind)) = Tagged(kind)
           /\ Legacy(kind) = "none" => kind.tag = "live" /\ JobTag(kind) = "live"
           /\ Legacy(kind) \in {"none", "EXCLUDE", "TEST", "FIXTURE"}
  <1>1. /\ JobTag(kind) \in Tags
        /\ Legacy(kind) = "none" => kind.tag = "live" /\ JobTag(kind) = "live"
        /\ Legacy(kind) \in {"none", "EXCLUDE", "TEST", "FIXTURE"}
    BY DEF IsKind, Tags, JobTag, Legacy, TestTags
  <1>2. /\ Tagged(kind) = [signs |-> kind.signs, tag |-> JobTag(kind)]
        /\ Tagged(kind).tag = JobTag(kind) /\ Tagged(kind).signs = kind.signs
    BY DEF IsKind, Tagged
  <1>3. IsKind(Tagged(kind))
    BY <1>1, <1>2 DEF IsKind
  <1>4. Legacy(Tagged(kind)) = Legacy(kind)
    BY <1>2 DEF IsKind, Tags, JobTag, Legacy, TestTags
  <1>5. JobTag(Tagged(kind)) = JobTag(kind)
    BY <1>2, <1>4 DEF IsKind, Tags, JobTag, TestTags
  <1>6. Tagged(Tagged(kind)) = [signs |-> kind.signs, tag |-> JobTag(kind)]
    BY <1>2, <1>5 DEF Tagged
  <1> QED
    BY <1>1, <1>2, <1>3, <1>4, <1>5, <1>6

(* Of what class the rows are.                                             *)
LEMMA Classes ==
    ASSUME NEW d, IsDamaged(d), NEW j \in Jobs
    PROVE  /\ Class(d, j) \in Dropped \union {"OWNER", "LIVE", "AMBIGUOUS"}
           /\ j \in d.applied => Class(d, j) \in Dropped \union {"OWNER"}
           /\ Class(d, j) \notin Dropped => d.kind[j].tag = "live"
                                            /\ JobTag(d.kind[j]) = "live"
           /\ ApplicationClass(d, j) = "OWNER" <=> Class(d, j) = "OWNER"
  <1>1. IsKind(d.kind[j]) /\ d.applicationTag[j] \in Tags
    BY DEF IsDamaged
  <1>2. /\ Legacy(d.kind[j]) \in {"none", "EXCLUDE", "TEST", "FIXTURE"}
        /\ Legacy(d.kind[j]) = "none" => d.kind[j].tag = "live"
                                         /\ JobTag(d.kind[j]) = "live"
    BY <1>1, KindKept
  <1>3. /\ Class(d, j) \in Dropped \union {"OWNER", "LIVE", "AMBIGUOUS"}
        /\ j \in d.applied => Class(d, j) \in Dropped \union {"OWNER"}
        /\ Class(d, j) \notin Dropped => Legacy(d.kind[j]) = "none"
    BY <1>2 DEF Class, JobClass, OwnEvidence, Dropped
  <1>4. ApplicationTag(d, j) \in Tags
    BY <1>1 DEF ApplicationTag, IsKind
  <1>5. ApplicationClass(d, j) = "OWNER" <=> Class(d, j) = "OWNER"
    BY <1>3, <1>4 DEF ApplicationClass, Dropped, Tags
  <1> QED
    BY <1>2, <1>3, <1>5

(* What is imported of a job and an application.                           *)
LEMMA KeptIs ==
    ASSUME NEW d, IsDamaged(d)
    PROVE  /\ KeptApplications(d) =
                {j \in d.applied : Class(d, j) = "OWNER"}
           /\ KeptApplications(d) \subseteq KeptJobs(d)
           /\ \A j \in KeptJobs(d) : Class(d, j) \in {"OWNER", "LIVE"}
  <1>1. d.applied \subseteq Jobs
    BY DEF IsDamaged
  <1>2. \A j \in Jobs : ApplicationClass(d, j) = "OWNER" <=> Class(d, j) = "OWNER"
    BY Classes
  <1> QED
    BY <1>1, <1>2 DEF KeptApplications, KeptJobs

(* A company with a job that is imported is neither excluded nor a test.   *)
LEMMA CompanyOfKept ==
    ASSUME NEW d, IsDamaged(d), NEW j \in KeptJobs(d)
    PROVE  CompanyClass(d, d.company[j]) \in {"OWNER", "LIVE", "AMBIGUOUS"}
  <1> DEFINE of == JobsOf(d, d.company[j])
  <1> DEFINE classes == {Class(d, k) : k \in of}
  <1>1. j \in Jobs /\ Class(d, j) \in {"OWNER", "LIVE"}
    BY KeptIs DEF KeptJobs
  <1>2. d.kind[j].tag = "live"
    BY <1>1, Classes DEF Dropped
  <1>3. j \in of /\ Class(d, j) \in classes
    BY <1>1 DEF JobsOf
  <1>4. ~(classes \subseteq Dropped) /\ classes # {}
    BY <1>1, <1>3 DEF Dropped
  <1> HIDE DEF classes
  <1>5. CompanyClass(d, d.company[j]) =
          IF classes = {"OWNER"} THEN "OWNER"
          ELSE IF "LIVE" \in classes THEN "LIVE" ELSE "AMBIGUOUS"
    BY <1>2, <1>3, <1>4 DEF CompanyClass, classes
  <1> QED
    BY <1>5

(* Tagging keeps the shape of the database and the classes of its jobs.    *)
LEMMA TaggingKeeps ==
    ASSUME NEW d, IsDamaged(d)
    PROVE  /\ IsDamaged(Backfilled(d))
           /\ Backfilled(d).applied = d.applied
           /\ Backfilled(d).eligible = d.eligible
           /\ Backfilled(d).company = d.company
           /\ Backfilled(d).kind = [j \in Jobs |-> Tagged(d.kind[j])]
           /\ Backfilled(d).companyTag = [c \in CompanyIds |-> CompanyTag(d, c)]
           /\ Backfilled(d).applicationTag =
                [j \in Jobs |-> ApplicationTag(d, j)]
           /\ \A j \in Jobs : Class(Backfilled(d), j) = Class(d, j)
  <1> DEFINE b == Backfilled(d)
  <1>1. /\ DOMAIN d.companyTag = CompanyIds /\ DOMAIN d.kind = Jobs
    BY DEF IsDamaged
  <1>2. /\ Inventory(d).jobs = [j \in Jobs |-> JobTag(d.kind[j])]
        /\ Inventory(d).companies = [c \in CompanyIds |-> CompanyTag(d, c)]
        /\ Inventory(d).applications = [j \in Jobs |-> ApplicationTag(d, j)]
    BY <1>1 DEF Inventory
  <1>3. [j \in Jobs |-> [d.kind[j] EXCEPT !.tag = Inventory(d).jobs[j]]]
        = [j \in Jobs |-> Tagged(d.kind[j])]
    BY <1>2 DEF Tagged
  <1>4. b = [d EXCEPT !.kind = [j \in Jobs |-> Tagged(d.kind[j])],
                      !.companyTag = [c \in CompanyIds |-> CompanyTag(d, c)],
                      !.applicationTag = [j \in Jobs |-> ApplicationTag(d, j)]]
    BY <1>2, <1>3 DEF Backfilled
  <1>5. b = [applied |-> d.applied, eligible |-> d.eligible,
             kind |-> [j \in Jobs |-> Tagged(d.kind[j])],
             company |-> d.company,
             companyTag |-> [c \in CompanyIds |-> CompanyTag(d, c)],
             applicationTag |-> [j \in Jobs |-> ApplicationTag(d, j)]]
    BY <1>4 DEF IsDamaged
  <1> HIDE DEF b
  <1>6. /\ b.applied = d.applied /\ b.eligible = d.eligible
        /\ b.company = d.company
        /\ b.kind = [j \in Jobs |-> Tagged(d.kind[j])]
        /\ b.companyTag = [c \in CompanyIds |-> CompanyTag(d, c)]
        /\ b.applicationTag = [j \in Jobs |-> ApplicationTag(d, j)]
    BY <1>5
  <1>7. /\ \A j \in Jobs : IsKind(d.kind[j]) /\ ApplicationTag(d, j) \in Tags
        /\ \A c \in CompanyIds : CompanyTag(d, c) \in Tags
    BY DEF IsDamaged, IsKind, ApplicationTag, CompanyTag, Tags
  <1>8. \A j \in Jobs : /\ IsKind(b.kind[j])
                        /\ b.kind[j].signs = d.kind[j].signs
                        /\ Legacy(b.kind[j]) = Legacy(d.kind[j])
    BY <1>6, <1>7, KindKept
  <1>9. IsDamaged(b)
    <2>1. d.applied \subseteq Jobs /\ d.company \in [Jobs -> CompanyIds]
      BY DEF IsDamaged
    <2> QED
      BY <1>5, <1>6, <1>7, <1>8, <2>1 DEF IsDamaged
  <1>10. \A j \in Jobs : Class(b, j) = Class(d, j)
    BY <1>6, <1>8 DEF Class, JobClass
  <1> QED
    BY <1>6, <1>9, <1>10 DEF b

(* So the same rows are imported.                                          *)
LEMMA SameImport ==
    ASSUME NEW d, IsDamaged(d)
    PROVE  /\ KeptJobs(Backfilled(d)) = KeptJobs(d)
           /\ KeptCompanies(Backfilled(d)) = KeptCompanies(d)
           /\ KeptApplications(Backfilled(d)) = KeptApplications(d)
  <1> DEFINE b == Backfilled(d)
  <1>1. /\ IsDamaged(b) /\ b.applied = d.applied /\ b.eligible = d.eligible
        /\ b.company = d.company
        /\ \A j \in Jobs : /\ Class(b, j) = Class(d, j)
                           /\ b.kind[j].tag = JobTag(d.kind[j])
    <2>1. \A j \in Jobs : Tagged(d.kind[j]).tag = JobTag(d.kind[j])
      BY KindKept DEF IsDamaged
    <2>2. b.kind = [j \in Jobs |-> Tagged(d.kind[j])]
      BY TaggingKeeps
    <2>3. \A j \in Jobs : b.kind[j].tag = JobTag(d.kind[j])
      BY <2>1, <2>2
    <2> QED
      BY <2>3, TaggingKeeps
  <1> HIDE DEF b
  <1>2. KeptJobs(b) = KeptJobs(d)
    BY <1>1 DEF KeptJobs
  <1>3. KeptApplications(b) = KeptApplications(d)
    <2>1. d.applied \subseteq Jobs
      BY DEF IsDamaged
    <2> QED
      BY <1>1, <2>1, KeptIs
  <1>4. ASSUME NEW j \in KeptJobs(d)
        PROVE  CompanyClass(b, d.company[j]) = CompanyClass(d, d.company[j])
    <2> DEFINE of == JobsOf(d, d.company[j])
    <2> DEFINE classes == {Class(d, k) : k \in of}
    <2>1. j \in Jobs /\ Class(d, j) \in {"OWNER", "LIVE"}
      BY KeptIs DEF KeptJobs
    <2>2. j \in of /\ d.kind[j].tag = "live" /\ b.kind[j].tag = "live"
      BY <1>1, <2>1, Classes DEF Dropped, JobsOf
    <2>3. JobsOf(b, d.company[j]) = of
      BY <1>1 DEF JobsOf
    <2>4. {Class(b, k) : k \in of} = classes
      BY <1>1 DEF JobsOf
    <2>5. classes # {}
      BY <2>2
    <2> HIDE DEF of, classes
    <2>6. CompanyClass(b, d.company[j]) =
            IF classes = {"OWNER"} THEN "OWNER"
            ELSE IF "LIVE" \in classes THEN "LIVE"
            ELSE IF classes \subseteq Dropped THEN "EXCLUDE" ELSE "AMBIGUOUS"
      BY <2>2, <2>3, <2>4, <2>5 DEF CompanyClass
    <2>7. CompanyClass(d, d.company[j]) =
            IF classes = {"OWNER"} THEN "OWNER"
            ELSE IF "LIVE" \in classes THEN "LIVE"
            ELSE IF classes \subseteq Dropped THEN "EXCLUDE" ELSE "AMBIGUOUS"
      BY <2>2, <2>5 DEF CompanyClass, of, classes
    <2> QED
      BY <2>6, <2>7
  <1>5. KeptCompanies(b) = KeptCompanies(d)
    BY <1>1, <1>2, <1>4 DEF KeptCompanies
  <1> QED
    BY <1>2, <1>3, <1>5 DEF b

(* Companies and applications are tagged by the second run at the latest.  *)
LEMMA TaggedTwice ==
    ASSUME NEW d, IsDamaged(d)
    PROVE  Backfilled(Backfilled(Backfilled(d))) = Backfilled(Backfilled(d))
  <1> DEFINE b == Backfilled(d)
  <1> DEFINE s == Backfilled(b)
  <1> DEFINE t == Backfilled(s)
  <1>1. /\ IsDamaged(b) /\ b.kind = [j \in Jobs |-> Tagged(d.kind[j])]
    BY TaggingKeeps
  <1>2. /\ IsDamaged(s) /\ s.kind = [j \in Jobs |-> Tagged(b.kind[j])]
        /\ s.company = b.company
        /\ s.companyTag = [c \in CompanyIds |-> CompanyTag(b, c)]
        /\ s.applicationTag = [j \in Jobs |-> ApplicationTag(b, j)]
    <2> HIDE DEF b
    <2> QED
      BY <1>1, TaggingKeeps
  <1>3. /\ IsDamaged(t) /\ t.kind = [j \in Jobs |-> Tagged(s.kind[j])]
        /\ t.applied = s.applied /\ t.eligible = s.eligible
        /\ t.company = s.company
        /\ t.companyTag = [c \in CompanyIds |-> CompanyTag(s, c)]
        /\ t.applicationTag = [j \in Jobs |-> ApplicationTag(s, j)]
    <2> HIDE DEF s
    <2> QED
      BY <1>2, TaggingKeeps
  <1>4. s.kind = b.kind /\ t.kind = s.kind
    <2>1. \A j \in Jobs : IsKind(d.kind[j])
      BY DEF IsDamaged
    <2>2. \A j \in Jobs : Tagged(Tagged(d.kind[j])) = Tagged(d.kind[j])
      BY <2>1, KindKept
    <2> HIDE DEF b, s, t
    <2>3. s.kind = [j \in Jobs |-> Tagged(d.kind[j])]
      BY <1>1, <1>2, <2>2
    <2> QED
      BY <1>1, <1>3, <2>2, <2>3
  <1> HIDE DEF b, s, t
  <1>5. t.companyTag = s.companyTag
    <2>1. \A c \in CompanyIds : JobsOf(s, c) = JobsOf(b, c)
      BY <1>2 DEF JobsOf
    <2>2. ASSUME NEW c \in CompanyIds
          PROVE  CompanyTag(s, c) = CompanyTag(b, c)
      <3> DEFINE tags == {b.kind[j].tag : j \in JobsOf(b, c)}
      <3>1. {s.kind[j].tag : j \in JobsOf(s, c)} = tags
        BY <1>4, <2>1
      <3>2. s.companyTag[c] = CompanyTag(b, c)
        BY <1>2
      <3> HIDE DEF tags
      <3>3. CompanyTag(b, c) =
              IF tags = {} \/ "live" \in tags \/ b.companyTag[c] # "live"
              THEN b.companyTag[c]
              ELSE IF "TEST" \in tags THEN "TEST" ELSE "FIXTURE"
        BY DEF CompanyTag, tags
      <3>4. CompanyTag(s, c) =
              IF tags = {} \/ "live" \in tags \/ s.companyTag[c] # "live"
              THEN s.companyTag[c]
              ELSE IF "TEST" \in tags THEN "TEST" ELSE "FIXTURE"
        BY <3>1 DEF CompanyTag
      <3> QED
        BY <3>2, <3>3, <3>4
    <2> QED
      BY <1>2, <1>3, <2>2
  <1>6. t.applicationTag = s.applicationTag
    <2>1. \A j \in Jobs : ApplicationTag(s, j) = ApplicationTag(b, j)
      BY <1>2, <1>4 DEF ApplicationTag
    <2> QED
      BY <1>2, <1>3, <2>1
  <1>7. t = s
    BY <1>2, <1>3, <1>4, <1>5, <1>6 DEF IsDamaged
  <1> QED
    BY <1>7 DEF b, s, t

-----------------------------------------------------------------------------
(* For any jobs and companies and any signs of what they are: no row that  *)
(* is imported misses its job or application, and tagging the rows of      *)
(* tests first changes nothing of the import (RecoveredRowsHaveParents).   *)
THEOREM RecoveryKeepsParents == RecoverySpec => []RecoveredRowsHaveParents
  <1> DEFINE Inv == input = NoInput \/ (Is("recovery") /\ IsDamaged(Asked))
  <1>1. input = NoInput => Inv
    OBVIOUS
  <1>2. Inv /\ [AskRecovery]_input => Inv'
    <2> SUFFICES ASSUME AskRecovery PROVE Inv'
      BY DEF Is, Asked
    <2>1. PICK applied \in SUBSET Jobs, eligible \in SUBSET Jobs,
               kind \in [Jobs -> JobKinds], company \in [Jobs -> CompanyIds] :
            input' = <<"recovery",
               [applied |-> applied, eligible |-> eligible, kind |-> kind,
                company |-> company,
                companyTag |-> [c \in CompanyIds |-> "live"],
                applicationTag |-> [j \in Jobs |-> "live"]]>>
      BY DEF AskRecovery, Given
    <2>2. \A j \in Jobs : IsKind(kind[j])
      BY KindsOfRowsAssumption DEF IsKind, Tags
    <2>3. Is("recovery")' /\ IsDamaged(Asked)'
      BY <2>1, <2>2 DEF Is, Asked, IsDamaged, Tags
    <2> QED
      BY <2>3
  <1>3. Inv => RecoveredRowsHaveParents
    <2> SUFFICES ASSUME Is("recovery"), IsDamaged(Asked)
                 PROVE  RecoveredRowsHaveParents
      BY DEF RecoveredRowsHaveParents, Is, NoInput
    <2> DEFINE d == Asked
    <2> DEFINE none == {NoParent}
    <2>1. ASSUME NEW job \in Jobs \union none, NEW application \in d.applied \union none
          PROVE  LET row == [job |-> job, application |-> application]
                     linked == KeptSignal(d, row) \/ KeptLedger(d, row)
                 IN /\ linked \/ KeptUsage(d, row) \/ KeptPack(d, row)
                         => job \in KeptJobs(d) \union none
                    /\ linked \/ KeptChild(d, row)
                         => application \in KeptApplications(d) \union none
      BY DEF KeptSignal, KeptLedger, KeptUsage, KeptPack, KeptChild, ParentsKept
    <2>2. ASSUME NEW j \in KeptJobs(d)
          PROVE  \/ d.company[j] \in KeptCompanies(d)
                 \/ CompanyClass(d, d.company[j]) = "AMBIGUOUS"
      BY CompanyOfKept DEF KeptCompanies
    <2>3. KeptApplications(d) \subseteq KeptJobs(d)
      BY KeptIs
    <2>4. ASSUME NEW j \in d.applied
          PROVE  j \in KeptApplications(d) \/ Class(d, j) \in Dropped
      BY KeptIs, Classes DEF IsDamaged
    <2>5. /\ KeptJobs(Backfilled(d)) = KeptJobs(d)
          /\ KeptCompanies(Backfilled(d)) = KeptCompanies(d)
          /\ KeptApplications(Backfilled(d)) = KeptApplications(d)
          /\ IsDamaged(Backfilled(d))
      BY SameImport, TaggingKeeps
    <2>6. LET tagged == Backfilled(Backfilled(d))
          IN /\ KeptJobs(tagged) = KeptJobs(d)
             /\ KeptCompanies(tagged) = KeptCompanies(d)
             /\ KeptApplications(tagged) = KeptApplications(d)
      BY <2>5, SameImport
    <2>7. Backfilled(Backfilled(Backfilled(d))) = Backfilled(Backfilled(d))
      BY TaggedTwice
    <2> HIDE DEF d
    <2> QED
      BY <2>1, <2>2, <2>3, <2>4, <2>5, <2>6, <2>7 DEF RecoveredRowsHaveParents, d
  <1> QED
    BY <1>1, <1>2, <1>3, PTL DEF RecoverySpec

-----------------------------------------------------------------------------
(* Identities.  The name of a database tells the purposes apart, and a     *)
(* connection is only accepted to a database of the purpose.               *)
LEMMA PurposesApart ==
    ASSUME NEW p \in Purposes, NEW q \in Purposes,
           NEW db, db \in DatabasesOf[p], db \in DatabasesOf[q]
    PROVE  p = q \/ {p, q} = {"OWNER", "CI"}
  <1>1. /\ DatabasesOf["OWNER"] = {"career_os"} /\ DatabasesOf["CI"] = {"career_os"}
        /\ DatabasesOf["E2E"] = {"career_os_e2e", "career_os_test"}
        /\ DatabasesOf["RECOVERY"] = {"career_os_recovery"}
        /\ DatabasesOf["OWNER_CANDIDATE"] = {"career_os_owner_candidate"}
    BY DEF DatabasesOf
  <1> QED
    BY <1>1 DEF Purposes

LEMMA AcceptedIsOwn ==
    ASSUME NEW p \in Purposes, NEW u, AcceptsConnection(p, u)
    PROVE  u.db \in DatabasesOf[p]
  BY DEF AcceptsConnection, SettingUp, Migrating, Running

LEMMA OwnersDatabase ==
    ASSUME NEW p \in Purposes, "career_os" \in DatabasesOf[p]
    PROVE  p \in {"OWNER", "CI"}
  BY DEF DatabasesOf, Purposes

(* A marker is accepted by one identity.                                   *)
LEMMA OneIdentity ==
    ASSUME NEW p, NEW q, NEW i, NEW j, NEW markers,
           AcceptsMarker(p, i, markers), AcceptsMarker(q, j, markers)
    PROVE  p = q /\ i = j
  <1>1. [purpose |-> p, uuid |-> i] = [purpose |-> q, uuid |-> j]
    BY DEF AcceptsMarker
  <1>2. [purpose |-> p, uuid |-> i].purpose = [purpose |-> q, uuid |-> j].purpose
        /\ [purpose |-> p, uuid |-> i].uuid = [purpose |-> q, uuid |-> j].uuid
    BY <1>1
  <1> QED
    BY <1>2

(* Whatever hosts, ports and identities there are, a database belongs to   *)
(* one purpose and, once it is marked, to one identity                     *)
(* (database_identity.py:157-264).                                         *)
THEOREM IdentitiesApart == IdentitySpec => []OneIdentityPerDatabase
  <1> DEFINE Inv == Is("identity") => Asked.markers \in Markers
  <1>1. input = NoInput => Inv
    BY DEF NoInput, Is
  <1>2. Inv /\ [AskIdentity]_input => Inv'
    BY DEF AskIdentity, Given, Is, Asked
  <1>3. Inv => OneIdentityPerDatabase
    <2> SUFFICES ASSUME Is("identity") PROVE OneIdentityPerDatabase
      BY DEF OneIdentityPerDatabase
    <2> DEFINE u == Asked.url
               markers == Asked.markers
    <2>1. ASSUME NEW p \in Purposes, NEW q \in Purposes, AcceptsConnection(p, u)
          PROVE  /\ AcceptsConnection(q, u) => (p = q \/ {p, q} = {"OWNER", "CI"})
                 /\ OwnerTarget(u) => p \in {"OWNER", "CI"}
                 /\ RecoveryTarget(q, u) => p = q
      <3>1. u.db \in DatabasesOf[p]
        BY <2>1, AcceptedIsOwn
      <3>2. AcceptsConnection(q, u) => (p = q \/ {p, q} = {"OWNER", "CI"})
        BY <3>1, AcceptedIsOwn, PurposesApart
      <3>3. OwnerTarget(u) => p \in {"OWNER", "CI"}
        BY <3>1, OwnersDatabase DEF OwnerTarget
      <3>4. ASSUME RecoveryTarget(q, u) PROVE p = q
        <4>1. p = q \/ {p, q} = {"OWNER", "CI"}
          BY <3>1, <3>4, PurposesApart DEF RecoveryTarget
        <4> QED
          BY <3>4, <4>1 DEF RecoveryTarget
      <3> QED
        BY <3>2, <3>3, <3>4
    <2>2. ASSUME NEW p \in Purposes, NEW q \in Purposes, NEW i \in Uuids, NEW j \in Uuids,
                 markers # {}, MayMigrate(p, i, u, markers), ProvisionPasses(q, j, markers)
          PROVE  p = q /\ i = j
      <3>1. AcceptsMarker(p, i, markers) /\ AcceptsMarker(q, j, markers)
        BY <2>2 DEF MayMigrate, MayRun, ProvisionPasses, Provisioned
      <3> QED
        BY <3>1, OneIdentity
    <2>3. ASSUME NEW p \in Purposes, NEW i \in Uuids, NEW j \in Uuids, NEW user \in Users,
                 OwnerHelper(i, u, markers), MayRun(p, j, [u EXCEPT !.user = user], markers)
          PROVE  p = "OWNER" /\ i = j
      <3>1. AcceptsMarker("OWNER", i, markers) /\ AcceptsMarker(p, j, markers)
        BY <2>3 DEF OwnerHelper, MayRun
      <3> QED
        BY <3>1, OneIdentity
    <2> QED
      BY <2>1, <2>2, <2>3 DEF OneIdentityPerDatabase
  <1> QED
    BY <1>1, <1>2, <1>3, PTL DEF IdentitySpec

=============================================================================
