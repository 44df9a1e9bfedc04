--------------------------- MODULE KeyStoreProofs ---------------------------
(***************************************************************************)
(* Theorems about KeyStore: however often the process is stopped and       *)
(* whatever write fails, what Open returns is what was there before.       *)
(***************************************************************************)
EXTENDS KeyStore, TLAPS

\* The key store on its own, which is the part "keys" of ServerProcess.
KeyStoreSpec == KeyStoreInit /\ [][KeyStoreNext]_keyVars

-----------------------------------------------------------------------------
(* The invariant *)

Contents == [st : {"absent", "cut", "ok"}, key : Nat, ca : Nat, serials : SUBSET Nat]
Tasks == [file : FileName, content : Contents]
Modes == {"down", "generating", "loading", "failed", "up", "rotating", "revoking"}

KeyStoreType ==
    /\ disk \in [FileName -> Contents]
    /\ mem \in [FileName -> Contents]
    /\ mode \in Modes
    /\ todo \in Seq(Tasks)
    /\ keys \in Nat /\ starts \in Nat /\ root \in Nat
    /\ revoked \in SUBSET Nat
    /\ torn \in BOOLEAN /\ cut \in BOOLEAN

\* What a rotation and a revocation write.
Rotation(k, ca) == <<[file |-> "label.key", content |-> Key(k)],
                     [file |-> "label.crt", content |-> Cert(k, ca)]>>

Revocation(list) == <<[file |-> "revoked.json", content |-> list]>>

\* The first n tasks of the plan are written, and the others are still to do.
Written(plan, n) ==
    /\ Len(todo) = Len(plan) - n
    /\ \A i \in 1 .. Len(todo) : todo[i] = plan[n + i]
    /\ \A i \in 1 .. n : disk[plan[i].file] = plan[i].content

UnderWay(plan) == \E n \in 0 .. Len(plan) : Written(plan, n)

PlansUnderWay ==
    /\ mode = "generating" => keys >= 3 /\ UnderWay(Generated(keys - 2))
    /\ mode = "rotating" => UnderWay(Rotation(keys, mem["ca.key"].key))
    /\ mode = "revoking" => UnderWay(Revocation(mem["revoked.json"]))
    /\ mode \in {"down", "loading", "failed", "up"} => todo = << >>
    /\ \A i \in DOMAIN todo : todo[i].content.st = "ok"

\* Before the certificate of the CA there is nothing but its key, and what is
\* still to be generated is not there.
NothingBefore ==
    /\ disk["ca.crt"].st = "absent" =>
          /\ root = 0
          /\ mode \in {"down", "generating", "failed"}
          /\ \A f \in FileName \ {"ca.key"} : disk[f] = Absent
    /\ mode = "generating" =>
          /\ root = 0
          /\ \A i \in DOMAIN todo :
                todo[i].file # "ca.key" =>
                    /\ disk[todo[i].file].st # "ok"
                    /\ i > 1 => disk[todo[i].file] = Absent
    /\ disk["ca.crt"].st = "ok" => disk["ca.crt"].key # 0
    /\ Up => root # 0
    /\ root = 0 => revoked = {} /\ ~torn

\* The files that belong together do so where they can be read; those of the
\* label signer need not while a rotation is between them.
CoreFits(files) ==
    /\ files["ca.key"].key = files["ca.crt"].key
    /\ root # 0 => files["ca.crt"].key = root
    /\ files["checkpoint.key"].key = files["checkpoint.crt"].key
    /\ files["checkpoint.crt"].ca = files["ca.crt"].key

LabelFits(files) ==
    /\ files["label.key"].key = files["label.crt"].key
    /\ files["label.crt"].ca = files["ca.crt"].key

DiskFits ==
    /\ root # 0 => disk["ca.crt"].st = "ok" /\ CoreFits(disk)
    /\ mode # "generating" /\ Loadable => CoreFits(disk)
    /\ mode # "generating" /\ disk["label.key"].st = "ok" /\ disk["label.crt"].st = "ok" =>
          torn \/ (mode = "rotating" /\ Len(todo) < 2) \/ LabelFits(disk)

MemFits == Up => CoreFits(mem) /\ (torn \/ LabelFits(mem)) /\ mem["revoked.json"].st = "ok"

\* The list of revocations is on disk, or cannot be read.
ListHolds ==
    /\ disk["revoked.json"].st = "ok" => revoked \subseteq disk["revoked.json"].serials
    /\ disk["revoked.json"].st = "absent" => revoked = {}
    /\ Up => revoked \subseteq mem["revoked.json"].serials

\* Keys are counted as they are made; a rotation makes a new one.
KeysCount ==
    /\ \A f \in FileName : disk[f].key <= keys /\ mem[f].key <= keys
    /\ mode = "rotating" => mem["label.key"].key < keys

\* As long as nothing is cut short, every file is there or about to be.
CutIsKnown ==
    ~cut => \/ mode = "down" /\ (\A f \in FileName : disk[f] = Absent)
            \/ \A f \in FileName : disk[f].st = "ok" \/ \E i \in DOMAIN todo : todo[i].file = f

KeyStoreInv ==
    /\ KeyStoreType /\ PlansUnderWay /\ NothingBefore /\ DiskFits /\ MemFits
    /\ ListHolds /\ KeysCount /\ CutIsKnown

-----------------------------------------------------------------------------
(* Plans *)

\* The files of a key store, one by one.
LEMMA FileNamesAre ==
  /\ FileName = {"ca.key", "ca.crt", "label.key", "label.crt",
                 "checkpoint.key", "checkpoint.crt", "revoked.json"}
  /\ \A i, j \in 1 .. 7 : FileNames[i] = FileNames[j] => i = j
  /\ \A i \in 1 .. 7 : FileNames[i] \in FileName
<1>1. \A i \in 1 .. 7 : i = 1 \/ i = 2 \/ i = 3 \/ i = 4 \/ i = 5 \/ i = 6 \/ i = 7
  OBVIOUS
<1>2. FileName = {"ca.key", "ca.crt", "label.key", "label.crt",
                  "checkpoint.key", "checkpoint.crt", "revoked.json"}
  BY <1>1 DEF FileName, FileNames
<1>3. \A i, j \in 1 .. 7 : FileNames[i] = FileNames[j] => i = j
  BY <1>1 DEF FileNames
<1>4. QED
  BY <1>2, <1>3 DEF FileName

\* What is written can be read.
LEMMA ContentsAre ==
  /\ \A k \in Nat : Key(k) \in Contents /\ Key(k).st = "ok" /\ Key(k).key = k
  /\ \A k, ca \in Nat : /\ Cert(k, ca) \in Contents /\ Cert(k, ca).st = "ok"
                        /\ Cert(k, ca).key = k /\ Cert(k, ca).ca = ca
  /\ \A serials \in SUBSET Nat :
        /\ List(serials) \in Contents /\ List(serials).st = "ok"
        /\ List(serials).key = 0 /\ List(serials).serials = serials
  /\ Absent \in Contents /\ Absent.st = "absent" /\ Absent.key = 0
  /\ Cut \in Contents /\ Cut.st = "cut" /\ Cut.key = 0
BY DEF Key, Cert, List, Absent, Cut, Content, Contents

\* A plan of tasks about different files.
IsPlan(plan) ==
    /\ plan \in Seq(Tasks)
    /\ \A i, j \in DOMAIN plan : plan[i].file = plan[j].file => i = j
    /\ \A i \in DOMAIN plan : plan[i].content.st = "ok"

\* The tasks of a plan are about files of the store.
LEMMA PlanTasks ==
  ASSUME NEW plan, IsPlan(plan)
  PROVE  /\ Len(plan) \in Nat /\ DOMAIN plan = 1 .. Len(plan)
         /\ \A i \in 1 .. Len(plan) : plan[i].file \in FileName
         /\ \A i \in 1 .. Len(plan) : plan[i].content \in Contents
         /\ \A i, j \in 1 .. Len(plan) : plan[i].file = plan[j].file => i = j
<1>1. Len(plan) \in Nat /\ DOMAIN plan = 1 .. Len(plan)
  BY DEF IsPlan
<1>2. \A i \in 1 .. Len(plan) : plan[i] \in Tasks
  BY <1>1 DEF IsPlan
<1>3. QED
  BY <1>1, <1>2 DEF IsPlan, Tasks

\* generate writes the files in the order of FileNames, each of them once.
LEMMA GeneratedIsPlan ==
  ASSUME NEW k \in Nat
  PROVE  /\ IsPlan(Generated(k))
         /\ Len(Generated(k)) = 7
         /\ DOMAIN Generated(k) = 1 .. 7
         /\ \A i \in 1 .. 7 : Generated(k)[i].file = FileNames[i]
         /\ \A i \in 1 .. 7 : Generated(k)[i].content.key <= k + 2
<1>1. \A i \in 1 .. 7 : i = 1 \/ i = 2 \/ i = 3 \/ i = 4 \/ i = 5 \/ i = 6 \/ i = 7
  OBVIOUS
<1>2. Len(Generated(k)) = 7 /\ DOMAIN Generated(k) = 1 .. 7
  BY DEF Generated
<1>3. \A i \in 1 .. 7 : Generated(k)[i].file = FileNames[i]
  BY <1>1 DEF Generated, FileNames
<1>4. \A i \in 1 .. 7 : /\ Generated(k)[i].content \in Contents
                        /\ Generated(k)[i].content.st = "ok"
                        /\ Generated(k)[i].content.key <= k + 2
  <2>1. /\ Key(k) \in Contents /\ Key(k).st = "ok" /\ Key(k).key = k
        /\ Key(k + 1) \in Contents /\ Key(k + 1).st = "ok" /\ Key(k + 1).key = k + 1
        /\ Key(k + 2) \in Contents /\ Key(k + 2).st = "ok" /\ Key(k + 2).key = k + 2
    BY ContentsAre
  <2>2. /\ Cert(k, k) \in Contents /\ Cert(k, k).st = "ok" /\ Cert(k, k).key = k
        /\ Cert(k + 1, k) \in Contents /\ Cert(k + 1, k).st = "ok" /\ Cert(k + 1, k).key = k + 1
        /\ Cert(k + 2, k) \in Contents /\ Cert(k + 2, k).st = "ok" /\ Cert(k + 2, k).key = k + 2
    BY ContentsAre
  <2>3. List({}) \in Contents /\ List({}).st = "ok" /\ List({}).key = 0
    BY ContentsAre
  <2>4. QED
    BY <1>1, <2>1, <2>2, <2>3 DEF Generated
<1>5. Generated(k) \in Seq(Tasks)
  <2>1. \A i \in 1 .. 7 : Generated(k)[i] \in Tasks
    BY <1>1, <1>3, <1>4, FileNamesAre DEF Tasks, Generated
  <2>2. Generated(k) = [i \in 1 .. 7 |-> Generated(k)[i]]
    BY DEF Generated
  <2>3. QED
    BY <2>1, <2>2
<1>6. QED
  BY <1>2, <1>3, <1>4, <1>5, FileNamesAre DEF IsPlan

\* A rotation writes the key and then the certificate.
LEMMA RotationIsPlan ==
  ASSUME NEW k \in Nat, NEW ca \in Nat
  PROVE  /\ IsPlan(Rotation(k, ca))
         /\ Len(Rotation(k, ca)) = 2 /\ DOMAIN Rotation(k, ca) = 1 .. 2
         /\ Rotation(k, ca)[1].file = "label.key" /\ Rotation(k, ca)[2].file = "label.crt"
         /\ Rotation(k, ca)[1].content = Key(k)
         /\ Rotation(k, ca)[2].content = Cert(k, ca)
<1>1. Key(k) \in Contents /\ Key(k).st = "ok"
  BY ContentsAre
<1>2. Cert(k, ca) \in Contents /\ Cert(k, ca).st = "ok"
  BY ContentsAre
<1>3. Rotation(k, ca) \in Seq(Tasks)
  BY <1>1, <1>2, FileNamesAre DEF Rotation, Tasks
<1>4. QED
  BY <1>1, <1>2, <1>3 DEF Rotation, IsPlan

\* A revocation writes one list.
LEMMA RevocationIsPlan ==
  ASSUME NEW list \in Contents, list.st = "ok"
  PROVE  /\ IsPlan(Revocation(list))
         /\ Len(Revocation(list)) = 1 /\ DOMAIN Revocation(list) = 1 .. 1
         /\ Revocation(list)[1].file = "revoked.json"
         /\ Revocation(list)[1].content = list
<1>1. Revocation(list) \in Seq(Tasks)
  BY FileNamesAre DEF Revocation, Tasks
<1>2. QED
  BY <1>1 DEF Revocation, IsPlan

\* The file that is written next.
LEMMA NextTask ==
  ASSUME KeyStoreType, todo # << >>
  PROVE  /\ Head(todo) = todo[1] /\ todo[1] \in Tasks
         /\ todo[1].file \in FileName /\ todo[1].content \in Contents
         /\ Len(todo) \in Nat /\ Len(todo) > 0 /\ DOMAIN todo = 1 .. Len(todo)
         /\ Tail(todo) \in Seq(Tasks)
         /\ Len(Tail(todo)) = Len(todo) - 1
         /\ DOMAIN Tail(todo) = 1 .. (Len(todo) - 1)
         /\ \A i \in 1 .. (Len(todo) - 1) : Tail(todo)[i] = todo[i + 1]
<1>1. todo \in Seq(Tasks)
  BY DEF KeyStoreType
<1>2. /\ Head(todo) = todo[1] /\ Len(todo) \in Nat /\ Len(todo) > 0
      /\ DOMAIN todo = 1 .. Len(todo) /\ todo[1] \in Tasks
  BY <1>1
<1>3. /\ Tail(todo) \in Seq(Tasks) /\ Len(Tail(todo)) = Len(todo) - 1
      /\ DOMAIN Tail(todo) = 1 .. (Len(todo) - 1)
      /\ \A i \in 1 .. (Len(todo) - 1) : Tail(todo)[i] = todo[i + 1]
  BY <1>1, <1>2
<1>4. QED
  BY <1>2, <1>3 DEF Tasks

\* What is still to be written are files of the store.
LEMMA TasksOfFiles ==
  ASSUME KeyStoreType
  PROVE  \A i \in DOMAIN todo : todo[i].file \in FileName
<1>1. \A i \in DOMAIN todo : todo[i] \in Tasks
  BY DEF KeyStoreType
<1>2. QED
  BY <1>1 DEF Tasks

\* os.WriteFile changes no other file.
LEMMA DiskChanges ==
  ASSUME KeyStoreType, todo # << >>, NEW c \in Contents,
         disk' = [disk EXCEPT ![Head(todo).file] = c]
  PROVE  /\ disk' \in [FileName -> Contents]
         /\ disk'[todo[1].file] = c
         /\ \A f \in FileName : f # todo[1].file => disk'[f] = disk[f]
BY NextTask DEF KeyStoreType

\* Truncating the next file of a plan leaves the others as they are.
LEMMA TruncateKeepsPlan ==
  ASSUME KeyStoreType, Truncate, NEW plan, IsPlan(plan), NEW n \in 0 .. Len(plan),
         Written(plan, n)
  PROVE  Written(plan, n)'
<1>1. /\ todo' = todo
      /\ \A f \in FileName : f # todo[1].file => disk'[f] = disk[f]
  BY DiskChanges, ContentsAre DEF Truncate
<1>2. Len(plan) \in Nat /\ DOMAIN plan = 1 .. Len(plan)
  BY PlanTasks
<1>3. n < Len(plan) /\ todo[1] = plan[n + 1]
  BY <1>2, NextTask DEF Truncate, Written
<1>4. ASSUME NEW i \in 1 .. n
      PROVE  disk'[plan[i].file] = plan[i].content
  <2>1. plan[i].file # plan[n + 1].file /\ plan[i].file \in FileName
    BY <1>2, <1>3, PlanTasks
  <2>2. QED
    BY <2>1, <1>1, <1>3 DEF Written
<1>5. QED
  BY <1>1, <1>4 DEF Written

\* Writing the next file of a plan gets one task further.
LEMMA WriteGoesOn ==
  ASSUME KeyStoreType, Write, NEW plan, IsPlan(plan), NEW n \in 0 .. Len(plan),
         Written(plan, n)
  PROVE  n + 1 \in 0 .. Len(plan) /\ Written(plan, n + 1)'
<1>1. /\ todo' = Tail(todo)
      /\ disk'[todo[1].file] = todo[1].content
      /\ \A f \in FileName : f # todo[1].file => disk'[f] = disk[f]
  BY DiskChanges, NextTask DEF Write
<1>2. Len(plan) \in Nat /\ DOMAIN plan = 1 .. Len(plan)
  BY PlanTasks
<1>3. n < Len(plan) /\ todo[1] = plan[n + 1]
  BY <1>2, NextTask DEF Write, Written
<1>4. ASSUME NEW i \in 1 .. (n + 1)
      PROVE  disk'[plan[i].file] = plan[i].content
  <2>1. CASE i = n + 1
    BY <2>1, <1>1, <1>3
  <2>2. CASE i # n + 1
    <3>1. plan[i].file # plan[n + 1].file /\ plan[i].file \in FileName
      BY <2>2, <1>2, <1>3, PlanTasks
    <3>2. QED
      BY <3>1, <2>2, <1>1, <1>3 DEF Written
  <2>3. QED
    BY <2>1, <2>2
<1>5. Len(todo') = Len(plan) - (n + 1)
  BY <1>1, <1>2, NextTask DEF Write, Written
<1>6. \A i \in 1 .. Len(todo') : todo'[i] = plan[(n + 1) + i]
  BY <1>1, <1>2, <1>5, NextTask DEF Write, Written
<1>7. QED
  BY <1>2, <1>3, <1>4, <1>5, <1>6 DEF Written

\* Both steps of a write leave a plan under way.
LEMMA PlanGoesOn ==
  ASSUME KeyStoreType, Truncate \/ Write, NEW plan, IsPlan(plan), UnderWay(plan)
  PROVE  UnderWay(plan)'
<1>1. PICK n \in 0 .. Len(plan) : Written(plan, n)
  BY DEF UnderWay
<1>2. CASE Truncate
  BY <1>1, <1>2, TruncateKeepsPlan DEF UnderWay
<1>3. CASE Write
  BY <1>1, <1>3, WriteGoesOn DEF UnderWay
<1>4. QED
  BY <1>2, <1>3

\* So the operation that was under way still is.
LEMMA PlansGoOn ==
  ASSUME KeyStoreType, PlansUnderWay, MemFits, Truncate \/ Write
  PROVE  /\ mode = "generating" => keys' >= 3 /\ UnderWay(Generated(keys - 2))'
         /\ mode = "rotating" => UnderWay(Rotation(keys, mem["ca.key"].key))'
         /\ mode = "revoking" => UnderWay(Revocation(mem["revoked.json"]))'
<1>1. keys' = keys /\ mem' = mem /\ keys \in Nat
  BY DEF Truncate, Write, KeyStoreType
<1>2. ASSUME mode = "generating"
      PROVE  keys' >= 3 /\ UnderWay(Generated(keys - 2))'
  <2>1. keys >= 3 /\ keys - 2 \in Nat /\ UnderWay(Generated(keys - 2))
    BY <1>1, <1>2 DEF PlansUnderWay
  <2>2. PICK k \in Nat : k = keys - 2
    BY <2>1
  <2>3. IsPlan(Generated(k)) /\ UnderWay(Generated(k))
    BY <2>1, <2>2, GeneratedIsPlan
  <2>4. UnderWay(Generated(k))'
    BY <2>3, PlanGoesOn
  <2>5. k = (keys - 2)'
    BY <2>2, <1>1
  <2>6. UnderWay(Generated(keys - 2))'
    BY <2>4, <2>5 DEF UnderWay, Written
  <2>7. QED
    BY <2>1, <2>6, <1>1
<1>3. ASSUME mode = "rotating"
      PROVE  UnderWay(Rotation(keys, mem["ca.key"].key))'
  <2>1. mem["ca.key"].key \in Nat /\ UnderWay(Rotation(keys, mem["ca.key"].key))
    BY <1>3, FileNamesAre DEF PlansUnderWay, KeyStoreType, Contents
  <2>2. PICK k \in Nat, ca \in Nat : k = keys /\ ca = mem["ca.key"].key
    BY <1>1, <2>1
  <2>3. IsPlan(Rotation(k, ca)) /\ UnderWay(Rotation(k, ca))
    BY <2>1, <2>2, RotationIsPlan
  <2>4. UnderWay(Rotation(k, ca))'
    BY <2>3, PlanGoesOn
  <2>5. k = keys' /\ ca = (mem["ca.key"].key)'
    BY <2>2, <1>1
  <2>6. QED
    BY <2>4, <2>5 DEF UnderWay, Written
<1>4. ASSUME mode = "revoking"
      PROVE  UnderWay(Revocation(mem["revoked.json"]))'
  <2>1. /\ mem["revoked.json"] \in Contents /\ mem["revoked.json"].st = "ok"
        /\ UnderWay(Revocation(mem["revoked.json"]))
    BY <1>4, FileNamesAre DEF PlansUnderWay, KeyStoreType, MemFits, Up
  <2>2. PICK list \in Contents : list = mem["revoked.json"]
    BY <2>1
  <2>3. IsPlan(Revocation(list)) /\ UnderWay(Revocation(list))
    BY <2>1, <2>2, RevocationIsPlan
  <2>4. UnderWay(Revocation(list))'
    BY <2>3, PlanGoesOn
  <2>5. list = mem["revoked.json"]'
    BY <2>2, <1>1
  <2>6. QED
    BY <2>4, <2>5 DEF UnderWay, Written
<1>5. QED
  BY <1>2, <1>3, <1>4

-----------------------------------------------------------------------------
(* The invariant holds *)

\* An empty directory and no process.
LEMMA InitHolds ==
  ASSUME KeyStoreInit
  PROVE  KeyStoreInv
<1> USE DEF KeyStoreInit
<1>1. \A f \in FileName : disk[f] = Absent /\ mem[f] = Absent
  OBVIOUS
<1>2. KeyStoreType
  <2>1. disk \in [FileName -> Contents] /\ mem \in [FileName -> Contents]
    BY ContentsAre
  <2>2. todo \in Seq(Tasks)
    OBVIOUS
  <2>3. QED
    BY <2>1, <2>2 DEF KeyStoreType, Modes
<1>3. PlansUnderWay
  BY DEF PlansUnderWay
<1>4. NothingBefore /\ DiskFits /\ MemFits
  BY <1>1, FileNamesAre, ContentsAre
     DEF NothingBefore, DiskFits, MemFits, Up, Loadable, Readable
<1>5. ListHolds /\ KeysCount /\ CutIsKnown
  BY <1>1, FileNamesAre, ContentsAre DEF ListHolds, KeysCount, CutIsKnown, Up
<1>6. QED
  BY <1>2, <1>3, <1>4, <1>5 DEF KeyStoreInv

\* Opening a store that is complete, or beginning to generate one.
LEMMA OpenKeeps ==
  ASSUME KeyStoreInv, Open
  PROVE  KeyStoreInv'
<1> USE DEF KeyStoreInv, Open
<1>0. /\ keys \in Nat /\ todo = << >>
      /\ "ca.crt" \in FileName /\ "revoked.json" \in FileName
  BY FileNamesAre DEF KeyStoreType, PlansUnderWay
<1>1. CASE disk["ca.crt"].st = "absent"
  <2>1. /\ mode' = "generating" /\ todo' = Generated(keys + 1) /\ keys' = keys + 3
        /\ keys' - 2 = keys + 1 /\ keys' >= 3 /\ keys + 1 \in Nat
    BY <1>0, <1>1
  <2>2. /\ IsPlan(todo') /\ todo' \in Seq(Tasks)
        /\ Len(todo') = 7 /\ DOMAIN todo' = 1 .. 7
        /\ todo' = Generated(keys' - 2)
        /\ \A i \in 1 .. 7 : todo'[i].file = FileNames[i]
    BY <2>1, GeneratedIsPlan DEF IsPlan
  <2>3. KeyStoreType'
    <3>1. mode' \in Modes /\ keys' \in Nat /\ starts' \in Nat
      BY <1>0, <2>1 DEF KeyStoreType, Modes
    <3>2. UNCHANGED <<disk, mem, root, revoked, torn, cut>>
      OBVIOUS
    <3>3. todo' \in Seq(Tasks)
      BY <2>2
    <3>4. KeyStoreType
      OBVIOUS
    <3> HIDE DEF KeyStoreInv, Open
    <3>5. QED
      BY <3>1, <3>2, <3>3, <3>4 DEF KeyStoreType
  <2>4. PlansUnderWay'
    <3>1. Written(Generated(keys - 2), 0)'
      BY <2>2 DEF Written
    <3>2. UnderWay(Generated(keys - 2))'
      BY <3>1, <2>2, 0 \in 0 .. 7 DEF UnderWay
    <3>3. QED
      BY <3>2, <2>1, <2>2 DEF PlansUnderWay, IsPlan
  <2>5. NothingBefore'
    <3>1. \A i \in 1 .. 7 : todo'[i].file = "ca.key" \/ disk[todo'[i].file] = Absent
      BY <2>2, <1>1, FileNamesAre DEF NothingBefore
    <3>2. QED
      BY <3>1, <2>1, <2>2, <1>1, ContentsAre DEF NothingBefore, Up
  <2>6. DiskFits' /\ MemFits' /\ ListHolds'
    BY <2>1, <1>1 DEF NothingBefore, DiskFits, CoreFits, MemFits, ListHolds, Up
  <2>7. KeysCount'
    BY <2>1, <1>0 DEF KeysCount, KeyStoreType, Contents
  <2>8. CutIsKnown'
    BY <2>2 DEF CutIsKnown, FileName
  <2>9. QED
    BY <2>3, <2>4, <2>5, <2>6, <2>7, <2>8
<1>2. CASE disk["ca.crt"].st # "absent"
  <2>1. mode' = "loading" /\ UNCHANGED <<disk, todo, mem, keys, root, revoked, torn, cut>>
    BY <1>2
  <2>2. KeyStoreType' /\ PlansUnderWay'
    BY <1>0, <2>1 DEF KeyStoreType, PlansUnderWay, Modes
  <2>3. NothingBefore'
    BY <2>1, <1>2 DEF NothingBefore, Up
  <2>4. DiskFits'
    BY <2>1 DEF DiskFits, CoreFits, LabelFits, Loadable, Readable
  <2>5. MemFits' /\ ListHolds' /\ KeysCount'
    BY <2>1 DEF MemFits, ListHolds, KeysCount, Up
  <2>6. CutIsKnown'
    BY <2>1, <1>0, <1>2, ContentsAre DEF CutIsKnown
  <2>7. QED
    BY <2>2, <2>3, <2>4, <2>5, <2>6
<1>3. QED
  BY <1>1, <1>2

\* load: what is read from the disk fits as the disk does.
LEMMA LoadKeeps ==
  ASSUME KeyStoreInv, Load
  PROVE  KeyStoreInv'
<1> USE DEF KeyStoreInv, Load
<1>1. /\ mode' = "up" /\ todo' = << >>
      /\ UNCHANGED <<disk, todo, keys, revoked, torn, cut>>
  BY DEF PlansUnderWay
<1>2. /\ \A f \in FileName : disk[f].st = "ok" => mem'[f] = disk[f]
      /\ \A f \in FileName : disk[f].st # "ok" => mem'[f] = List({})
      /\ \A f \in FileName : disk[f].st # "ok" => f = "revoked.json" /\ disk[f].st = "absent"
  BY DEF Loadable, Readable
<1>3. /\ disk["ca.crt"].st = "ok" /\ disk["ca.crt"].key # 0
      /\ mem'["ca.key"] = disk["ca.key"] /\ mem'["ca.crt"] = disk["ca.crt"]
      /\ mem'["checkpoint.key"] = disk["checkpoint.key"]
      /\ mem'["checkpoint.crt"] = disk["checkpoint.crt"]
      /\ mem'["label.key"] = disk["label.key"] /\ mem'["label.crt"] = disk["label.crt"]
      /\ disk["label.key"].st = "ok" /\ disk["label.crt"].st = "ok"
      /\ mem'["revoked.json"].st = "ok"
  BY <1>2, FileNamesAre, ContentsAre DEF NothingBefore
<1>4. CoreFits(disk) /\ (torn \/ LabelFits(disk)) /\ (root # 0 => disk["ca.crt"].key = root)
  BY <1>3 DEF DiskFits, CoreFits
<1>5. root' = disk["ca.crt"].key /\ root' # 0 /\ root' \in Nat
  BY <1>3, <1>4, FileNamesAre DEF KeyStoreType, Contents
<1>6. KeyStoreType'
  BY <1>1, <1>5, ContentsAre DEF KeyStoreType, Modes
<1>7. PlansUnderWay'
  BY <1>1 DEF PlansUnderWay
<1>8. NothingBefore'
  BY <1>1, <1>3, <1>5 DEF NothingBefore
<1>9. DiskFits'
  BY <1>1, <1>3, <1>4, <1>5 DEF DiskFits, CoreFits, LabelFits, Loadable, Readable
<1>10. MemFits'
  BY <1>1, <1>3, <1>4, <1>5 DEF MemFits, CoreFits, LabelFits
<1>11. ListHolds'
  <2>1. revoked \subseteq mem'["revoked.json"].serials
    BY <1>2, FileNamesAre, ContentsAre DEF ListHolds
  <2>2. QED
    BY <1>1, <2>1 DEF ListHolds
<1>12. KeysCount'
  BY <1>1, <1>2, ContentsAre DEF KeysCount, KeyStoreType
<1>13. CutIsKnown'
  BY <1>1, <1>3, FileNamesAre, ContentsAre DEF CutIsKnown
<1>14. QED
  BY <1>6, <1>7, <1>8, <1>9, <1>10, <1>11, <1>12, <1>13

\* A store that cannot be loaded stays as it is.
LEMMA LoadFailsKeeps ==
  ASSUME KeyStoreInv, LoadFails
  PROVE  KeyStoreInv' /\ cut'
<1> USE DEF KeyStoreInv, LoadFails
<1>1. /\ mode' = "failed" /\ todo = << >> /\ mode = "loading"
      /\ UNCHANGED <<disk, todo, mem, keys, root, revoked, torn, cut>>
  BY DEF PlansUnderWay
<1>2. cut
  BY <1>1 DEF CutIsKnown, Loadable, Readable
<1>3. KeyStoreType' /\ PlansUnderWay'
  BY <1>1 DEF KeyStoreType, PlansUnderWay, Modes
<1>4. NothingBefore' /\ MemFits' /\ ListHolds' /\ KeysCount' /\ CutIsKnown'
  BY <1>1, <1>2 DEF NothingBefore, MemFits, ListHolds, KeysCount, CutIsKnown, Up
<1>5. DiskFits'
  BY <1>1 DEF DiskFits, CoreFits, LabelFits, Loadable, Readable
<1>6. QED
  BY <1>1, <1>2, <1>3, <1>4, <1>5

\* A rotation begins.
LEMMA RotateKeeps ==
  ASSUME KeyStoreInv, Rotate
  PROVE  KeyStoreInv'
<1> USE DEF KeyStoreInv, Rotate
<1>1. /\ mode' = "rotating" /\ keys' = keys + 1 /\ keys \in Nat /\ todo = << >>
      /\ UNCHANGED <<disk, mem, starts, root, revoked, torn, cut>>
      /\ todo' = Rotation(keys', mem["ca.key"].key) /\ Up
      /\ mem["ca.key"].key \in Nat /\ keys' \in Nat
  BY FileNamesAre DEF KeyStoreType, Contents, PlansUnderWay, Rotation, Up
<1>2. /\ IsPlan(todo') /\ todo' \in Seq(Tasks) /\ Len(todo') = 2 /\ DOMAIN todo' = 1 .. 2
  <2> HIDE DEF KeyStoreInv, Rotate
  <2> DEFINE plan == Rotation(keys', mem["ca.key"].key)
  <2>1. IsPlan(plan) /\ Len(plan) = 2 /\ DOMAIN plan = 1 .. 2
    BY <1>1, RotationIsPlan
  <2>2. todo' = plan
    BY <1>1
  <2> HIDE DEF plan
  <2>3. QED
    BY <2>1, <2>2 DEF IsPlan
<1>3. KeyStoreType'
  <2>1. KeyStoreType
    OBVIOUS
  <2> HIDE DEF KeyStoreInv, Rotate
  <2>2. mode' \in Modes
    BY <1>1 DEF Modes
  <2>3. todo' \in Seq(Tasks)
    BY <1>2
  <2>4. QED
    BY <1>1, <2>1, <2>2, <2>3 DEF KeyStoreType
<1>4. PlansUnderWay'
  <2>1. Written(Rotation(keys, mem["ca.key"].key), 0)'
    BY <1>1, <1>2 DEF Written
  <2>2. UnderWay(Rotation(keys, mem["ca.key"].key))'
    BY <2>1, <1>1, <1>2, 0 \in 0 .. 2 DEF UnderWay
  <2>3. QED
    BY <2>2, <1>1, <1>2 DEF PlansUnderWay, IsPlan
<1>5. NothingBefore'
  BY <1>1 DEF NothingBefore, Up
<1>6. DiskFits'
  BY <1>1 DEF DiskFits, CoreFits, LabelFits, Loadable, Readable
<1>7. MemFits' /\ ListHolds'
  BY <1>1 DEF MemFits, ListHolds, CoreFits, LabelFits, Up
<1>8. KeysCount'
  <2>1. \A f \in FileName : disk[f].key \in Nat /\ mem[f].key \in Nat
    BY DEF KeyStoreType, Contents
  <2>2. KeysCount
    OBVIOUS
  <2> HIDE DEF KeyStoreInv, Rotate
  <2>3. \A f \in FileName : disk'[f].key <= keys' /\ mem'[f].key <= keys'
    BY <2>1, <2>2, <1>1 DEF KeysCount
  <2>4. mem'["label.key"].key < keys'
    BY <2>1, <2>2, <1>1, FileNamesAre DEF KeysCount
  <2>5. QED
    BY <2>3, <2>4 DEF KeysCount
<1>9. CutIsKnown'
  BY <1>1 DEF CutIsKnown
<1>10. QED
  BY <1>3, <1>4, <1>5, <1>6, <1>7, <1>8, <1>9

\* A revocation begins: the serial is in memory.
LEMMA RevokeKeeps ==
  ASSUME KeyStoreInv, Revoke
  PROVE  KeyStoreInv'
<1> USE DEF KeyStoreInv, Revoke
<1>1. /\ mode' = "revoking" /\ todo = << >> /\ Up
      /\ UNCHANGED <<disk, keys, starts, root, revoked, torn, cut>>
      /\ mem["label.crt"].key \in Nat /\ mem["revoked.json"].serials \in SUBSET Nat
      /\ keys \in Nat
  BY FileNamesAre DEF KeyStoreType, Contents, PlansUnderWay, Up
<1>2. /\ \A f \in FileName : f # "revoked.json" => mem'[f] = mem[f]
      /\ mem'["revoked.json"] = List(mem["revoked.json"].serials \union {mem["label.crt"].key})
  BY FileNamesAre DEF KeyStoreType
<1>3. /\ mem'["revoked.json"] \in Contents
      /\ mem'["revoked.json"].st = "ok" /\ mem'["revoked.json"].key = 0
      /\ mem["revoked.json"].serials \subseteq mem'["revoked.json"].serials
  <2>1. mem["revoked.json"].serials \union {mem["label.crt"].key} \in SUBSET Nat
    BY <1>1
  <2>2. QED
    BY <2>1, <1>2, ContentsAre
<1>4. mem' \in [FileName -> Contents]
  BY <1>2, <1>3, FileNamesAre DEF KeyStoreType
<1>5. /\ todo' = Revocation(mem'["revoked.json"])
      /\ IsPlan(todo') /\ todo' \in Seq(Tasks) /\ Len(todo') = 1
  BY <1>3, RevocationIsPlan DEF Revocation, IsPlan
<1>6. KeyStoreType'
  <2>1. KeyStoreType
    OBVIOUS
  <2> HIDE DEF KeyStoreInv, Revoke
  <2>2. mode' \in Modes
    BY <1>1 DEF Modes
  <2>3. todo' \in Seq(Tasks)
    BY <1>5
  <2>4. starts' = starts
    BY DEF Revoke
  <2>5. QED
    BY <1>1, <1>4, <2>1, <2>2, <2>3, <2>4 DEF KeyStoreType
<1>7. PlansUnderWay'
  <2>1. Written(Revocation(mem["revoked.json"]), 0)'
    BY <1>5 DEF Written
  <2>2. UnderWay(Revocation(mem["revoked.json"]))'
    BY <2>1, <1>5, 0 \in 0 .. 1 DEF UnderWay
  <2>3. QED
    BY <2>2, <1>1, <1>5 DEF PlansUnderWay, IsPlan
<1>8. NothingBefore'
  BY <1>1 DEF NothingBefore, Up
<1>9. DiskFits'
  BY <1>1 DEF DiskFits, CoreFits, LabelFits, Loadable, Readable
<1>10. MemFits' /\ ListHolds'
  <2>1. MemFits /\ ListHolds
    OBVIOUS
  <2>2. \A f \in FileName \ {"revoked.json"} : mem'[f] = mem[f]
    BY <1>2
  <2> HIDE DEF KeyStoreInv, Revoke
  <2>3. MemFits'
    BY <2>1, <2>2, <1>1, <1>3, FileNamesAre DEF MemFits, CoreFits, LabelFits
  <2>4. ListHolds'
    BY <2>1, <1>1, <1>3 DEF ListHolds
  <2>5. QED
    BY <2>3, <2>4
<1>11. KeysCount'
  <2>1. KeysCount
    OBVIOUS
  <2> HIDE DEF KeyStoreInv, Revoke
  <2>2. \A f \in FileName : disk'[f].key <= keys' /\ mem'[f].key <= keys'
    BY <2>1, <1>1, <1>2, <1>3 DEF KeysCount
  <2>3. QED
    BY <2>2, <1>1 DEF KeysCount
<1>12. CutIsKnown'
  BY <1>1 DEF CutIsKnown
<1>13. QED
  BY <1>6, <1>7, <1>8, <1>9, <1>10, <1>11, <1>12

\* Where the next file of an operation stands in its plan.
LEMMA WhatIsNext ==
  ASSUME KeyStoreInv, todo # << >>
  PROVE  /\ mode \in {"generating", "rotating", "revoking"}
         /\ mode = "generating" =>
               /\ keys >= 3 /\ keys - 2 \in Nat /\ root = 0
               /\ \E n \in 0 .. 6 :
                     /\ Written(Generated(keys - 2), n)
                     /\ Len(todo) = 7 - n
                     /\ \A i \in 1 .. (7 - n) : todo[i].file = FileNames[n + i]
                     /\ todo[1].content = Generated(keys - 2)[n + 1].content
         /\ mode = "rotating" =>
               /\ mem["ca.key"].key \in Nat
               /\ \E n \in 0 .. 1 :
                     /\ Written(Rotation(keys, mem["ca.key"].key), n)
                     /\ Len(todo) = 2 - n
                     /\ todo[1].file = IF n = 0 THEN "label.key" ELSE "label.crt"
         /\ mode = "revoking" =>
               /\ mem["revoked.json"] \in Contents /\ mem["revoked.json"].st = "ok"
               /\ Written(Revocation(mem["revoked.json"]), 0)
               /\ Len(todo) = 1 /\ todo[1].file = "revoked.json"
               /\ todo[1].content = mem["revoked.json"]
         /\ mode # "generating" => root # 0 /\ Up
<1>0. /\ KeyStoreType /\ PlansUnderWay /\ NothingBefore /\ MemFits
      /\ keys \in Nat /\ Len(todo) \in Nat /\ Len(todo) > 0
  BY NextTask DEF KeyStoreInv, KeyStoreType
<1>1. mode \in {"generating", "rotating", "revoking"}
  BY <1>0 DEF KeyStoreType, Modes, PlansUnderWay
<1>2. CASE mode = "generating"
  <2>1. keys - 2 \in Nat /\ keys >= 3 /\ root = 0
    BY <1>0, <1>2 DEF PlansUnderWay, NothingBefore
  <2> DEFINE plan == Generated(keys - 2)
  <2>2. /\ Len(plan) = 7 /\ \A i \in 1 .. 7 : plan[i].file = FileNames[i]
    BY <2>1, GeneratedIsPlan
  <2>3. PICK n \in 0 .. Len(plan) : Written(plan, n)
    BY <1>0, <1>2 DEF PlansUnderWay, UnderWay
  <2> HIDE DEF plan
  <2>4. Len(todo) = 7 - n /\ n \in 0 .. 6
    BY <2>2, <2>3, <1>0 DEF Written
  <2>5. \A i \in 1 .. (7 - n) : todo[i] = plan[n + i] /\ n + i \in 1 .. 7
    BY <2>3, <2>4 DEF Written
  <2>6. \A i \in 1 .. (7 - n) : todo[i].file = FileNames[n + i]
    BY <2>2, <2>5
  <2>7. todo[1].content = plan[n + 1].content
    BY <2>4, <2>5
  <2>8. QED
    BY <1>2, <2>1, <2>3, <2>4, <2>6, <2>7 DEF plan
<1>3. CASE mode = "rotating"
  <2>1. mem["ca.key"].key \in Nat
    BY <1>0, FileNamesAre DEF KeyStoreType, Contents
  <2> DEFINE plan == Rotation(keys, mem["ca.key"].key)
  <2>2. Len(plan) = 2 /\ plan[1].file = "label.key" /\ plan[2].file = "label.crt"
    BY <2>1, <1>0, RotationIsPlan
  <2>3. PICK n \in 0 .. Len(plan) : Written(plan, n)
    BY <1>0, <1>3 DEF PlansUnderWay, UnderWay
  <2> HIDE DEF plan
  <2>4. Len(todo) = 2 - n /\ n \in 0 .. 1
    BY <2>2, <2>3, <1>0 DEF Written
  <2>5. todo[1] = plan[n + 1]
    BY <2>3, <2>4 DEF Written
  <2>6. todo[1].file = IF n = 0 THEN "label.key" ELSE "label.crt"
    BY <2>2, <2>4, <2>5
  <2>7. root # 0 /\ Up
    BY <1>0, <1>3 DEF NothingBefore, Up
  <2>8. QED
    BY <1>3, <2>1, <2>3, <2>4, <2>6, <2>7 DEF plan
<1>4. CASE mode = "revoking"
  <2>1. Up /\ root # 0 /\ mem["revoked.json"] \in Contents /\ mem["revoked.json"].st = "ok"
    BY <1>0, <1>4, FileNamesAre DEF NothingBefore, MemFits, Up, KeyStoreType
  <2> DEFINE plan == Revocation(mem["revoked.json"])
  <2>2. Len(plan) = 1 /\ plan[1].file = "revoked.json" /\ plan[1].content = mem["revoked.json"]
    BY <2>1, RevocationIsPlan
  <2>3. PICK n \in 0 .. Len(plan) : Written(plan, n)
    BY <1>0, <1>4 DEF PlansUnderWay, UnderWay
  <2> HIDE DEF plan
  <2>4. n = 0 /\ Len(todo) = 1
    BY <2>2, <2>3, <1>0 DEF Written
  <2>5. todo[1] = plan[1]
    BY <2>3, <2>4 DEF Written
  <2>6. QED
    BY <1>4, <2>1, <2>2, <2>3, <2>4, <2>5 DEF plan
<1>5. QED
  BY <1>1, <1>2, <1>3, <1>4

\* What is still to be generated, by the place of the next file.
LEMMA NotGenerated ==
  ASSUME KeyStoreInv, mode = "generating", todo # << >>,
         NEW n \in 0 .. 6, Len(todo) = 7 - n,
         \A i \in 1 .. (7 - n) : todo[i].file = FileNames[n + i]
  PROVE  \A j \in 2 .. 7 : j > n => /\ disk[FileNames[j]].st # "ok"
                                    /\ j > n + 1 => disk[FileNames[j]] = Absent
<1>1. SUFFICES ASSUME NEW j \in 2 .. 7, j > n
               PROVE  /\ disk[FileNames[j]].st # "ok"
                      /\ j > n + 1 => disk[FileNames[j]] = Absent
  OBVIOUS
<1>2. PICK i \in 1 .. (7 - n) : n + i = j /\ i = j - n
  BY <1>1
<1>3. todo[i].file = FileNames[j] /\ i \in DOMAIN todo /\ (j > n + 1 => i > 1)
  BY <1>2, NextTask DEF KeyStoreInv
<1>4. FileNames[j] # "ca.key"
  BY FileNamesAre DEF FileNames
<1>5. QED
  BY <1>3, <1>4 DEF KeyStoreInv, NothingBefore

\* What the next file may be, and what is written to it.
LEMMA NextFits ==
  ASSUME KeyStoreInv, todo # << >>
  PROVE  /\ disk["ca.crt"].st = "absent" => todo[1].file \in {"ca.key", "ca.crt"}
         /\ root # 0 => todo[1].file \in {"label.key", "label.crt", "revoked.json"}
         /\ todo[1].content.st = "ok"
         /\ todo[1].content.key <= keys
         /\ todo[1].file = "ca.crt" => todo[1].content.key # 0
         /\ todo[1].file = "revoked.json" => revoked \subseteq todo[1].content.serials
         /\ \A i \in DOMAIN todo : i # 1 => todo[i].file # todo[1].file
<1>0. /\ KeyStoreType /\ PlansUnderWay /\ NothingBefore /\ ListHolds /\ KeysCount
      /\ keys \in Nat /\ Len(todo) \in Nat /\ Len(todo) > 0 /\ DOMAIN todo = 1 .. Len(todo)
  BY NextTask DEF KeyStoreInv, KeyStoreType
<1>1. todo[1].content.st = "ok"
  BY <1>0 DEF PlansUnderWay
<1>2. CASE mode = "generating"
  <2> DEFINE plan == Generated(keys - 2)
  <2>1. /\ keys - 2 \in Nat /\ keys >= 3 /\ root = 0 /\ revoked = {}
        /\ \E n \in 0 .. 6 :
              /\ Written(plan, n)
              /\ Len(todo) = 7 - n
              /\ \A i \in 1 .. (7 - n) : todo[i].file = FileNames[n + i]
              /\ todo[1].content = plan[n + 1].content
    BY <1>0, <1>2, WhatIsNext DEF NothingBefore
  <2>2. PICK n \in 0 .. 6 :
              /\ Written(plan, n)
              /\ Len(todo) = 7 - n
              /\ \A i \in 1 .. (7 - n) : todo[i].file = FileNames[n + i]
              /\ todo[1].content = plan[n + 1].content
    BY <2>1
  <2>3. /\ \A i \in 1 .. 7 : plan[i].file = FileNames[i] /\ plan[i].content.key <= keys
        /\ \A i \in 1 .. 7 : plan[i].content.st = "ok"
        /\ plan[2].content = Cert(keys - 2, keys - 2)
    <3>1. (keys - 2) + 2 = keys
      BY <1>0
    <3>2. /\ \A i \in 1 .. 7 : plan[i].file = FileNames[i]
          /\ \A i \in 1 .. 7 : plan[i].content.key <= (keys - 2) + 2
          /\ IsPlan(plan) /\ DOMAIN plan = 1 .. 7
      BY <2>1, GeneratedIsPlan
    <3>3. plan[2].content = Cert(keys - 2, keys - 2)
      BY DEF Generated
    <3> HIDE DEF plan
    <3>4. QED
      BY <3>1, <3>2, <3>3 DEF IsPlan
  <2> HIDE DEF plan
  <2>4. todo[1].file = FileNames[n + 1] /\ n + 1 \in 1 .. 7
    BY <2>2
  <2>5. disk["ca.crt"].st = "absent" => n \in 0 .. 1
    <3>1. n >= 2 => disk[plan[2].file] = plan[2].content
      BY <2>2 DEF Written
    <3>2. plan[2].file = "ca.crt" /\ plan[2].content.st = "ok"
      BY <2>3 DEF FileNames
    <3>3. QED
      BY <3>1, <3>2
  <2>6. disk["ca.crt"].st = "absent" => todo[1].file \in {"ca.key", "ca.crt"}
    BY <2>4, <2>5 DEF FileNames
  <2>7. todo[1].file = "ca.crt" => todo[1].content.key # 0
    <3>1. todo[1].file = "ca.crt" => n = 1
      BY <2>4, FileNamesAre DEF FileNames
    <3>2. Cert(keys - 2, keys - 2).key = keys - 2
      BY <2>1, ContentsAre
    <3>3. n = 1 => todo[1].content = Cert(keys - 2, keys - 2)
      BY <2>2, <2>3
    <3>4. keys - 2 # 0
      BY <2>1, <1>0
    <3>5. QED
      BY <3>1, <3>2, <3>3, <3>4
  <2>8. \A i \in DOMAIN todo : i # 1 => todo[i].file # todo[1].file
    <3>1. SUFFICES ASSUME NEW i \in DOMAIN todo, i # 1
                   PROVE  todo[i].file # todo[1].file
      OBVIOUS
    <3>2. i \in 1 .. (7 - n)
      BY <2>2, <1>0
    <3>3. todo[i].file = FileNames[n + i]
      BY <3>2, <2>2
    <3>4. n + i \in 1 .. 7 /\ n + i # n + 1
      BY <3>1, <3>2
    <3>5. QED
      BY <3>3, <3>4, <2>4, FileNamesAre
  <2>9. QED
    BY <1>1, <2>1, <2>2, <2>3, <2>4, <2>6, <2>7, <2>8
<1>3. CASE mode = "rotating"
  <2> DEFINE plan == Rotation(keys, mem["ca.key"].key)
  <2>1. /\ mem["ca.key"].key \in Nat /\ root # 0
        /\ \E n \in 0 .. 1 :
              /\ Written(plan, n)
              /\ Len(todo) = 2 - n
              /\ todo[1].file = IF n = 0 THEN "label.key" ELSE "label.crt"
    BY <1>0, <1>3, WhatIsNext
  <2>2. PICK n \in 0 .. 1 :
              /\ Written(plan, n)
              /\ Len(todo) = 2 - n
              /\ todo[1].file = IF n = 0 THEN "label.key" ELSE "label.crt"
    BY <2>1
  <2>3. /\ plan[2].file = "label.crt"
        /\ plan[1].content.key = keys /\ plan[2].content.key = keys
    BY <2>1, <1>0, RotationIsPlan, ContentsAre
  <2> HIDE DEF plan
  <2>4. todo[1] = plan[n + 1] /\ (n = 0 => todo[2] = plan[2])
    BY <2>2 DEF Written
  <2>5. todo[1].content.key = keys
    BY <2>3, <2>4
  <2>6. \A i \in DOMAIN todo : i # 1 => todo[i].file # todo[1].file
    BY <2>2, <2>3, <2>4, <1>0
  <2>7. disk["ca.crt"].st # "absent"
    BY <1>0, <2>1 DEF NothingBefore
  <2>8. QED
    BY <1>0, <1>1, <2>1, <2>2, <2>5, <2>6, <2>7
<1>4. CASE mode = "revoking"
  <2>1. /\ Len(todo) = 1 /\ todo[1].file = "revoked.json" /\ root # 0 /\ Up
        /\ todo[1].content = mem["revoked.json"]
    BY <1>0, <1>4, WhatIsNext
  <2>2. revoked \subseteq todo[1].content.serials /\ todo[1].content.key <= keys
    BY <1>0, <2>1, FileNamesAre DEF ListHolds, KeysCount
  <2>3. disk["ca.crt"].st # "absent"
    BY <1>0, <2>1 DEF NothingBefore
  <2>4. QED
    BY <1>0, <1>1, <2>1, <2>2, <2>3
<1>5. QED
  BY <1>2, <1>3, <1>4, WhatIsNext

\* The next file is emptied.
LEMMA TruncateKeeps ==
  ASSUME KeyStoreInv, Truncate
  PROVE  KeyStoreInv'
<1>0. /\ KeyStoreType /\ PlansUnderWay /\ NothingBefore /\ DiskFits /\ MemFits
      /\ ListHolds /\ KeysCount /\ CutIsKnown /\ todo # << >>
  BY DEF KeyStoreInv, Truncate
<1>1. UNCHANGED <<mode, todo, mem, keys, starts, root, revoked, torn, cut>>
  BY DEF Truncate
<1>2. /\ disk' \in [FileName -> Contents] /\ todo[1].file \in FileName
      /\ disk'[todo[1].file] = Cut /\ Cut.st = "cut" /\ Cut.key = 0
      /\ \A f \in FileName : f # todo[1].file => disk'[f] = disk[f]
  BY <1>0, DiskChanges, NextTask, ContentsAre DEF Truncate
<1>3. KeyStoreType'
  BY <1>0, <1>1, <1>2 DEF KeyStoreType
<1>4. PlansUnderWay'
  BY <1>0, <1>1, PlansGoOn, WhatIsNext DEF PlansUnderWay
<1>5. NothingBefore'
  <2>1. ASSUME disk'["ca.crt"].st = "absent"
        PROVE  /\ root' = 0
               /\ mode' \in {"down", "generating", "failed"}
               /\ \A f \in FileName \ {"ca.key"} : disk'[f] = Absent
    <3>1. disk["ca.crt"].st = "absent" /\ todo[1].file = "ca.key"
      BY <2>1, <1>0, <1>2, FileNamesAre, NextFits
    <3>2. QED
      BY <3>1, <1>0, <1>1, <1>2 DEF NothingBefore
  <2>2. ASSUME mode' = "generating"
        PROVE  /\ root' = 0
               /\ \A i \in DOMAIN todo' :
                     todo'[i].file # "ca.key" =>
                         /\ disk'[todo'[i].file].st # "ok"
                         /\ i > 1 => disk'[todo'[i].file] = Absent
    <3>1. ASSUME NEW i \in DOMAIN todo, todo[i].file # "ca.key"
          PROVE  /\ disk'[todo[i].file].st # "ok"
                 /\ i > 1 => disk'[todo[i].file] = Absent
      <4>1. CASE i = 1
        BY <4>1, <1>2
      <4>2. CASE i # 1
        <5>1. todo[i].file # todo[1].file /\ todo[i].file \in FileName
          BY <4>2, <1>0, NextFits, TasksOfFiles
        <5>2. QED
          BY <5>1, <3>1, <2>2, <1>0, <1>1, <1>2 DEF NothingBefore
      <4>3. QED
        BY <4>1, <4>2
    <3>2. QED
      BY <3>1, <2>2, <1>0, <1>1 DEF NothingBefore
  <2>3. disk'["ca.crt"].st = "ok" => disk'["ca.crt"].key # 0
    BY <1>0, <1>2, FileNamesAre DEF NothingBefore
  <2>4. QED
    BY <2>1, <2>2, <2>3, <1>0, <1>1 DEF NothingBefore, Up
<1>6. DiskFits'
  <2>1. ASSUME root' # 0
        PROVE  disk'["ca.crt"].st = "ok" /\ CoreFits(disk)'
    <3>1. /\ disk'["ca.key"] = disk["ca.key"] /\ disk'["ca.crt"] = disk["ca.crt"]
          /\ disk'["checkpoint.key"] = disk["checkpoint.key"]
          /\ disk'["checkpoint.crt"] = disk["checkpoint.crt"]
      BY <2>1, <1>0, <1>1, <1>2, FileNamesAre, NextFits
    <3>2. QED
      BY <3>1, <2>1, <1>0, <1>1 DEF DiskFits, CoreFits
  <2>2. mode' # "generating" => root' # 0
    BY <1>0, <1>1, WhatIsNext
  <2>3. ASSUME mode' # "generating", disk'["label.key"].st = "ok", disk'["label.crt"].st = "ok"
        PROVE  torn' \/ (mode' = "rotating" /\ Len(todo') < 2) \/ LabelFits(disk)'
    <3>1. disk'["label.key"] = disk["label.key"] /\ disk'["label.crt"] = disk["label.crt"]
      BY <2>3, <1>2, FileNamesAre
    <3>2. disk'["ca.crt"] = disk["ca.crt"]
      BY <2>2, <2>3, <1>0, <1>1, <1>2, FileNamesAre, NextFits
    <3>3. QED
      BY <3>1, <3>2, <2>3, <1>0, <1>1 DEF DiskFits, LabelFits
  <2>4. QED
    BY <2>1, <2>2, <2>3 DEF DiskFits
<1>7. MemFits'
  BY <1>0, <1>1 DEF MemFits, CoreFits, LabelFits, Up
<1>8. ListHolds'
  BY <1>0, <1>1, <1>2, FileNamesAre DEF ListHolds, Up
<1>9. KeysCount'
  <2>1. keys \in Nat
    BY <1>0 DEF KeyStoreType
  <2>2. \A f \in FileName : disk'[f].key <= keys
    BY <2>1, <1>0, <1>2 DEF KeysCount
  <2>3. QED
    BY <2>2, <1>0, <1>1 DEF KeysCount
<1>10. CutIsKnown'
  <2>1. mode # "down" /\ 1 \in DOMAIN todo
    BY <1>0, WhatIsNext, NextTask
  <2>2. QED
    BY <2>1, <1>0, <1>1, <1>2 DEF CutIsKnown
<1>11. QED
  BY <1>3, <1>4, <1>5, <1>6, <1>7, <1>8, <1>9, <1>10 DEF KeyStoreInv

\* The next file is written.
LEMMA WriteKeeps ==
  ASSUME KeyStoreInv, Write
  PROVE  KeyStoreInv'
<1>0. /\ KeyStoreType /\ PlansUnderWay /\ NothingBefore /\ DiskFits /\ MemFits
      /\ ListHolds /\ KeysCount /\ CutIsKnown /\ todo # << >>
  BY DEF KeyStoreInv, Write
<1>1. /\ UNCHANGED <<mode, mem, keys, starts, root, revoked, torn, cut>>
      /\ Len(todo) \in Nat /\ Len(todo) > 0 /\ DOMAIN todo = 1 .. Len(todo)
      /\ todo' \in Seq(Tasks) /\ Len(todo') = Len(todo) - 1
      /\ DOMAIN todo' = 1 .. (Len(todo) - 1)
      /\ \A i \in 1 .. (Len(todo) - 1) : todo'[i] = todo[i + 1]
  BY <1>0, NextTask DEF Write
<1>2. /\ disk' \in [FileName -> Contents] /\ todo[1].file \in FileName
      /\ disk'[todo[1].file] = todo[1].content
      /\ \A f \in FileName : f # todo[1].file => disk'[f] = disk[f]
  BY <1>0, DiskChanges, NextTask DEF Write
<1>3. KeyStoreType'
  BY <1>0, <1>1, <1>2 DEF KeyStoreType
<1>4. PlansUnderWay'
  <2>1. \A i \in DOMAIN todo' : todo'[i].content.st = "ok"
    <3>1. SUFFICES ASSUME NEW i \in 1 .. (Len(todo) - 1)
                   PROVE  todo'[i].content.st = "ok"
      BY <1>1
    <3>2. i + 1 \in DOMAIN todo /\ todo'[i] = todo[i + 1]
      BY <1>1
    <3>3. QED
      BY <3>2, <1>0 DEF PlansUnderWay
  <2>2. mode' \notin {"down", "loading", "failed", "up"}
    BY <1>0, <1>1, WhatIsNext
  <2>3. QED
    BY <2>1, <2>2, <1>0, <1>1, PlansGoOn DEF PlansUnderWay
<1>5. NothingBefore'
  <2>1. ASSUME disk'["ca.crt"].st = "absent"
        PROVE  /\ root' = 0
               /\ mode' \in {"down", "generating", "failed"}
               /\ \A f \in FileName \ {"ca.key"} : disk'[f] = Absent
    <3>1. disk["ca.crt"].st = "absent" /\ todo[1].file = "ca.key"
      BY <2>1, <1>0, <1>2, FileNamesAre, NextFits
    <3>2. QED
      BY <3>1, <1>0, <1>1, <1>2 DEF NothingBefore
  <2>2. ASSUME mode' = "generating"
        PROVE  /\ root' = 0
               /\ \A i \in DOMAIN todo' :
                     todo'[i].file # "ca.key" =>
                         /\ disk'[todo'[i].file].st # "ok"
                         /\ i > 1 => disk'[todo'[i].file] = Absent
    <3>1. ASSUME NEW i \in 1 .. (Len(todo) - 1), todo[i + 1].file # "ca.key"
          PROVE  disk'[todo[i + 1].file] = Absent
      <4>1. i + 1 \in DOMAIN todo /\ i + 1 > 1 /\ i + 1 # 1
        BY <1>1
      <4>2. todo[i + 1].file # todo[1].file
        BY <4>1, <1>0, NextFits
      <4>3. todo[i + 1].file \in FileName
        BY <4>1, <1>0, TasksOfFiles
      <4>4. QED
        BY <4>1, <4>2, <4>3, <3>1, <2>2, <1>0, <1>1, <1>2 DEF NothingBefore
    <3>2. QED
      BY <3>1, <2>2, <1>0, <1>1, ContentsAre DEF NothingBefore
  <2>3. disk'["ca.crt"].st = "ok" => disk'["ca.crt"].key # 0
    BY <1>0, <1>2, FileNamesAre, NextFits DEF NothingBefore
  <2>4. QED
    BY <2>1, <2>2, <2>3, <1>0, <1>1 DEF NothingBefore, Up
<1>6. DiskFits'
  <2>1. ASSUME root' # 0
        PROVE  disk'["ca.crt"].st = "ok" /\ CoreFits(disk)'
    <3>1. /\ disk'["ca.key"] = disk["ca.key"] /\ disk'["ca.crt"] = disk["ca.crt"]
          /\ disk'["checkpoint.key"] = disk["checkpoint.key"]
          /\ disk'["checkpoint.crt"] = disk["checkpoint.crt"]
      BY <2>1, <1>0, <1>1, <1>2, FileNamesAre, NextFits
    <3>2. QED
      BY <3>1, <2>1, <1>0, <1>1 DEF DiskFits, CoreFits
  <2>2. mode' # "generating" => root' # 0
    BY <1>0, <1>1, WhatIsNext
  <2>3. ASSUME mode' # "generating", disk'["label.key"].st = "ok", disk'["label.crt"].st = "ok"
        PROVE  torn' \/ (mode' = "rotating" /\ Len(todo') < 2) \/ LabelFits(disk)'
    <3>1. CASE mode = "rotating"
      <4>1. PICK n \in 0 .. 1 : Len(todo) = 2 - n
        BY <3>1, <1>0, WhatIsNext
      <4>2. QED
        BY <4>1, <3>1, <1>1
    <3>2. CASE mode = "revoking"
      <4>1. todo[1].file = "revoked.json"
        BY <3>2, <1>0, WhatIsNext
      <4>2. /\ disk'["label.key"] = disk["label.key"] /\ disk'["label.crt"] = disk["label.crt"]
            /\ disk'["ca.crt"] = disk["ca.crt"]
        BY <4>1, <1>2, FileNamesAre
      <4>3. QED
        BY <4>2, <3>2, <2>3, <1>0, <1>1 DEF DiskFits, LabelFits
    <3>3. QED
      BY <3>1, <3>2, <2>3, <1>0, <1>1, WhatIsNext
  <2>4. QED
    BY <2>1, <2>2, <2>3 DEF DiskFits
<1>7. MemFits'
  BY <1>0, <1>1 DEF MemFits, CoreFits, LabelFits, Up
<1>8. ListHolds'
  <2>1. CASE todo[1].file = "revoked.json"
    BY <2>1, <1>0, <1>1, <1>2, NextFits DEF ListHolds, Up
  <2>2. CASE todo[1].file # "revoked.json"
    BY <2>2, <1>0, <1>1, <1>2, FileNamesAre DEF ListHolds, Up
  <2>3. QED
    BY <2>1, <2>2
<1>9. KeysCount'
  <2>1. \A f \in FileName : disk'[f].key <= keys
    BY <1>0, <1>2, NextFits DEF KeysCount
  <2>2. QED
    BY <2>1, <1>0, <1>1 DEF KeysCount
<1>10. CutIsKnown'
  <2>1. mode # "down"
    BY <1>0, WhatIsNext
  <2>2. ASSUME NEW f \in FileName, f # todo[1].file,
               NEW i \in DOMAIN todo, todo[i].file = f
        PROVE  \E j \in DOMAIN todo' : todo'[j].file = f
    <3>1. i \in 1 .. Len(todo) /\ i # 1
      BY <2>2, <1>1
    <3>2. i - 1 \in 1 .. (Len(todo) - 1) /\ (i - 1) + 1 = i
      BY <3>1, <1>1
    <3>3. todo'[i - 1] = todo[i]
      BY <3>2, <1>1
    <3>4. QED
      BY <3>2, <3>3, <2>2, <1>1
  <2>3. disk'[todo[1].file].st = "ok"
    BY <1>0, <1>2, NextFits
  <2>4. QED
    BY <2>1, <2>2, <2>3, <1>0, <1>1, <1>2 DEF CutIsKnown
<1>11. QED
  BY <1>3, <1>4, <1>5, <1>6, <1>7, <1>8, <1>9, <1>10 DEF KeyStoreInv

\* What generate has written fits, whenever it can be read.
LEMMA GeneratedFits ==
  ASSUME KeyStoreInv, mode = "generating"
  PROVE  /\ Loadable => CoreFits(disk)
         /\ disk["label.key"].st = "ok" /\ disk["label.crt"].st = "ok" => LabelFits(disk)
         /\ todo = << >> => /\ CoreFits(disk) /\ LabelFits(disk)
                            /\ disk["ca.crt"].st = "ok"
<1>0. /\ KeyStoreType /\ PlansUnderWay /\ NothingBefore /\ root = 0
      /\ keys \in Nat /\ keys >= 3
      /\ UnderWay(Generated(keys - 2))
  BY DEF KeyStoreInv, KeyStoreType, PlansUnderWay, NothingBefore
<1>1. PICK k \in Nat : k = keys - 2
  BY <1>0
<1>2. PICK n \in 0 .. 7 : Written(Generated(k), n)
  BY <1>0, <1>1, GeneratedIsPlan DEF UnderWay
<1>3. /\ Len(todo) = 7 - n
      /\ \A i \in 1 .. (7 - n) : todo[i] = Generated(k)[n + i] /\ n + i \in 1 .. 7
      /\ \A i \in 1 .. n : disk[Generated(k)[i].file] = Generated(k)[i].content
  <2>1. Len(Generated(k)) = 7
    BY GeneratedIsPlan
  <2>2. Len(todo) = 7 - n
    BY <1>2, <2>1 DEF Written
  <2>3. \A i \in 1 .. (7 - n) : n + i \in 1 .. 7
    OBVIOUS
  <2>4. QED
    BY <1>2, <2>2, <2>3 DEF Written
<1>4. \A i \in 1 .. (7 - n) : todo[i].file = FileNames[n + i]
  BY <1>3, GeneratedIsPlan
<1>5. /\ n >= 1 => disk["ca.key"] = Key(k)
      /\ n >= 2 => disk["ca.crt"] = Cert(k, k)
      /\ n >= 3 => disk["label.key"] = Key(k + 1)
      /\ n >= 4 => disk["label.crt"] = Cert(k + 1, k)
      /\ n >= 5 => disk["checkpoint.key"] = Key(k + 2)
      /\ n >= 6 => disk["checkpoint.crt"] = Cert(k + 2, k)
  BY <1>3 DEF Generated
<1>6. /\ Key(k).key = k /\ Cert(k, k).key = k /\ Cert(k, k).st = "ok"
      /\ Key(k + 1).key = k + 1 /\ Cert(k + 1, k).key = k + 1 /\ Cert(k + 1, k).ca = k
      /\ Key(k + 2).key = k + 2 /\ Cert(k + 2, k).key = k + 2 /\ Cert(k + 2, k).ca = k
  BY ContentsAre
<1>7. n >= 6 => CoreFits(disk)
  BY <1>0, <1>5, <1>6 DEF CoreFits
<1>8. n >= 4 => LabelFits(disk)
  BY <1>5, <1>6 DEF LabelFits
<1>9. todo # << >> => n \in 0 .. 6
  BY <1>0, <1>3, NextTask
<1>10. Loadable => n >= 6
  <2>1. ASSUME n <= 5
        PROVE  disk[FileNames[6]].st # "ok"
    <3>1. todo # << >> /\ n \in 0 .. 6 /\ 6 \in 2 .. 7 /\ 6 > n /\ Len(todo) = 7 - n
      BY <2>1, <1>3
    <3>2. QED
      BY <3>1, <1>4, NotGenerated
  <2>2. FileNames[6] = "checkpoint.crt"
    BY DEF FileNames
  <2>3. Loadable => disk["checkpoint.crt"].st = "ok"
    BY FileNamesAre DEF Loadable, Readable
  <2>4. QED
    BY <2>1, <2>2, <2>3
<1>11. disk["label.crt"].st = "ok" => n >= 4
  <2>1. ASSUME n <= 3
        PROVE  disk[FileNames[4]].st # "ok"
    <3>1. todo # << >> /\ n \in 0 .. 6 /\ 4 \in 2 .. 7 /\ 4 > n /\ Len(todo) = 7 - n
      BY <2>1, <1>3
    <3>2. QED
      BY <3>1, <1>4, NotGenerated
  <2>2. FileNames[4] = "label.crt"
    BY DEF FileNames
  <2>3. QED
    BY <2>1, <2>2
<1>12. todo = << >> => n = 7
  BY <1>3
<1>13. QED
  BY <1>5, <1>6, <1>7, <1>8, <1>10, <1>11, <1>12

\* What a rotation and a revocation have written.
LEMMA RotatedFits ==
  ASSUME KeyStoreInv, mode = "rotating"
  PROVE  /\ Len(todo) \in 0 .. 2
         /\ Len(todo) < 2 => disk["label.key"] = Key(keys)
         /\ Len(todo) = 0 => disk["label.crt"] = Cert(keys, mem["ca.key"].key)
<1>1. /\ keys \in Nat /\ mem["ca.key"].key \in Nat
      /\ UnderWay(Rotation(keys, mem["ca.key"].key))
  BY FileNamesAre DEF KeyStoreInv, PlansUnderWay, KeyStoreType, Contents
<1>2. PICK k \in Nat, ca \in Nat : k = keys /\ ca = mem["ca.key"].key
  BY <1>1
<1>3. PICK n \in 0 .. 2 : Written(Rotation(k, ca), n)
  BY <1>1, <1>2, RotationIsPlan DEF UnderWay
<1>4. /\ Len(todo) = 2 - n
      /\ n >= 1 => disk["label.key"] = Key(k)
      /\ n >= 2 => disk["label.crt"] = Cert(k, ca)
  <2> DEFINE plan == Rotation(k, ca)
  <2>1. /\ Len(plan) = 2 /\ plan[1].file = "label.key" /\ plan[2].file = "label.crt"
        /\ plan[1].content = Key(k) /\ plan[2].content = Cert(k, ca)
    BY RotationIsPlan
  <2>2. Written(plan, n)
    BY <1>3
  <2> HIDE DEF plan
  <2>3. Len(todo) = 2 - n
    BY <2>1, <2>2 DEF Written
  <2>4. \A i \in 1 .. n : disk[plan[i].file] = plan[i].content
    BY <2>2 DEF Written
  <2>5. (n >= 1 => 1 \in 1 .. n) /\ (n >= 2 => 2 \in 1 .. n)
    OBVIOUS
  <2>6. QED
    BY <2>1, <2>3, <2>4, <2>5
<1>5. QED
  BY <1>2, <1>4

\* The list that a revocation writes is the one in memory.
LEMMA RevokedFits ==
  ASSUME KeyStoreInv, mode = "revoking", todo = << >>
  PROVE  disk["revoked.json"] = mem["revoked.json"]
<1>1. /\ mem["revoked.json"] \in Contents /\ mem["revoked.json"].st = "ok"
      /\ UnderWay(Revocation(mem["revoked.json"]))
  BY FileNamesAre DEF KeyStoreInv, PlansUnderWay, KeyStoreType, MemFits, Up
<1>2. PICK list \in Contents : list = mem["revoked.json"] /\ list.st = "ok"
  BY <1>1
<1>3. PICK n \in 0 .. 1 : Written(Revocation(list), n)
  BY <1>1, <1>2, RevocationIsPlan DEF UnderWay
<1>4. n = 1
  BY <1>2, <1>3, RevocationIsPlan DEF Written
<1>5. QED
  BY <1>2, <1>3, <1>4, RevocationIsPlan DEF Written

\* An operation returns.
LEMMA FinishKeeps ==
  ASSUME KeyStoreInv, Finish
  PROVE  KeyStoreInv'
<1>0. /\ KeyStoreType /\ PlansUnderWay /\ NothingBefore /\ DiskFits /\ MemFits
      /\ ListHolds /\ KeysCount /\ CutIsKnown
      /\ todo = << >> /\ Len(todo) = 0 /\ DOMAIN todo = {}
      /\ UNCHANGED <<disk, todo, keys, starts, root, cut>>
  BY DEF KeyStoreInv, Finish
<1>1. mode' \in {"loading", "up"} /\ mode # "down"
  BY DEF Finish
<1>2. PlansUnderWay'
  BY <1>0, <1>1 DEF PlansUnderWay
<1>3. CutIsKnown'
  BY <1>0, <1>1 DEF CutIsKnown
<1>4. CASE mode = "generating"
  <2>1. mode' = "loading" /\ UNCHANGED <<mem, revoked, torn>> /\ root = 0
    BY <1>0, <1>4 DEF Finish, NothingBefore
  <2>2. CoreFits(disk) /\ LabelFits(disk) /\ disk["ca.crt"].st = "ok"
    BY <1>0, <1>4, GeneratedFits
  <2>3. KeyStoreType'
    BY <1>0, <2>1 DEF KeyStoreType, Modes
  <2>4. NothingBefore'
    BY <1>0, <2>1, <2>2 DEF NothingBefore, Up
  <2>5. DiskFits'
    BY <1>0, <2>1, <2>2 DEF DiskFits, CoreFits, LabelFits
  <2>6. MemFits' /\ ListHolds' /\ KeysCount'
    BY <1>0, <2>1 DEF MemFits, ListHolds, KeysCount, Up
  <2>7. QED
    BY <1>2, <1>3, <2>3, <2>4, <2>5, <2>6 DEF KeyStoreInv
<1>5. CASE mode = "rotating"
  <2>1. /\ mode' = "up" /\ torn' = FALSE /\ revoked' = revoked /\ Up /\ root # 0
        /\ mem' = [mem EXCEPT !["label.key"] = disk["label.key"],
                              !["label.crt"] = disk["label.crt"]]
    BY <1>0, <1>5 DEF Finish, NothingBefore, Up
  <2>2. /\ disk \in [FileName -> Contents] /\ mem \in [FileName -> Contents]
        /\ mem' \in [FileName -> Contents]
        /\ mem'["label.key"] = disk["label.key"] /\ mem'["label.crt"] = disk["label.crt"]
        /\ \A f \in FileName : f # "label.key" /\ f # "label.crt" => mem'[f] = mem[f]
        /\ \A f \in FileName : mem'[f] = mem[f] \/ mem'[f] = disk[f]
    BY <1>0, <2>1, FileNamesAre DEF KeyStoreType
  <2>3. /\ mem'["ca.key"] = mem["ca.key"] /\ mem'["ca.crt"] = mem["ca.crt"]
        /\ mem'["checkpoint.key"] = mem["checkpoint.key"]
        /\ mem'["checkpoint.crt"] = mem["checkpoint.crt"]
        /\ mem'["revoked.json"] = mem["revoked.json"]
    BY <2>2, FileNamesAre
  <2>4. /\ keys \in Nat /\ mem["ca.key"].key \in Nat
    BY <1>0, FileNamesAre DEF KeyStoreType, Contents
  <2>5. disk["label.key"] = Key(keys) /\ disk["label.crt"] = Cert(keys, mem["ca.key"].key)
    BY <1>0, <1>5, RotatedFits
  <2>6. /\ disk["label.key"].key = keys /\ disk["label.crt"].key = keys
        /\ disk["label.crt"].ca = mem["ca.key"].key
    BY <2>4, <2>5, ContentsAre
  <2>7. CoreFits(mem) /\ mem["ca.key"].key = root /\ mem["ca.crt"].key = root
    BY <1>0, <2>1 DEF MemFits, CoreFits
  <2>8. LabelFits(disk) /\ LabelFits(mem)'
    BY <1>0, <2>1, <2>2, <2>3, <2>6, <2>7 DEF DiskFits, CoreFits, LabelFits
  <2>9. KeyStoreType'
    BY <1>0, <2>1, <2>2 DEF KeyStoreType, Modes
  <2>10. NothingBefore'
    BY <1>0, <2>1 DEF NothingBefore, Up
  <2>11. DiskFits'
    BY <1>0, <2>1, <2>8 DEF DiskFits, CoreFits, LabelFits
  <2>12. MemFits'
    BY <1>0, <2>1, <2>3, <2>7, <2>8 DEF MemFits, CoreFits, Up
  <2>13. ListHolds'
    BY <1>0, <2>1, <2>3 DEF ListHolds, Up
  <2>14. KeysCount'
    BY <1>0, <2>1, <2>2 DEF KeysCount
  <2>15. QED
    BY <1>2, <1>3, <2>9, <2>10, <2>11, <2>12, <2>13, <2>14 DEF KeyStoreInv
<1>6. CASE mode = "revoking"
  <2>1. /\ mode' = "up" /\ revoked' = mem["revoked.json"].serials
        /\ UNCHANGED <<mem, torn>> /\ Up /\ root # 0
    BY <1>0, <1>6 DEF Finish, NothingBefore, Up
  <2>2. disk["revoked.json"] = mem["revoked.json"] /\ mem["revoked.json"].st = "ok"
    BY <1>0, <1>6, <2>1, RevokedFits DEF MemFits
  <2>3. mem["revoked.json"].serials \in SUBSET Nat
    BY <1>0, FileNamesAre DEF KeyStoreType, Contents
  <2>4. KeyStoreType'
    BY <1>0, <2>1, <2>3 DEF KeyStoreType, Modes
  <2>5. NothingBefore'
    BY <1>0, <2>1 DEF NothingBefore, Up
  <2>6. DiskFits'
    BY <1>0, <1>6, <2>1 DEF DiskFits, CoreFits, LabelFits, Loadable, Readable
  <2>7. MemFits'
    BY <1>0, <2>1 DEF MemFits, CoreFits, LabelFits, Up
  <2>8. ListHolds'
    BY <1>0, <2>1, <2>2 DEF ListHolds, Up
  <2>9. KeysCount'
    BY <1>0, <2>1 DEF KeysCount
  <2>10. QED
    BY <1>2, <1>3, <2>4, <2>5, <2>6, <2>7, <2>8, <2>9 DEF KeyStoreInv
<1>7. QED
  BY <1>4, <1>5, <1>6 DEF Finish

\* What a stop or a failed write leaves behind: the plan is forgotten, the files
\* are as they were.
LEMMA CutShortKeeps ==
  ASSUME KeyStoreInv, CutShort, UNCHANGED <<disk, mem, keys, starts, root, revoked>>,
         mode # "down", mode' \in {"down", "failed", "up"},
         mode' = "up" => Up
  PROVE  KeyStoreInv'
<1>0. /\ KeyStoreType /\ PlansUnderWay /\ NothingBefore /\ DiskFits /\ MemFits
      /\ ListHolds /\ KeysCount /\ CutIsKnown
      /\ todo' = << >> /\ DOMAIN todo' = {}
  BY DEF KeyStoreInv, CutShort
<1>1. /\ torn' = (torn \/ (/\ mode = "rotating" /\ todo # << >>
                          /\ disk["label.key"] # mem["label.key"]))
      /\ cut' = (cut \/ todo # << >>)
  BY DEF CutShort
<1>2. Up' => Up
  BY DEF Up
<1>3. KeyStoreType'
  <2>1. torn' \in BOOLEAN /\ cut' \in BOOLEAN
    BY <1>1
  <2>2. mode' \in Modes /\ todo' \in Seq(Tasks)
    BY <1>0 DEF Modes
  <2>3. QED
    BY <1>0, <2>1, <2>2 DEF KeyStoreType
<1>4. PlansUnderWay'
  BY <1>0 DEF PlansUnderWay
<1>5. NothingBefore'
  <2>1. mode = "rotating" => root # 0
    BY <1>0 DEF NothingBefore, Up
  <2>2. root' = 0 => revoked' = {} /\ ~torn'
    BY <1>0, <1>1, <2>1 DEF NothingBefore
  <2>3. disk'["ca.crt"].st = "absent" => mode' \in {"down", "generating", "failed"}
    BY <1>0 DEF NothingBefore, Up
  <2>4. QED
    BY <1>0, <1>2, <2>2, <2>3 DEF NothingBefore
<1>6. DiskFits'
  <2>1. root' # 0 => disk'["ca.crt"].st = "ok" /\ CoreFits(disk)'
    BY <1>0 DEF DiskFits, CoreFits
  <2>2. Loadable => CoreFits(disk)
    BY <1>0, GeneratedFits DEF DiskFits
  <2>3. Loadable' => CoreFits(disk)'
    BY <2>2 DEF Loadable, Readable, CoreFits
  <2>4. ASSUME disk["label.key"].st = "ok", disk["label.crt"].st = "ok"
        PROVE  torn' \/ LabelFits(disk)
    <3>1. CASE mode = "generating"
      BY <3>1, <2>4, <1>0, GeneratedFits
    <3>2. CASE mode = "rotating"
      <4>1. /\ keys \in Nat /\ mem["ca.key"].key \in Nat /\ mem["label.key"].key < keys
            /\ Len(todo) \in 0 .. 2
        BY <3>2, <1>0, RotatedFits, FileNamesAre DEF KeyStoreType, Contents, KeysCount
      <4>2. CASE Len(todo) = 0
        <5>1. disk["label.key"] = Key(keys) /\ disk["label.crt"] = Cert(keys, mem["ca.key"].key)
          BY <3>2, <4>1, <4>2, RotatedFits
        <5>2. /\ disk["label.key"].key = keys /\ disk["label.crt"].key = keys
              /\ disk["label.crt"].ca = mem["ca.key"].key
          BY <4>1, <5>1, ContentsAre
        <5>3. root # 0 /\ mem["ca.key"].key = root /\ disk["ca.crt"].key = root
          BY <3>2, <1>0 DEF NothingBefore, MemFits, DiskFits, CoreFits, Up
        <5>4. QED
          BY <5>2, <5>3 DEF LabelFits
      <4>3. CASE Len(todo) = 1
        <5>1. disk["label.key"] = Key(keys)
          BY <3>2, <4>3, RotatedFits
        <5>2. disk["label.key"].key = keys
          BY <4>1, <5>1, ContentsAre
        <5>3. disk["label.key"] # mem["label.key"]
          BY <4>1, <5>2
        <5>4. todo # << >>
          BY <4>3
        <5>5. QED
          BY <3>2, <5>3, <5>4, <1>1
      <4>4. CASE Len(todo) = 2
        <5>1. ~(Len(todo) < 2)
          BY <4>4
        <5>2. torn \/ LabelFits(disk)
          BY <3>2, <5>1, <2>4, <1>0, Zenon DEF DiskFits
        <5>3. torn => torn'
          BY <1>1, Zenon
        <5>4. QED
          BY <5>2, <5>3
      <4>5. QED
        BY <4>1, <4>2, <4>3, <4>4
    <3>3. CASE mode # "generating" /\ mode # "rotating"
      BY <3>3, <2>4, <1>0, <1>1 DEF DiskFits
    <3>4. QED
      BY <3>1, <3>2, <3>3
  <2>5. QED
    BY <2>1, <2>3, <2>4 DEF DiskFits, LabelFits
<1>7. MemFits'
  BY <1>0, <1>1, <1>2 DEF MemFits, CoreFits, LabelFits
<1>8. ListHolds'
  BY <1>0, <1>2 DEF ListHolds
<1>9. KeysCount'
  BY <1>0 DEF KeysCount
<1>10. CutIsKnown'
  <2>1. ASSUME ~cut'
        PROVE  \A f \in FileName : disk'[f].st = "ok"
    <3>1. ~cut /\ todo = << >>
      BY <2>1, <1>1, Zenon
    <3>2. DOMAIN todo = {}
      BY <3>1
    <3>3. QED
      BY <3>1, <3>2, <1>0 DEF CutIsKnown
  <2>2. QED
    BY <2>1 DEF CutIsKnown
<1>11. QED
  BY <1>3, <1>4, <1>5, <1>6, <1>7, <1>8, <1>9, <1>10 DEF KeyStoreInv

\* A write fails, or the process stops.
LEMMA WriteFailsKeeps ==
  ASSUME KeyStoreInv, WriteFails
  PROVE  KeyStoreInv'
<1>1. mode \in {"generating", "rotating", "revoking"} /\ (mode # "generating" => Up)
  BY WhatIsNext DEF WriteFails
<1>2. /\ CutShort /\ UNCHANGED <<disk, mem, keys, starts, root, revoked>>
      /\ mode' = IF mode = "generating" THEN "failed" ELSE "up"
  BY DEF WriteFails
<1>3. QED
  BY <1>1, <1>2, CutShortKeeps

\* The process stops, whatever it was doing.
LEMMA StopKeeps ==
  ASSUME KeyStoreInv, Stop
  PROVE  KeyStoreInv'
BY CutShortKeeps DEF Stop

\* A step that leaves the key store alone.
LEMMA StutterKeeps ==
  ASSUME KeyStoreInv, UNCHANGED keyVars
  PROVE  KeyStoreInv'
<1>1. /\ disk' = disk /\ mode' = mode /\ todo' = todo /\ mem' = mem /\ keys' = keys
      /\ starts' = starts /\ root' = root /\ revoked' = revoked /\ torn' = torn /\ cut' = cut
  BY DEF keyVars
<1>2. KeyStoreType'
  BY <1>1 DEF KeyStoreInv, KeyStoreType
<1>3. PlansUnderWay'
  BY <1>1 DEF KeyStoreInv, PlansUnderWay, UnderWay, Written
<1>4. NothingBefore' /\ ListHolds' /\ KeysCount' /\ CutIsKnown'
  BY <1>1 DEF KeyStoreInv, NothingBefore, ListHolds, KeysCount, CutIsKnown, Up
<1>5. DiskFits' /\ MemFits'
  BY <1>1 DEF KeyStoreInv, DiskFits, MemFits, CoreFits, LabelFits, Loadable, Readable, Up
<1>6. QED
  BY <1>2, <1>3, <1>4, <1>5 DEF KeyStoreInv

-----------------------------------------------------------------------------
(* The theorems *)

\* Where opening failed, an operation had been cut short: whole stores can be read.
FailedIsCut == mode = "failed" => cut

\* A store fails to open, or a write fails, only where something was cut short.
LEMMA FailedKeeps ==
  ASSUME KeyStoreInv, FailedIsCut, [KeyStoreNext]_keyVars
  PROVE  FailedIsCut'
<1>1. CASE LoadFails
  BY <1>1, LoadFailsKeeps DEF FailedIsCut
<1>2. CASE WriteFails
  BY <1>2 DEF WriteFails, CutShort, FailedIsCut
<1>3. CASE Stop
  BY <1>3 DEF Stop, FailedIsCut
<1>4. CASE Open \/ Load \/ Rotate \/ Revoke \/ Truncate \/ Write \/ Finish
  BY <1>4 DEF Open, Load, Rotate, Revoke, Truncate, Write, Finish, FailedIsCut
<1>5. CASE UNCHANGED keyVars
  BY <1>5 DEF keyVars, FailedIsCut
<1>6. QED
  BY <1>1, <1>2, <1>3, <1>4, <1>5 DEF KeyStoreNext

\* Whatever is written, cut short or fails, what is on disk and in memory fits
\* together as the invariant says.
THEOREM KeyStoreFits == KeyStoreSpec => [](KeyStoreInv /\ FailedIsCut)
<1>1. KeyStoreInit => KeyStoreInv /\ FailedIsCut
  BY InitHolds DEF KeyStoreInit, FailedIsCut
<1>2. KeyStoreInv /\ FailedIsCut /\ [KeyStoreNext]_keyVars => (KeyStoreInv /\ FailedIsCut)'
  <2> SUFFICES ASSUME KeyStoreInv, FailedIsCut, [KeyStoreNext]_keyVars
               PROVE  KeyStoreInv' /\ FailedIsCut'
    OBVIOUS
  <2>1. FailedIsCut'
    BY FailedKeeps
  <2>2. CASE Open
    BY <2>1, <2>2, OpenKeeps
  <2>3. CASE Load
    BY <2>1, <2>3, LoadKeeps
  <2>4. CASE LoadFails
    BY <2>1, <2>4, LoadFailsKeeps
  <2>5. CASE Rotate
    BY <2>1, <2>5, RotateKeeps
  <2>6. CASE Revoke
    BY <2>1, <2>6, RevokeKeeps
  <2>7. CASE Truncate
    BY <2>1, <2>7, TruncateKeeps
  <2>8. CASE Write
    BY <2>1, <2>8, WriteKeeps
  <2>9. CASE Finish
    BY <2>1, <2>9, FinishKeeps
  <2>10. CASE WriteFails
    BY <2>1, <2>10, WriteFailsKeeps
  <2>11. CASE Stop
    BY <2>1, <2>11, StopKeeps
  <2>12. CASE UNCHANGED keyVars
    BY <2>1, <2>12, StutterKeeps
  <2>13. QED
    BY <2>2, <2>3, <2>4, <2>5, <2>6, <2>7, <2>8, <2>9, <2>10, <2>11, <2>12 DEF KeyStoreNext
<1>3. QED
  BY <1>1, <1>2, PTL DEF KeyStoreSpec

\* A Keystore that Open returns has the CA of the first one, knows every revocation
\* that was acknowledged, and has signers that fit unless a rotation was cut short
\* between its two files; what does not open had an operation cut short.
THEOREM KeyStoreSurvives == KeyStoreSpec => []KeyStoreKeeps
<1>1. KeyStoreInv /\ FailedIsCut => KeyStoreKeeps
  <2> SUFFICES ASSUME KeyStoreInv, FailedIsCut
               PROVE  KeyStoreKeeps
    OBVIOUS
  <2>1. NothingBefore /\ MemFits /\ ListHolds
    BY DEF KeyStoreInv
  <2>2. QED
    BY <2>1 DEF NothingBefore, MemFits, ListHolds, CoreFits, LabelFits, SignerFits,
                KeyStoreKeeps, FailedIsCut
<1>2. QED
  BY <1>1, KeyStoreFits, PTL

=============================================================================
