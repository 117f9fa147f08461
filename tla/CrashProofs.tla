------------------------------ MODULE CrashProofs -------------------------------
(***************************************************************************)
(* The properties of StorageCrash.tla that hold wherever a call is killed, *)
(* for every data directory and every number of kills.                     *)
(***************************************************************************)
EXTENDS CrashInvariants, StorageProofs

---------------------------------------------------------------------------------
(* Paths and writes *)

\* A path tells its kind and its owner.
LEMMA PathKinds ==
    /\ CatalogFile[1] = "catalog.enc" /\ MigrationsFile[1] = "migrations.enc"
    /\ IndexesFile[1] = "indexes.enc" /\ MarkerFile[1] = "indexes.clean"
    /\ \A t : TableFile(t)[1] = "table" /\ TableFile(t)[2] = t
    /\ \A t : RewriteFile(t)[1] = "tmp_rewrite" /\ RewriteFile(t)[2] = t
    /\ \A i : IndexFile(i)[1] = "index" /\ IndexFile(i)[2] = i
  BY DEF CatalogFile, MigrationsFile, IndexesFile, MarkerFile, TableFile, RewriteFile, IndexFile

\* A write tells its kind and what it is applied to.
LEMMA WriteIs == \A p, c : WriteFile(p, c)[1] = "write" /\ WriteFile(p, c)[2] = p /\ WriteFile(p, c)[3] = c
  BY DEF WriteFile

LEMMA RemoveIs == \A p : RemoveFile(p)[1] = "remove" /\ RemoveFile(p)[2] = p
  BY DEF RemoveFile

LEMMA RenameIs ==
    \A p, q : RenameFile(p, q)[1] = "rename" /\ RenameFile(p, q)[2] = p /\ RenameFile(p, q)[3] = q
  BY DEF RenameFile

LEMMA RenameOf ==
    /\ \A t : Rename(t)[1] = "rename"
    /\ \A t, u : Rename(t) = Rename(u) => t = u
<1>1. \A t : Rename(t)[1] = "rename" /\ Rename(t)[2] = RewriteFile(t)
  BY DEF Rename, RenameFile
<1> QED
  BY <1>1, PathKinds

LEMMA AppendIs ==
    \A t, r : AppendLine(t, r)[1] = "append" /\ AppendLine(t, r)[2] = t /\ AppendLine(t, r)[3] = r
  BY DEF AppendLine

LEMMA EndIs == \A t : EndLine(t)[1] = "end line" /\ EndLine(t)[2] = t
  BY DEF EndLine

LEMMA CopyIs == \A p : Copy(p)[1] = "copy" /\ Copy(p)[2] = p
  BY DEF Copy

LEMMA RestoreIs == \A p : Restore(p)[1] = "restore" /\ Restore(p)[2] = p
  BY DEF Restore

LEMMA SnapshotIs == MakeSnapshot[1] = "make snapshot" /\ DropSnapshot[1] = "drop snapshot"
  BY DEF MakeSnapshot, DropSnapshot

LEMMA PathsAre ==
    ASSUME NEW path
    PROVE  path \in Paths <=>
             \/ path = CatalogFile \/ path = MigrationsFile \/ path = IndexesFile
             \/ path = MarkerFile
             \/ \E t \in Tables : path = TableFile(t) \/ path = RewriteFile(t)
             \/ \E i \in IndexNames : path = IndexFile(i)
  BY DEF Paths, Metadata

\* What a write makes of the directory and of the snapshot.
LEMMA AfterWrite ==
    ASSUME NEW p, NEW c
    PROVE  /\ FilesAfter(WriteFile(p, c)) = Put(files, p, c)
           /\ SnapshotAfter(WriteFile(p, c)) = snapshot_files
  BY WriteIs DEF FilesAfter, SnapshotAfter

LEMMA AfterRemove ==
    ASSUME NEW p
    PROVE  /\ FilesAfter(RemoveFile(p)) = Without(files, {p})
           /\ SnapshotAfter(RemoveFile(p)) = snapshot_files
  BY RemoveIs DEF FilesAfter, SnapshotAfter

LEMMA AfterRename ==
    ASSUME NEW p, NEW q
    PROVE  /\ FilesAfter(RenameFile(p, q)) = Put(Without(files, {p}), q, files[p])
           /\ SnapshotAfter(RenameFile(p, q)) = snapshot_files
  BY RenameIs DEF FilesAfter, SnapshotAfter

LEMMA AfterAppend ==
    ASSUME NEW t, NEW r
    PROVE  /\ FilesAfter(AppendLine(t, r)) = 
              Put(files, TableFile(t), Appended(Held(files, TableFile(t), Lines(<<>>)), r))
           /\ SnapshotAfter(AppendLine(t, r)) = snapshot_files
  BY AppendIs DEF FilesAfter, SnapshotAfter

LEMMA AfterEnd ==
    ASSUME NEW t
    PROVE  /\ FilesAfter(EndLine(t)) = WithLineEnded(t)
           /\ SnapshotAfter(EndLine(t)) = snapshot_files
  BY EndIs DEF FilesAfter, SnapshotAfter

LEMMA AfterCopy ==
    ASSUME NEW p
    PROVE  /\ FilesAfter(Copy(p)) = files
           /\ SnapshotAfter(Copy(p)) = Put(snapshot_files, p, files[p])
  BY CopyIs DEF FilesAfter, SnapshotAfter

LEMMA AfterRestore ==
    ASSUME NEW p
    PROVE  /\ FilesAfter(Restore(p)) = Put(files, p, snapshot_files[p])
           /\ SnapshotAfter(Restore(p)) = snapshot_files
  BY RestoreIs DEF FilesAfter, SnapshotAfter

LEMMA AfterMake ==
    /\ FilesAfter(MakeSnapshot) = files
    /\ SnapshotAfter(MakeSnapshot) = EmptyMap
  BY SnapshotIs DEF FilesAfter, SnapshotAfter

LEMMA AfterDrop ==
    /\ FilesAfter(DropSnapshot) = files
    /\ SnapshotAfter(DropSnapshot) = NoSnapshot
  BY SnapshotIs DEF FilesAfter, SnapshotAfter

---------------------------------------------------------------------------------
(* The contents of files *)

\* What may be in a file, path by path.
LEMMA ContentsOf ==
    /\ \A c : ContentOK(CatalogFile, c) <=> IsMap(c, Tables, Schema)
    /\ \A c : ContentOK(MigrationsFile, c) <=> c \in Seq(Migration)
    /\ \A c : ContentOK(IndexesFile, c) <=> IsMap(c, IndexNames, IndexDefinition)
    /\ \A c : ContentOK(MarkerFile, c) <=> c = TRUE
    /\ \A t \in Tables : \A c : ContentOK(TableFile(t), c) <=> c \in LinesOf
    /\ \A t \in Tables : \A c : ContentOK(RewriteFile(t), c) <=> c \in LinesOf
    /\ \A i \in IndexNames : \A c : ContentOK(IndexFile(i), c) <=> c \in IndexMap
  BY PathKinds DEF ContentOK

LEMMA LinesTyped ==
    /\ \A lines \in LinesOf : lines.rows \in Seq(Row)
    /\ \A rows \in Seq(Row) : Lines(rows) \in LinesOf /\ Lines(rows).rows = rows
    /\ \A lines \in LinesOf, row \in Row :
          Appended(lines, row) \in LinesOf /\ Appended(lines, row).rows = Append(lines.rows, row)
    /\ \A lines \in LinesOf :
          [lines EXCEPT !.ended = TRUE] \in LinesOf /\ [lines EXCEPT !.ended = TRUE].rows = lines.rows
<1>1. ASSUME NEW lines \in LinesOf
      PROVE  /\ lines.rows \in Seq(Row)
             /\ [lines EXCEPT !.ended = TRUE] \in LinesOf
             /\ [lines EXCEPT !.ended = TRUE].rows = lines.rows
  BY DEF LinesOf
<1>2. ASSUME NEW rows \in Seq(Row)
      PROVE  Lines(rows) \in LinesOf /\ Lines(rows).rows = rows
  BY DEF LinesOf, Lines
<1>3. ASSUME NEW lines \in LinesOf, NEW row \in Row
      PROVE  Appended(lines, row) \in LinesOf /\ Appended(lines, row).rows = Append(lines.rows, row)
  <2>1. Append(lines.rows, row) \in Seq(Row) /\ (lines.readable /\ lines.ended) \in BOOLEAN
    BY DEF LinesOf
  <2> QED
    BY <2>1 DEF LinesOf, Appended
<1> QED
  BY <1>1, <1>2, <1>3

\* The parts of AsDisk
LEMMA DiskParts ==
    ASSUME NEW fs
    PROVE  /\ AsDisk(fs).catalog = Held(fs, CatalogFile, EmptyMap)
           /\ AsDisk(fs).migrations = Held(fs, MigrationsFile, <<>>)
           /\ AsDisk(fs).indexes = Held(fs, IndexesFile, EmptyMap)
           /\ DOMAIN AsDisk(fs).tables = {t \in Tables : TableFile(t) \in DOMAIN fs}
           /\ \A t \in DOMAIN AsDisk(fs).tables : AsDisk(fs).tables[t] = fs[TableFile(t)].rows
           /\ DOMAIN AsDisk(fs).index_files = {i \in IndexNames : IndexFile(i) \in DOMAIN fs}
           /\ \A i \in DOMAIN AsDisk(fs).index_files : AsDisk(fs).index_files[i] = fs[IndexFile(i)]
           /\ AsDisk(fs).tmp_rewrite = {t \in Tables : RewriteFile(t) \in DOMAIN fs}
  BY DEF AsDisk

LEMMA AsDiskTyped ==
    ASSUME NEW fs, DirectoryOK(fs)
    PROVE  IsFiles(AsDisk(fs))
<1>1. /\ AsDisk(fs).tables = [t \in DOMAIN AsDisk(fs).tables |-> AsDisk(fs).tables[t]]
      /\ AsDisk(fs).index_files = [i \in DOMAIN AsDisk(fs).index_files |-> AsDisk(fs).index_files[i]]
      /\ AsDisk(fs) = [catalog |-> AsDisk(fs).catalog, migrations |-> AsDisk(fs).migrations,
                       indexes |-> AsDisk(fs).indexes, tables |-> AsDisk(fs).tables,
                       index_files |-> AsDisk(fs).index_files, tmp_rewrite |-> AsDisk(fs).tmp_rewrite]
  BY DEF AsDisk
<1>2. \A path \in DOMAIN fs : ContentOK(path, fs[path])
  BY DEF DirectoryOK
<1>3. IsMap(AsDisk(fs).catalog, Tables, Schema) /\ IsMap(AsDisk(fs).indexes, IndexNames, IndexDefinition)
      /\ AsDisk(fs).migrations \in Seq(Migration)
  <2>1. IsMap(EmptyMap, Tables, Schema) /\ IsMap(EmptyMap, IndexNames, IndexDefinition)
        /\ <<>> \in Seq(Migration)
    BY EmptyIsMap
  <2>2. /\ CatalogFile \in DOMAIN fs => IsMap(fs[CatalogFile], Tables, Schema)
        /\ MigrationsFile \in DOMAIN fs => fs[MigrationsFile] \in Seq(Migration)
        /\ IndexesFile \in DOMAIN fs => IsMap(fs[IndexesFile], IndexNames, IndexDefinition)
    BY <1>2, ContentsOf
  <2> QED
    BY <2>1, <2>2, DiskParts DEF Held
<1>4. IsMap(AsDisk(fs).tables, Tables, Seq(Row)) /\ IsMap(AsDisk(fs).index_files, IndexNames, IndexMap)
  <2>1. \A t \in DOMAIN AsDisk(fs).tables : AsDisk(fs).tables[t] \in Seq(Row)
    BY <1>2, ContentsOf, LinesTyped, DiskParts
  <2>2. \A i \in DOMAIN AsDisk(fs).index_files : AsDisk(fs).index_files[i] \in IndexMap
    BY <1>2, ContentsOf, DiskParts
  <2> QED
    BY <1>1, <2>1, <2>2, DiskParts DEF IsMap
<1> QED
  BY <1>1, <1>3, <1>4, DiskParts DEF IsFiles

\* A directory is not what stands for none.
LEMMA DirectoriesAre ==
    ASSUME NEW fs, DirectoryOK(fs)
    PROVE  fs # NoSnapshot
<1>1. \A path \in DOMAIN fs : fs[path] \in Contents
  <2>1. \A path \in DOMAIN fs : path \in Paths /\ ContentOK(path, fs[path])
    BY DEF DirectoryOK
  <2>2. ASSUME NEW path \in DOMAIN fs
        PROVE  \/ IsMap(fs[path], Tables, Schema) \/ IsMap(fs[path], IndexNames, IndexDefinition)
               \/ fs[path] \in Seq(Migration) \/ fs[path] \in LinesOf \/ fs[path] \in IndexMap
               \/ fs[path] = TRUE
    BY <2>1, PathsAre, ContentsOf
  <2> QED
    BY <2>2, MapsAreMaps DEF Contents
<1> QED
  BY <1>1, DirectoryAssumption DEF DirectoryOK

LEMMA PutDirectory ==
    ASSUME NEW fs, DirectoryOK(fs), NEW path \in Paths, NEW content, ContentOK(path, content)
    PROVE  DirectoryOK(Put(fs, path, content))
<1>1. Put(fs, path, content) = [x \in DOMAIN Put(fs, path, content) |-> Put(fs, path, content)[x]]
  BY DEF Put, Override
<1>2. /\ DOMAIN Put(fs, path, content) = DOMAIN fs \cup {path}
      /\ \A x \in DOMAIN Put(fs, path, content) : ContentOK(x, Put(fs, path, content)[x])
  <2>1. DOMAIN Put(fs, path, content) = DOMAIN fs \cup {path}
    BY DEF Put, Override
  <2>2. ASSUME NEW x \in DOMAIN fs, x # path
        PROVE  ContentOK(x, Put(fs, path, content)[x])
    <3>1. Put(fs, path, content)[x] = fs[x] /\ ContentOK(x, fs[x])
      BY <2>2 DEF DirectoryOK, Put, Override
    <3> QED
      BY <3>1
  <2>3. ContentOK(path, Put(fs, path, content)[path])
    <3>1. Put(fs, path, content)[path] = content
      BY DEF Put, Override
    <3> QED
      BY <3>1
  <2> QED
    BY <2>1, <2>2, <2>3
<1> QED
  BY <1>1, <1>2 DEF DirectoryOK

LEMMA WithoutDirectory ==
    ASSUME NEW fs, DirectoryOK(fs), NEW D
    PROVE  DirectoryOK(Without(fs, D))
<1>1. Without(fs, D) = [x \in DOMAIN Without(fs, D) |-> Without(fs, D)[x]]
  BY DEF Without, Restrict
<1>2. /\ DOMAIN Without(fs, D) = DOMAIN fs \ D
      /\ \A x \in DOMAIN Without(fs, D) : ContentOK(x, Without(fs, D)[x])
  <2>1. DOMAIN Without(fs, D) = DOMAIN fs \ D
    BY DEF Without, Restrict
  <2>2. ASSUME NEW x \in DOMAIN fs \ D
        PROVE  ContentOK(x, Without(fs, D)[x])
    <3>1. Without(fs, D)[x] = fs[x] /\ ContentOK(x, fs[x])
      BY DEF DirectoryOK, Without, Restrict
    <3> QED
      BY <3>1
  <2> QED
    BY <2>1, <2>2
<1> QED
  BY <1>1, <1>2 DEF DirectoryOK

---------------------------------------------------------------------------------
(* Where a call leads *)

LEMMA LeavesMetadata ==
    ASSUME NEW d, NEW m, NEW c
    PROVE  /\ Leaves(d, m, CatalogFile, c) <=> c = d.catalog
           /\ Leaves(d, m, MigrationsFile, c) <=> c = d.migrations
           /\ Leaves(d, m, IndexesFile, c) <=> c = d.indexes
           /\ Leaves(d, m, MarkerFile, c) <=> m
  BY PathKinds DEF Leaves

LEMMA LeavesIndex ==
    ASSUME NEW d, NEW m, NEW i, NEW c
    PROVE  Leaves(d, m, IndexFile(i), c) <=> i \in DOMAIN d.index_files /\ c = d.index_files[i]
  BY PathKinds DEF Leaves

LEMMA LeavesTable ==
    ASSUME NEW d, NEW m, NEW t, NEW c
    PROVE  Leaves(d, m, TableFile(t), c) <=> t \in DOMAIN d.tables /\ c.rows = d.tables[t]
  BY PathKinds DEF Leaves

LEMMA LeavesRewrite ==
    ASSUME NEW d, NEW m, NEW t, NEW c
    PROVE  Leaves(d, m, RewriteFile(t), c) <=> t \in d.tmp_rewrite
  BY PathKinds DEF Leaves

LEMMA LeavesNoMetadata ==
    ASSUME NEW d, NEW m
    PROVE  /\ LeavesNo(d, m, CatalogFile) <=> d.catalog = EmptyMap
           /\ LeavesNo(d, m, MigrationsFile) <=> d.migrations = <<>>
           /\ LeavesNo(d, m, IndexesFile) <=> d.indexes = EmptyMap
           /\ LeavesNo(d, m, MarkerFile) <=> ~m
  BY PathKinds DEF LeavesNo

LEMMA LeavesNoIndex ==
    ASSUME NEW d, NEW m, NEW i \in IndexNames
    PROVE  LeavesNo(d, m, IndexFile(i)) <=> i \notin DOMAIN d.index_files
  BY PathKinds DEF LeavesNo

LEMMA LeavesNoTable ==
    ASSUME NEW d, NEW m, NEW t \in Tables
    PROVE  /\ LeavesNo(d, m, TableFile(t)) <=> t \notin DOMAIN d.tables
           /\ LeavesNo(d, m, RewriteFile(t)) <=> t \notin d.tmp_rewrite
  BY PathKinds DEF LeavesNo

LEMMA ArrivedMetadata ==
    ASSUME NEW fs, NEW d, NEW m
    PROVE  /\ Arrived(fs, d, m, CatalogFile) <=> AsDisk(fs).catalog = d.catalog
           /\ Arrived(fs, d, m, MigrationsFile) <=> AsDisk(fs).migrations = d.migrations
           /\ Arrived(fs, d, m, IndexesFile) <=> AsDisk(fs).indexes = d.indexes
           /\ Arrived(fs, d, m, MarkerFile) <=> (MarkerFile \in DOMAIN fs <=> m)
  BY LeavesMetadata, LeavesNoMetadata DEF Arrived, Held, AsDisk

LEMMA ArrivedIndex ==
    ASSUME NEW fs, NEW d, NEW m, NEW i \in IndexNames
    PROVE  Arrived(fs, d, m, IndexFile(i)) <=>
             /\ i \in DOMAIN AsDisk(fs).index_files <=> i \in DOMAIN d.index_files
             /\ i \in DOMAIN d.index_files => AsDisk(fs).index_files[i] = d.index_files[i]
<1>1. /\ i \in DOMAIN AsDisk(fs).index_files <=> IndexFile(i) \in DOMAIN fs
      /\ IndexFile(i) \in DOMAIN fs => AsDisk(fs).index_files[i] = fs[IndexFile(i)]
  BY DEF AsDisk
<1> QED
  BY <1>1, LeavesIndex, LeavesNoIndex DEF Arrived

LEMMA ArrivedTable ==
    ASSUME NEW fs, NEW d, NEW m, NEW t \in Tables
    PROVE  Arrived(fs, d, m, TableFile(t)) <=>
             /\ t \in DOMAIN AsDisk(fs).tables <=> t \in DOMAIN d.tables
             /\ t \in DOMAIN d.tables => AsDisk(fs).tables[t] = d.tables[t]
<1>1. /\ t \in DOMAIN AsDisk(fs).tables <=> TableFile(t) \in DOMAIN fs
      /\ TableFile(t) \in DOMAIN fs => AsDisk(fs).tables[t] = fs[TableFile(t)].rows
  BY DEF AsDisk
<1> QED
  BY <1>1, LeavesTable, LeavesNoTable DEF Arrived

LEMMA ArrivedRewrite ==
    ASSUME NEW fs, NEW d, NEW m, NEW t \in Tables
    PROVE  Arrived(fs, d, m, RewriteFile(t)) <=> (t \in AsDisk(fs).tmp_rewrite <=> t \in d.tmp_rewrite)
<1>1. t \in AsDisk(fs).tmp_rewrite <=> RewriteFile(t) \in DOMAIN fs
  BY DEF AsDisk
<1> QED
  BY <1>1, LeavesRewrite, LeavesNoTable DEF Arrived

\* Two records of a directory with the same parts are the same.
LEMMA SameParts ==
    ASSUME NEW c, IsFiles(c), NEW d, IsFiles(d),
           c.catalog = d.catalog, c.migrations = d.migrations, c.indexes = d.indexes,
           DOMAIN c.tables = DOMAIN d.tables, \A t \in DOMAIN d.tables : c.tables[t] = d.tables[t],
           DOMAIN c.index_files = DOMAIN d.index_files,
           \A i \in DOMAIN d.index_files : c.index_files[i] = d.index_files[i],
           c.tmp_rewrite = d.tmp_rewrite
    PROVE  c = d
<1>1. c.tables = d.tables
  BY DEF IsFiles, IsMap
<1>2. c.index_files = d.index_files
  BY DEF IsFiles, IsMap
<1> QED
  BY <1>1, <1>2 DEF IsFiles

\* Every path has arrived exactly when the directory is the one the call leads to.
LEMMA AllArrived ==
    ASSUME NEW fs, DirectoryOK(fs), NEW d, IsFiles(d), NEW m \in BOOLEAN
    PROVE  (\A path \in Paths : Arrived(fs, d, m, path)) <=>
               AsDisk(fs) = d /\ m = (MarkerFile \in DOMAIN fs)
<1>1. IsFiles(AsDisk(fs))
  BY AsDiskTyped
<1>2. DOMAIN d.tables \subseteq Tables /\ DOMAIN d.index_files \subseteq IndexNames
      /\ d.tmp_rewrite \subseteq Tables
  BY DEF IsFiles, IsMap
<1>3. ASSUME \A path \in Paths : Arrived(fs, d, m, path)
      PROVE  AsDisk(fs) = d /\ m = (MarkerFile \in DOMAIN fs)
  <2>1. /\ Arrived(fs, d, m, CatalogFile) /\ Arrived(fs, d, m, MigrationsFile)
        /\ Arrived(fs, d, m, IndexesFile) /\ Arrived(fs, d, m, MarkerFile)
        /\ \A i \in IndexNames : Arrived(fs, d, m, IndexFile(i))
        /\ \A t \in Tables : Arrived(fs, d, m, TableFile(t)) /\ Arrived(fs, d, m, RewriteFile(t))
    BY <1>3, PathsAre
  <2>2. /\ AsDisk(fs).catalog = d.catalog /\ AsDisk(fs).migrations = d.migrations
        /\ AsDisk(fs).indexes = d.indexes /\ m = (MarkerFile \in DOMAIN fs)
    BY <2>1, ArrivedMetadata
  <2>3. ASSUME NEW t \in Tables
        PROVE  /\ t \in DOMAIN AsDisk(fs).tables <=> t \in DOMAIN d.tables
               /\ t \in DOMAIN d.tables => AsDisk(fs).tables[t] = d.tables[t]
               /\ t \in AsDisk(fs).tmp_rewrite <=> t \in d.tmp_rewrite
    BY <2>1, ArrivedTable, ArrivedRewrite
  <2>4. ASSUME NEW i \in IndexNames
        PROVE  /\ i \in DOMAIN AsDisk(fs).index_files <=> i \in DOMAIN d.index_files
               /\ i \in DOMAIN d.index_files => AsDisk(fs).index_files[i] = d.index_files[i]
    BY <2>1, ArrivedIndex
  <2>5. /\ DOMAIN AsDisk(fs).tables \subseteq Tables /\ DOMAIN AsDisk(fs).index_files \subseteq IndexNames
        /\ AsDisk(fs).tmp_rewrite \subseteq Tables
    BY DEF AsDisk
  <2>6. DOMAIN AsDisk(fs).tables = DOMAIN d.tables
        /\ \A t \in DOMAIN d.tables : AsDisk(fs).tables[t] = d.tables[t]
    BY <1>2, <2>3, <2>5
  <2>7. DOMAIN AsDisk(fs).index_files = DOMAIN d.index_files
        /\ \A i \in DOMAIN d.index_files : AsDisk(fs).index_files[i] = d.index_files[i]
    BY <1>2, <2>4, <2>5
  <2>8. AsDisk(fs).tmp_rewrite = d.tmp_rewrite
    BY <1>2, <2>3, <2>5
  <2> QED
    BY <1>1, <2>2, <2>6, <2>7, <2>8, SameParts
<1>4. ASSUME AsDisk(fs) = d, m = (MarkerFile \in DOMAIN fs), NEW path \in Paths
      PROVE  Arrived(fs, d, m, path)
  <2>1. /\ Arrived(fs, d, m, CatalogFile) /\ Arrived(fs, d, m, MigrationsFile)
        /\ Arrived(fs, d, m, IndexesFile) /\ Arrived(fs, d, m, MarkerFile)
    BY <1>4, ArrivedMetadata
  <2>2. \A i \in IndexNames : Arrived(fs, d, m, IndexFile(i))
    BY <1>4, ArrivedIndex
  <2>3. \A t \in Tables : Arrived(fs, d, m, TableFile(t)) /\ Arrived(fs, d, m, RewriteFile(t))
    BY <1>4, ArrivedTable, ArrivedRewrite
  <2> QED
    BY <2>1, <2>2, <2>3, PathsAre
<1> QED
  BY <1>3, <1>4

---------------------------------------------------------------------------------
(* What a write alters *)

LEMMA AltersWrite ==
    ASSUME NEW p, NEW c, NEW path
    PROVE  Alters(WriteFile(p, c), path) <=> path = p
  BY WriteIs DEF Alters

LEMMA AsideIs ==
    ASSUME NEW t
    PROVE  /\ Aside(t)[1] = "write" /\ Aside(t)[2] = RewriteFile(t)
           /\ \A path : Alters(Aside(t), path) <=> path = RewriteFile(t)
<1>1. Aside(t)[1] = "write" /\ Aside(t)[2] = RewriteFile(t)
  BY DEF Aside, WriteFile
<1> QED
  BY <1>1 DEF Alters

LEMMA AltersRemove ==
    ASSUME NEW p, NEW path
    PROVE  Alters(RemoveFile(p), path) <=> path = p
  BY RemoveIs DEF Alters

LEMMA AltersRename ==
    ASSUME NEW t, NEW path
    PROVE  Alters(Rename(t), path) <=> path = RewriteFile(t) \/ path = TableFile(t)
  BY RenameIs DEF Alters, Rename

LEMMA AltersAppend ==
    ASSUME NEW t, NEW r, NEW path
    PROVE  Alters(AppendLine(t, r), path) <=> path = TableFile(t)
  BY AppendIs DEF Alters

LEMMA AltersNothing ==
    ASSUME NEW path
    PROVE  /\ \A t : ~Alters(EndLine(t), path)
           /\ \A p : ~Alters(Copy(p), path)
           /\ ~Alters(MakeSnapshot, path) /\ ~Alters(DropSnapshot, path)
  BY EndIs, CopyIs, SnapshotIs DEF Alters

\* The file `path` is there as before; of a table's file, its rows.
SameFile(path) ==
    /\ path \in DOMAIN files' <=> path \in DOMAIN files
    /\ path \in DOMAIN files =>
         \/ files'[path] = files[path]
         \/ \E t \in Tables : path = TableFile(t) /\ files'[path].rows = files[path].rows

LEMMA SameArrived ==
    ASSUME NEW path, SameFile(path), NEW d, NEW m
    PROVE  Arrived(files, d, m, path) <=> Arrived(files', d, m, path)
<1>1. CASE path \notin DOMAIN files
  BY <1>1 DEF SameFile, Arrived
<1>2. CASE path \in DOMAIN files /\ files'[path] = files[path]
  BY <1>2 DEF SameFile, Arrived
<1>3. ASSUME NEW t \in Tables, path \in DOMAIN files, path = TableFile(t),
             files'[path].rows = files[path].rows
      PROVE  Arrived(files, d, m, path) <=> Arrived(files', d, m, path)
  BY <1>3, LeavesTable DEF SameFile, Arrived
<1> QED
  BY <1>1, <1>2, <1>3 DEF SameFile

LEMMA SameRows ==
    ASSUME NEW t \in Tables, SameFile(TableFile(t))
    PROVE  RowsIn(AsDisk(files').tables, t) = RowsIn(AsDisk(files).tables, t)
<1>1. ASSUME NEW fs
      PROVE  RowsIn(AsDisk(fs).tables, t) =
               IF TableFile(t) \in DOMAIN fs THEN fs[TableFile(t)].rows ELSE <<>>
  BY DEF RowsIn, AsDisk
<1>2. TableFile(t) \in DOMAIN files => files'[TableFile(t)].rows = files[TableFile(t)].rows
  BY DEF SameFile
<1> QED
  BY <1>1, <1>2 DEF SameFile

\* Each write leaves what it does not alter.
LEMMA WriteLeaves ==
    ASSUME NEW p, NEW c, files' = FilesAfter(WriteFile(p, c))
    PROVE  /\ p \in DOMAIN files' /\ files'[p] = c
           /\ \A path : path # p => SameFile(path)
<1>1. files' = Put(files, p, c)
  BY AfterWrite
<1> QED
  BY <1>1 DEF SameFile, Put, Override

LEMMA RemoveLeaves ==
    ASSUME NEW p, files' = FilesAfter(RemoveFile(p))
    PROVE  p \notin DOMAIN files' /\ \A path : path # p => SameFile(path)
<1>1. files' = Without(files, {p})
  BY AfterRemove
<1> QED
  BY <1>1 DEF SameFile, Without, Restrict

LEMMA RenameLeaves ==
    ASSUME NEW t, files' = FilesAfter(Rename(t))
    PROVE  /\ TableFile(t) \in DOMAIN files' /\ files'[TableFile(t)] = files[RewriteFile(t)]
           /\ RewriteFile(t) \notin DOMAIN files'
           /\ \A path : path # TableFile(t) /\ path # RewriteFile(t) => SameFile(path)
<1>1. TableFile(t) # RewriteFile(t)
  BY PathKinds
<1>2. files' = Put(Without(files, {RewriteFile(t)}), TableFile(t), files[RewriteFile(t)])
  BY AfterRename DEF Rename
<1> QED
  BY <1>1, <1>2 DEF SameFile, Put, Override, Without, Restrict

LEMMA AppendLeaves ==
    ASSUME NEW t \in Tables, NEW row \in Row, DirectoryOK(files),
           files' = FilesAfter(AppendLine(t, row))
    PROVE  /\ TableFile(t) \in DOMAIN files' /\ files'[TableFile(t)] \in LinesOf
           /\ files'[TableFile(t)].rows = Append(RowsIn(AsDisk(files).tables, t), row)
           /\ \A path : path # TableFile(t) => SameFile(path)
<1> DEFINE lines == Held(files, TableFile(t), Lines(<<>>))
<1>1. <<>> \in Seq(Row)
  OBVIOUS
<1>2. lines \in LinesOf /\ lines.rows = RowsIn(AsDisk(files).tables, t)
  <2>1. Lines(<<>>) \in LinesOf /\ Lines(<<>>).rows = <<>>
    BY <1>1, LinesTyped
  <2>2. TableFile(t) \in DOMAIN files => files[TableFile(t)] \in LinesOf
    BY ContentsOf DEF DirectoryOK
  <2> QED
    BY <2>1, <2>2 DEF Held, RowsIn, AsDisk
<1>3. Appended(lines, row) \in LinesOf /\ Appended(lines, row).rows = Append(lines.rows, row)
  BY <1>2, LinesTyped
<1>4. files' = Put(files, TableFile(t), Appended(lines, row))
  BY AfterAppend
<1> HIDE DEF lines
<1> QED
  BY <1>2, <1>3, <1>4 DEF SameFile, Put, Override

LEMMA EndLeaves ==
    ASSUME NEW t \in Tables, DirectoryOK(files), files' = FilesAfter(EndLine(t))
    PROVE  /\ \A path : SameFile(path)
           /\ DirectoryOK(files')
<1>1. files' = WithLineEnded(t)
  BY AfterEnd
<1>2. CASE TableFile(t) \notin DOMAIN files
  <2>1. files' = files
    BY <1>1, <1>2 DEF WithLineEnded, DirectoryOK
  <2> QED
    BY <2>1 DEF SameFile
<1>3. CASE TableFile(t) \in DOMAIN files
  <2> DEFINE lines == files[TableFile(t)]
             ended == [lines EXCEPT !.ended = TRUE]
  <2>1. lines \in LinesOf
    BY <1>3, ContentsOf DEF DirectoryOK
  <2>2. ended \in LinesOf /\ ended.rows = lines.rows
    BY <2>1, LinesTyped
  <2>3. files' = [files EXCEPT ![TableFile(t)] = ended]
    BY <1>1, <1>3 DEF WithLineEnded
  <2>4. ContentOK(TableFile(t), ended)
    BY <2>2, ContentsOf
  <2> HIDE DEF ended, lines
  <2>5. /\ DOMAIN files' = DOMAIN files /\ files'[TableFile(t)] = ended
        /\ \A path \in DOMAIN files \ {TableFile(t)} : files'[path] = files[path]
        /\ files' = [path \in DOMAIN files' |-> files'[path]]
    BY <1>3, <2>3
  <2>6. DirectoryOK(files')
    <3>1. \A path \in DOMAIN files' : ContentOK(path, files'[path])
      BY <2>4, <2>5 DEF DirectoryOK
    <3> QED
      BY <2>5, <3>1 DEF DirectoryOK
  <2> QED
    BY <2>2, <2>5, <2>6 DEF SameFile, lines
<1> QED
  BY <1>2, <1>3

LEMMA NothingLeaves ==
    ASSUME files' = files
    PROVE  \A path : SameFile(path)
  BY DEF SameFile

---------------------------------------------------------------------------------
(* A write that leads to where its call does *)

\* The write `step` is the next one.
Writing(step) ==
    /\ step \in writes /\ \A other \in writes : step.stage <= other.stage
    /\ files' = FilesAfter(step.write) /\ snapshot_files' = SnapshotAfter(step.write)
    /\ writes' = writes \ {step}
    /\ call' = IF writes' = {} THEN NoCall ELSE call
    /\ UNCHANGED vars

StagesOK == \A step \in writes : step.stage \in Nat

LEMMA PendingAfter ==
    ASSUME NEW step, Writing(step)
    PROVE  /\ step.write \in Pending
           /\ \A w \in Pending' : w \in Pending
           /\ \A w \in Pending : w = step.write \/ w \in Pending'
           /\ \A other \in writes' : other \in writes /\ other # step
  BY DEF Writing, Pending

\* A file to be renamed is there: the writes it waits for are done.
LEMMA RenameIsReady ==
    ASSUME NEW step, Writing(step), StagesOK, RenamesFit(step)
    PROVE  \E t \in DOMAIN disk.tables \ disk.tmp_rewrite :
              /\ step.write = Rename(t)
              /\ RewriteFile(t) \in DOMAIN files /\ files[RewriteFile(t)].rows = disk.tables[t]
              /\ \A other \in writes' :
                    ~Alters(other.write, TableFile(t)) /\ ~Alters(other.write, RewriteFile(t))
<1>1. PICK t \in DOMAIN disk.tables \ disk.tmp_rewrite :
        /\ step.write = Rename(t)
        /\ \/ Aside(t) \in Pending
           \/ RewriteFile(t) \in DOMAIN files /\ files[RewriteFile(t)].rows = disk.tables[t]
        /\ \A other \in writes \ {step} :
            /\ Alters(other.write, TableFile(t)) =>
                    other.write = RemoveFile(TableFile(t)) /\ other.stage < step.stage
            /\ Alters(other.write, RewriteFile(t)) =>
                    other.write = Aside(t) /\ other.stage < step.stage
  BY DEF RenamesFit
<1>2. \A other \in writes : ~(other.stage < step.stage)
  <2>1. ASSUME NEW other \in writes PROVE ~(other.stage < step.stage)
    <3>1. other.stage \in Nat /\ step.stage \in Nat /\ step.stage <= other.stage
      BY DEF Writing, StagesOK
    <3> QED
      BY <3>1
  <2> QED
    BY <2>1
<1>3. \A other \in writes' :
          ~Alters(other.write, TableFile(t)) /\ ~Alters(other.write, RewriteFile(t))
  BY <1>1, <1>2, PendingAfter
<1>4. Aside(t) \notin Pending
  <2>1. Aside(t)[1] = "write" /\ Rename(t)[1] = "rename"
    BY WriteIs, RenameIs DEF Aside, Rename
  <2>2. Alters(Aside(t), RewriteFile(t))
    BY AltersWrite DEF Aside
  <2> QED
    BY <1>1, <1>3, <2>1, <2>2 DEF Pending, Writing
<1> QED
  BY <1>1, <1>3, <1>4

\* Where a rename waits, the write that comes first is not the rename.
LEMMA RenameWaits ==
    ASSUME NEW step, Writing(step), StagesOK, \A other \in writes : StepFits(other),
           NEW t, NEW other \in writes, other.write # Rename(t),
           Alters(other.write, TableFile(t)) \/ Alters(other.write, RewriteFile(t))
    PROVE  step.write # Rename(t)
<1> SUFFICES ASSUME step.write = Rename(t) PROVE FALSE
  OBVIOUS
<1>1. step.write[1] = "rename"
  BY RenameIs DEF Rename
<1>2. ~OthersFit(step)
  BY <1>1, EndIs, CopyIs, SnapshotIs DEF OthersFit
<1>3. RenamesFit(step)
  BY <1>1, <1>2 DEF StepFits, Writing
<1>4. PICK u \in DOMAIN disk.tables \ disk.tmp_rewrite :
         /\ step.write = Rename(u)
         /\ \A o \in writes' :
                    ~Alters(o.write, TableFile(u)) /\ ~Alters(o.write, RewriteFile(u))
  BY <1>3, RenameIsReady
<1>5. u = t
  BY <1>4, RenameOf
<1> QED
  BY <1>4, <1>5 DEF Writing

\* The next write of a call puts something there that the call leads to, or
\* something a rename waits for.
LEMMA FilesAfterWrite ==
    ASSUME NEW step, Writing(step), StagesOK, \A other \in writes : StepFits(other),
           DirectoryOK(files), IsFiles(disk)
    PROVE  /\ DirectoryOK(files')
           /\ \A path \in Paths : ~Alters(step.write, path) => SameFile(path)
           /\ \A path \in Paths : Alters(step.write, path) =>
                 \/ Arrived(files', disk, marker, path)
                 \/ \E t \in Tables : path \in {TableFile(t), RewriteFile(t)} /\ Rename(t) \in Pending'
<1> DEFINE Led(path) ==
             \/ Arrived(files', disk, marker, path)
             \/ \E t \in Tables : path \in {TableFile(t), RewriteFile(t)} /\ Rename(t) \in Pending'
<1>0. /\ files' = FilesAfter(step.write) /\ step \in writes /\ StepFits(step)
      /\ DOMAIN disk.tables \subseteq Tables
  BY DEF Writing, IsFiles, IsMap
<1>1. ASSUME NEW path \in Paths, NEW content, step.write = WriteFile(path, content),
             ContentOK(path, content),
             \/ Leaves(disk, marker, path, content)
             \/ \E t \in DOMAIN disk.tables : step.write = Aside(t) /\ Rename(t) \in Pending
      PROVE  /\ DirectoryOK(files')
             /\ \A p \in Paths : ~Alters(step.write, p) => SameFile(p)
             /\ \A p \in Paths : Alters(step.write, p) => Led(p)
  <2>1. files' = Put(files, path, content)
    BY <1>0, <1>1, AfterWrite
  <2>2. DirectoryOK(files')
    BY <1>1, <2>1, PutDirectory
  <2>3. path \in DOMAIN files' /\ files'[path] = content /\ \A p : p # path => SameFile(p)
    BY <1>0, <1>1, WriteLeaves
  <2>4. \A p : Alters(step.write, p) <=> p = path
    BY <1>1, AltersWrite
  <2>5. CASE Leaves(disk, marker, path, content)
    <3>1. Arrived(files', disk, marker, path)
      BY <2>3, <2>5 DEF Arrived
    <3> QED
      BY <2>2, <2>3, <2>4, <3>1
  <2>6. ASSUME NEW t \in DOMAIN disk.tables, step.write = Aside(t), Rename(t) \in Pending
        PROVE  Led(path)
    <3>1. path = RewriteFile(t)
      BY <1>1, <2>6 DEF Aside, WriteFile
    <3>2. Rename(t) # step.write
      BY <1>1, WriteIs, RenameOf
    <3>3. Rename(t) \in Pending'
      BY <2>6, <3>2, PendingAfter
    <3> QED
      BY <1>0, <3>1, <3>3
  <2> QED
    BY <1>1, <2>2, <2>3, <2>4, <2>5, <2>6
<1>2. ASSUME NEW path \in Paths, step.write = RemoveFile(path),
             \/ LeavesNo(disk, marker, path)
             \/ \E t \in Tables : path = TableFile(t) /\ Rename(t) \in Pending
      PROVE  /\ DirectoryOK(files')
             /\ \A p \in Paths : ~Alters(step.write, p) => SameFile(p)
             /\ \A p \in Paths : Alters(step.write, p) => Led(p)
  <2>1. files' = Without(files, {path})
    BY <1>0, <1>2, AfterRemove
  <2>2. DirectoryOK(files')
    BY <1>2, <2>1, WithoutDirectory
  <2>3. path \notin DOMAIN files' /\ \A p : p # path => SameFile(p)
    BY <1>0, <1>2, RemoveLeaves
  <2>4. \A p : Alters(step.write, p) <=> p = path
    BY <1>2, AltersRemove
  <2>5. CASE LeavesNo(disk, marker, path)
    <3>1. Arrived(files', disk, marker, path)
      BY <2>3, <2>5 DEF Arrived
    <3> QED
      BY <2>2, <2>3, <2>4, <3>1
  <2>6. ASSUME NEW t \in Tables, path = TableFile(t), Rename(t) \in Pending
        PROVE  Led(path)
    <3>1. Rename(t) # step.write
      BY <1>2, RemoveIs, RenameOf
    <3>2. Rename(t) \in Pending'
      BY <2>6, <3>1, PendingAfter
    <3> QED
      BY <2>6, <3>2
  <2> QED
    BY <1>2, <2>2, <2>3, <2>4, <2>5, <2>6
<1>3. CASE RenamesFit(step)
  <2>1. PICK t \in DOMAIN disk.tables \ disk.tmp_rewrite :
              /\ step.write = Rename(t)
              /\ RewriteFile(t) \in DOMAIN files /\ files[RewriteFile(t)].rows = disk.tables[t]
    BY <1>3, RenameIsReady
  <2>2. t \in Tables /\ TableFile(t) \in Paths
    BY <1>0, PathsAre
  <2>3. files' = Put(Without(files, {RewriteFile(t)}), TableFile(t), files[RewriteFile(t)])
    BY <1>0, <2>1, AfterRename DEF Rename
  <2>4. ContentOK(TableFile(t), files[RewriteFile(t)])
    BY <2>1, <2>2, ContentsOf DEF DirectoryOK
  <2>5. DirectoryOK(files')
    BY <2>2, <2>3, <2>4, WithoutDirectory, PutDirectory
  <2>6. /\ TableFile(t) \in DOMAIN files' /\ files'[TableFile(t)] = files[RewriteFile(t)]
        /\ RewriteFile(t) \notin DOMAIN files'
        /\ \A path : path # TableFile(t) /\ path # RewriteFile(t) => SameFile(path)
    BY <1>0, <2>1, RenameLeaves
  <2>7. Arrived(files', disk, marker, TableFile(t))
    BY <2>1, <2>6, LeavesTable DEF Arrived
  <2>8. Arrived(files', disk, marker, RewriteFile(t))
    BY <2>1, <2>2, <2>6, LeavesNoTable DEF Arrived
  <2>9. \A p : Alters(step.write, p) <=> p = RewriteFile(t) \/ p = TableFile(t)
    BY <2>1, AltersRename
  <2> QED
    BY <2>5, <2>6, <2>7, <2>8, <2>9
<1>4. CASE AppendsFit(step)
  <2>1. PICK t \in DOMAIN disk.tables, row \in Row :
            /\ step.write = AppendLine(t, row)
            /\ disk.tables[t] = Append(RowsIn(AsDisk(files).tables, t), row)
    BY <1>4 DEF AppendsFit
  <2>2. t \in Tables /\ TableFile(t) \in Paths
    BY <1>0, PathsAre
  <2>3. /\ TableFile(t) \in DOMAIN files' /\ files'[TableFile(t)] \in LinesOf
        /\ files'[TableFile(t)].rows = disk.tables[t]
        /\ \A path : path # TableFile(t) => SameFile(path)
    BY <1>0, <2>1, <2>2, AppendLeaves
  <2>4. files' = Put(files, TableFile(t), files'[TableFile(t)])
    <3>1. files' = Put(files, TableFile(t), Appended(Held(files, TableFile(t), Lines(<<>>)), row))
      BY <1>0, <2>1, AfterAppend
    <3> QED
      BY <3>1 DEF Put, Override
  <2>5. DirectoryOK(files')
    <3>1. ContentOK(TableFile(t), files'[TableFile(t)])
      BY <2>2, <2>3, ContentsOf
    <3> DEFINE content == files'[TableFile(t)]
    <3>2. files' = Put(files, TableFile(t), content)
      BY <2>4
    <3> HIDE DEF content
    <3>3. ContentOK(TableFile(t), content)
      BY <3>1 DEF content
    <3> QED
      BY <2>2, <3>2, <3>3, PutDirectory
  <2>6. Arrived(files', disk, marker, TableFile(t))
    BY <2>1, <2>3, LeavesTable DEF Arrived
  <2>7. \A p : Alters(step.write, p) <=> p = TableFile(t)
    BY <2>1, AltersAppend
  <2> QED
    BY <2>3, <2>5, <2>6, <2>7
<1>5. CASE OthersFit(step)
  <2>1. ASSUME NEW t \in Tables, step.write = EndLine(t)
        PROVE  DirectoryOK(files') /\ \A p : SameFile(p)
    BY <1>0, <2>1, EndLeaves
  <2>2. ASSUME \/ step.write \in {MakeSnapshot, DropSnapshot}
               \/ \E path \in Paths \ {MarkerFile} : step.write = Copy(path)
        PROVE  DirectoryOK(files') /\ \A p : SameFile(p)
    <3>1. files' = files
      BY <1>0, <2>2, AfterMake, AfterDrop, AfterCopy
    <3> QED
      BY <3>1, NothingLeaves
  <2>3. \A p : ~Alters(step.write, p)
    BY <1>5, AltersNothing DEF OthersFit
  <2> QED
    BY <1>5, <2>1, <2>2, <2>3 DEF OthersFit
<1>6. CASE WritesFit(step)
  <2>1. PICK path \in Paths, content \in {step.write[3]} :
        /\ step.write = WriteFile(path, content) /\ ContentOK(path, content)
        /\ \/ Leaves(disk, marker, path, content)
           \/ \E t \in DOMAIN disk.tables : step.write = Aside(t) /\ Rename(t) \in Pending
    BY <1>6 DEF WritesFit
  <2> QED
    BY <1>1, <2>1
<1>7. CASE RemovesFit(step)
  <2>1. PICK path \in Paths :
        /\ step.write = RemoveFile(path)
        /\ \/ LeavesNo(disk, marker, path)
           \/ \E t \in Tables : path = TableFile(t) /\ Rename(t) \in Pending
    BY <1>7 DEF RemovesFit
  <2> QED
    BY <1>2, <2>1
<1> QED
  BY <1>0, <1>3, <1>4, <1>5, <1>6, <1>7 DEF StepFits

\* The writes that remain fit as before.
LEMMA FitsAfterWrite ==
    ASSUME NEW step, Writing(step), StagesOK, \A other \in writes : StepFits(other),
           DirectoryOK(files), IsFiles(disk), NEW other \in writes'
    PROVE  StepFits(other)'
<1>1. /\ other \in writes /\ other # step /\ StepFits(other)
      /\ disk' = disk /\ marker' = marker
      /\ DOMAIN disk.tables \subseteq Tables
  BY PendingAfter DEF Writing, vars, IsFiles, IsMap
<1>2. CASE WritesFit(other)
  <2>1. PICK path \in Paths, content \in {other.write[3]} :
        /\ other.write = WriteFile(path, content) /\ ContentOK(path, content)
        /\ \/ Leaves(disk, marker, path, content)
           \/ \E t \in DOMAIN disk.tables : other.write = Aside(t) /\ Rename(t) \in Pending
    BY <1>2 DEF WritesFit
  <2>2. ASSUME NEW t \in DOMAIN disk.tables, other.write = Aside(t), Rename(t) \in Pending
        PROVE  Rename(t) \in Pending' /\ Aside(t)' = Aside(t)
    <3>1. Alters(other.write, RewriteFile(t)) /\ other.write # Rename(t)
      BY <2>2, AsideIs, RenameOf
    <3>2. step.write # Rename(t)
      BY <1>1, <3>1, RenameWaits
    <3>3. Aside(t)' = Aside(t)
      BY <1>1 DEF Aside
    <3> QED
      BY <2>2, <3>2, <3>3, PendingAfter
  <2>3. \/ Leaves(disk', marker', path, content)
        \/ \E t \in DOMAIN disk'.tables : other.write = Aside(t)' /\ Rename(t) \in Pending'
    BY <1>1, <2>1, <2>2
  <2>4. WritesFit(other)'
    BY <2>1, <2>3 DEF WritesFit
  <2> QED
    BY <2>1, <2>4, WriteIs DEF StepFits
<1>3. CASE RemovesFit(other)
  <2>1. PICK path \in Paths :
        /\ other.write = RemoveFile(path)
        /\ \/ LeavesNo(disk, marker, path)
           \/ \E t \in Tables : path = TableFile(t) /\ Rename(t) \in Pending
    BY <1>3 DEF RemovesFit
  <2>2. ASSUME NEW t \in Tables, path = TableFile(t), Rename(t) \in Pending
        PROVE  Rename(t) \in Pending'
    <3>1. Alters(other.write, TableFile(t)) /\ other.write # Rename(t)
      BY <2>1, <2>2, AltersRemove, RemoveIs, RenameOf
    <3>2. step.write # Rename(t)
      BY <1>1, <3>1, RenameWaits
    <3> QED
      BY <2>2, <3>2, PendingAfter
  <2>3. \/ LeavesNo(disk', marker', path)
        \/ \E t \in Tables : path = TableFile(t) /\ Rename(t) \in Pending'
    BY <1>1, <2>1, <2>2
  <2>4. RemovesFit(other)'
    BY <2>1, <2>3 DEF RemovesFit
  <2> QED
    BY <2>1, <2>4, RemoveIs DEF StepFits
<1>4. CASE RenamesFit(other)
  <2>1. PICK t \in DOMAIN disk.tables \ disk.tmp_rewrite :
        /\ other.write = Rename(t)
        /\ \/ Aside(t) \in Pending
           \/ RewriteFile(t) \in DOMAIN files /\ files[RewriteFile(t)].rows = disk.tables[t]
        /\ TableFile(t) \in DOMAIN files => RemoveFile(TableFile(t)) \in Pending
        /\ \A o \in writes \ {other} :
            /\ Alters(o.write, TableFile(t)) =>
                    o.write = RemoveFile(TableFile(t)) /\ o.stage < other.stage
            /\ Alters(o.write, RewriteFile(t)) =>
                    o.write = Aside(t) /\ o.stage < other.stage
    BY <1>4 DEF RenamesFit
  <2>2. t \in Tables /\ RewriteFile(t) \in Paths /\ disk.tables[t] \in Seq(Row)
    BY <1>1, PathsAre DEF IsFiles, IsMap
  <2>3. Aside(t)' = Aside(t)
    BY <1>1 DEF Aside
  <2>4. \/ Aside(t) \in Pending'
        \/ RewriteFile(t) \in DOMAIN files' /\ files'[RewriteFile(t)].rows = disk.tables[t]
    <3>1. CASE step.write = Aside(t)
      <4>1. files' = FilesAfter(WriteFile(RewriteFile(t), Lines(disk.tables[t])))
        BY <3>1 DEF Writing, Aside
      <4>2. RewriteFile(t) \in DOMAIN files' /\ files'[RewriteFile(t)] = Lines(disk.tables[t])
        BY <4>1, WriteLeaves
      <4>3. Lines(disk.tables[t]).rows = disk.tables[t]
        BY <2>2, LinesTyped
      <4> QED
        BY <4>2, <4>3
    <3>2. CASE step.write # Aside(t) /\ Aside(t) \in Pending
      BY <3>2, PendingAfter
    <3>3. CASE step.write # Aside(t) /\ RewriteFile(t) \in DOMAIN files
                                     /\ files[RewriteFile(t)].rows = disk.tables[t]
      <4>1. step \in writes \ {other}
        BY <1>1 DEF Writing
      <4>2. ~Alters(step.write, RewriteFile(t))
        BY <2>1, <3>3, <4>1
      <4>3. SameFile(RewriteFile(t))
        BY <2>2, <4>2, FilesAfterWrite
      <4>4. \A u : TableFile(u) # RewriteFile(t)
        BY PathKinds
      <4> QED
        BY <3>3, <4>3, <4>4 DEF SameFile
    <3> QED
      BY <2>1, <3>1, <3>2, <3>3
  <2>5. \A o \in writes' \ {other} : o \in writes \ {other}
    BY PendingAfter
  <2>6. ASSUME TableFile(t) \in DOMAIN files'
        PROVE  RemoveFile(TableFile(t)) \in Pending'
    <3>1. step.write # RemoveFile(TableFile(t))
      <4>1. step.write = RemoveFile(TableFile(t)) => files' = FilesAfter(RemoveFile(TableFile(t)))
        BY DEF Writing
      <4> QED
        BY <2>6, <4>1, RemoveLeaves
    <3>2. step \in writes \ {other} /\ TableFile(t) \in Paths
      BY <1>1, <2>2, PathsAre DEF Writing
    <3>3. ~Alters(step.write, TableFile(t))
      BY <2>1, <3>1, <3>2
    <3>4. TableFile(t) \in DOMAIN files
      BY <2>6, <3>2, <3>3, FilesAfterWrite DEF SameFile
    <3> QED
      BY <2>1, <3>1, <3>4, PendingAfter
  <2>7. RenamesFit(other)'
    BY <1>1, <2>1, <2>3, <2>4, <2>5, <2>6 DEF RenamesFit
  <2> QED
    BY <2>1, <2>7, RenameOf DEF StepFits
<1>5. CASE AppendsFit(other)
  <2>1. PICK t \in DOMAIN disk.tables, row \in {other.write[3]} :
        /\ other.write = AppendLine(t, row) /\ row \in Row
        /\ disk.tables[t] = Append(RowsIn(AsDisk(files).tables, t), row)
        /\ \A o \in writes : Alters(o.write, TableFile(t)) => o = other
    BY <1>5 DEF AppendsFit
  <2>2. t \in Tables /\ TableFile(t) \in Paths
    BY <1>1, PathsAre
  <2>3. ~Alters(step.write, TableFile(t))
    BY <1>1, <2>1 DEF Writing
  <2>4. RowsIn(AsDisk(files').tables, t) = RowsIn(AsDisk(files).tables, t)
    <3>1. SameFile(TableFile(t))
      BY <2>2, <2>3, FilesAfterWrite
    <3> QED
      BY <2>2, <3>1, SameRows
  <2>5. \A o \in writes' : o \in writes
    BY PendingAfter
  <2>6. AppendsFit(other)'
    BY <1>1, <2>1, <2>4, <2>5 DEF AppendsFit
  <2> QED
    BY <2>1, <2>6, AppendIs DEF StepFits
<1>6. CASE OthersFit(other)
  BY <1>6 DEF OthersFit, StepFits
<1> QED
  BY <1>1, <1>2, <1>3, <1>4, <1>5, <1>6 DEF StepFits

LEMMA LeadAfterWrite ==
    ASSUME NEW step, Writing(step), StagesOK, WritesLead, DirectoryOK(files), IsFiles(disk)
    PROVE  WritesLead'
<1>1. \A other \in writes : StepFits(other)
  BY DEF WritesLead
<1>2. \A other \in writes' : StepFits(other)'
  BY <1>1, FitsAfterWrite
<1>3. ASSUME NEW path \in Paths
      PROVE  Arrived(files, disk, marker, path)' \/ Altered(path)'
  <2>1. disk' = disk /\ marker' = marker
    BY DEF Writing, vars
  <2>2. CASE Alters(step.write, path)
    <3>1. \/ Arrived(files', disk, marker, path)
          \/ \E t \in Tables : path \in {TableFile(t), RewriteFile(t)} /\ Rename(t) \in Pending'
      BY <1>1, <2>2, FilesAfterWrite
    <3>2. ASSUME NEW t \in Tables, path \in {TableFile(t), RewriteFile(t)}, Rename(t) \in Pending'
          PROVE  Altered(path)'
      <4>1. Alters(Rename(t), path)
        BY <3>2, AltersRename
      <4> QED
        BY <3>2, <4>1 DEF Altered
    <3> QED
      BY <2>1, <3>1, <3>2
  <2>3. CASE ~Alters(step.write, path) /\ Arrived(files, disk, marker, path)
    <3>1. SameFile(path)
      BY <1>1, <2>3, FilesAfterWrite
    <3> QED
      BY <2>1, <2>3, <3>1, SameArrived
  <2>4. CASE ~Alters(step.write, path) /\ Altered(path)
    <3>1. PICK w \in Pending : Alters(w, path)
      BY <2>4 DEF Altered
    <3>2. w \in Pending'
      BY <2>4, <3>1, PendingAfter
    <3> QED
      BY <3>1, <3>2 DEF Altered
  <2> QED
    BY <2>2, <2>3, <2>4 DEF WritesLead
<1> QED
  BY <1>2, <1>3 DEF WritesLead

---------------------------------------------------------------------------------
(* A write and the snapshot *)

\* Two directories that differ in the marker at most make the same record.
LEMMA SameDirectory ==
    ASSUME NEW fs, NEW gs,
           \A path \in Paths \ {MarkerFile} :
               /\ path \in DOMAIN fs <=> path \in DOMAIN gs
               /\ path \in DOMAIN fs => fs[path] = gs[path]
    PROVE  AsDisk(fs) = AsDisk(gs)
<1>1. /\ {CatalogFile, MigrationsFile, IndexesFile} \subseteq Paths \ {MarkerFile}
      /\ \A t \in Tables : {TableFile(t), RewriteFile(t)} \subseteq Paths \ {MarkerFile}
      /\ \A i \in IndexNames : IndexFile(i) \in Paths \ {MarkerFile}
  BY PathKinds DEF Paths, Metadata
<1>2. /\ Held(fs, CatalogFile, EmptyMap) = Held(gs, CatalogFile, EmptyMap)
      /\ Held(fs, MigrationsFile, <<>>) = Held(gs, MigrationsFile, <<>>)
      /\ Held(fs, IndexesFile, EmptyMap) = Held(gs, IndexesFile, EmptyMap)
  BY <1>1 DEF Held
<1>3. {u \in Tables : TableFile(u) \in DOMAIN fs} = {u \in Tables : TableFile(u) \in DOMAIN gs}
      /\ \A t \in Tables : TableFile(t) \in DOMAIN fs => fs[TableFile(t)] = gs[TableFile(t)]
  BY <1>1
<1>4. {x \in IndexNames : IndexFile(x) \in DOMAIN fs} = {x \in IndexNames : IndexFile(x) \in DOMAIN gs}
      /\ \A i \in IndexNames : IndexFile(i) \in DOMAIN fs => fs[IndexFile(i)] = gs[IndexFile(i)]
  BY <1>1
<1>5. {t \in Tables : RewriteFile(t) \in DOMAIN fs} = {t \in Tables : RewriteFile(t) \in DOMAIN gs}
  BY <1>1
<1>6. AsDisk(fs).tables = AsDisk(gs).tables
  BY <1>3 DEF AsDisk
<1>7. AsDisk(fs).index_files = AsDisk(gs).index_files
  BY <1>4 DEF AsDisk
<1> QED
  BY <1>2, <1>5, <1>6, <1>7 DEF AsDisk

LEMMA EmptyDirectory == DirectoryOK(EmptyMap) /\ MarkerFile \notin DOMAIN EmptyMap
  BY DEF DirectoryOK, EmptyMap

\* A write that is about no snapshot leaves it.
LEMMA SnapshotKeptByWrite ==
    ASSUME NEW step, Writing(step), StepFits(step), ~SnapshotWrite(step.write)
    PROVE  snapshot_files' = snapshot_files
<1>1. snapshot_files' = SnapshotAfter(step.write)
  BY DEF Writing
<1>2. step.write[1] \notin {"make snapshot", "copy", "drop snapshot"}
  <2>1. CASE OthersFit(step)
    BY <2>1, EndIs, CopyIs DEF OthersFit, SnapshotWrite
  <2> QED
    BY <2>1 DEF StepFits
<1> QED
  BY <1>1, <1>2 DEF SnapshotAfter

\* The stage of a write of BEGIN tells its kind.
LEMMA BeginStages ==
    ASSUME NEW step, step.stage \in Nat, BeginStep(step)
    PROVE  /\ step.write = MakeSnapshot => step.stage = 4
           /\ step.write[1] # "write" =>
                \/ step.write \in {MakeSnapshot, DropSnapshot} /\ step.stage <= 4
                \/ \E path \in Paths \ {MarkerFile} : step.write = Copy(path) /\ ToBeThere(path)
           /\ step.stage <= 4 => step.write[1] \in {"write", "drop snapshot", "make snapshot"}
           /\ step.stage = 4 => step.write = MakeSnapshot
           /\ step.stage >= 5 =>
                \E path \in Paths \ {MarkerFile} : step.write = Copy(path) /\ ToBeThere(path)
<1>1. MakeSnapshot # DropSnapshot /\ \A path : MakeSnapshot # Copy(path)
  BY CopyIs, SnapshotIs
<1>2. /\ step.stage <= 2 => step.stage <= 4 /\ step.stage # 4 /\ ~(step.stage >= 5)
      /\ step.stage = 3 => step.stage <= 4 /\ step.stage # 4 /\ ~(step.stage >= 5)
      /\ step.stage = 4 => step.stage <= 4 /\ ~(step.stage >= 5)
      /\ step.stage >= 5 => ~(step.stage <= 4) /\ step.stage # 4
  OBVIOUS
<1>3. CASE step.stage <= 2 /\ step.write[1] = "write"
  <2>1. step.write # MakeSnapshot
    BY <1>3, SnapshotIs
  <2> QED
    BY <1>2, <1>3, <2>1
<1>4. CASE step.stage = 3 /\ step.write = DropSnapshot
  BY <1>1, <1>2, <1>4, SnapshotIs
<1>5. CASE step.stage = 4 /\ step.write = MakeSnapshot
  BY <1>2, <1>5, SnapshotIs
<1>6. CASE /\ step.stage >= 5
           /\ \E path \in Paths \ {MarkerFile} : step.write = Copy(path) /\ ToBeThere(path)
  <2>1. step.write # MakeSnapshot
    BY <1>1, <1>6
  <2> QED
    BY <1>2, <1>6, <2>1
<1> QED
  BY <1>3, <1>4, <1>5, <1>6 DEF BeginStep

\* What BEGIN copies is what there is to be.
LEMMA ToBeThereAfterWrite ==
    ASSUME NEW step, Writing(step), BeginLeads, NEW path
    PROVE  ToBeThere(path)' <=> ToBeThere(path)
<1>1. step \in writes /\ files' = FilesAfter(step.write)
  BY DEF Writing
<1>2. CASE step.write[1] = "write"
  <2>1. files' = Put(files, step.write[2], step.write[3])
    BY <1>1, <1>2 DEF FilesAfter
  <2>2. path \in DOMAIN files' <=> path \in DOMAIN files \/ path = step.write[2]
    BY <2>1 DEF Put, Override
  <2> QED
    BY <1>2, <2>2, PendingAfter DEF ToBeThere
<1>3. CASE step.write[1] # "write"
  <2>1. step.write \in {MakeSnapshot, DropSnapshot} \/ \E p : step.write = Copy(p)
    BY <1>1, <1>3 DEF BeginLeads, BeginStep
  <2>2. files' = files
    BY <1>1, <2>1, AfterMake, AfterDrop, AfterCopy
  <2> QED
    BY <1>3, <2>2, PendingAfter DEF ToBeThere
<1> QED
  BY <1>2, <1>3

LEMMA BeginAfterWrite ==
    ASSUME NEW step, Writing(step), StagesOK, \A other \in writes : StepFits(other),
           BeginLeads, DirectoryOK(files), SnapshotOK
    PROVE  BeginLeads' /\ SnapshotOK'
<1>0. \A other \in writes : BeginStep(other)
  BY DEF BeginLeads
<1>1. /\ step \in writes /\ step.stage \in Nat /\ StepFits(step)
      /\ files' = FilesAfter(step.write) /\ snapshot_files' = SnapshotAfter(step.write)
      /\ txn_snapshot' = txn_snapshot /\ disk' = disk /\ txn_dir' = txn_dir
      /\ \A other \in writes' : /\ other \in writes /\ other.stage \in Nat
                                /\ step.stage <= other.stage
      /\ DOMAIN files \subseteq Paths
  BY PendingAfter DEF Writing, StagesOK, vars, memory, DirectoryOK
<1>2. ASSUME NEW other \in writes'
      PROVE  BeginStep(other)'
  <2>1. BeginStep(other)
    BY <1>0, <1>1, <1>2
  <2> QED
    BY <2>1, ToBeThereAfterWrite DEF BeginStep
<1>3. ASSUME MakeSnapshot \in Pending', NEW path \in Paths \ {MarkerFile}, ToBeThere(path)'
      PROVE  Copy(path) \in Pending'
  <2>1. MakeSnapshot \in Pending /\ ToBeThere(path)
    BY <1>3, PendingAfter, ToBeThereAfterWrite
  <2>2. Copy(path) \in Pending
    BY <2>1 DEF BeginLeads
  <2>3. PICK other \in writes' : other.write = MakeSnapshot
    BY <1>3 DEF Pending
  <2>4. other.stage = 4
    BY <1>0, <1>1, <2>3, BeginStages
  <2>5. step.stage <= 4
    BY <1>1, <2>4
  <2>6. step.write # Copy(path)
    <3>1. step.write[1] \in {"write", "drop snapshot", "make snapshot"}
      BY <1>0, <1>1, <2>5, BeginStages
    <3> QED
      BY <3>1, CopyIs
  <2> QED
    BY <2>2, <2>6, PendingAfter
<1>4. ASSUME MakeSnapshot \notin Pending', step.write = MakeSnapshot
      PROVE  /\ snapshot_files' # NoSnapshot /\ DOMAIN snapshot_files' \subseteq DOMAIN files'
             /\ \A other \in writes' : other.stage >= 5
             /\ \A path \in Copyable(files') :
                  \/ Copy(path) \in Pending'
                  \/ path \in DOMAIN snapshot_files' /\ snapshot_files'[path] = files'[path]
             /\ SnapshotOK'
  <2>1. files' = files /\ snapshot_files' = EmptyMap
    BY <1>1, <1>4, AfterMake
  <2>2. EmptyMap # NoSnapshot /\ DOMAIN EmptyMap = {} /\ SnapshotOK'
    BY <2>1, EmptyDirectory, DirectoriesAre DEF SnapshotOK, EmptyMap
  <2>3. step.stage = 4
    BY <1>0, <1>1, <1>4, BeginStages
  <2>4. ASSUME NEW other \in writes'
        PROVE  other.stage >= 5
    <3>1. other.write # MakeSnapshot /\ other.stage >= 4
      BY <1>1, <1>4, <2>3 DEF Pending
    <3>2. other.stage # 4
      BY <1>0, <1>1, <3>1, BeginStages
    <3> QED
      BY <1>1, <3>1, <3>2
  <2>5. ASSUME NEW path \in Copyable(files)
        PROVE  Copy(path) \in Pending'
    <3>1. path \in Paths \ {MarkerFile} /\ ToBeThere(path)
      BY <1>1 DEF Copyable, ToBeThere
    <3>2. MakeSnapshot \in Pending
      BY <1>4, PendingAfter
    <3>3. Copy(path) \in Pending
      BY <3>1, <3>2 DEF BeginLeads
    <3>4. Copy(path) # MakeSnapshot
      BY CopyIs, SnapshotIs
    <3> QED
      BY <1>4, <3>3, <3>4, PendingAfter
  <2> QED
    BY <2>1, <2>2, <2>4, <2>5
<1>5. ASSUME MakeSnapshot \notin Pending', step.write # MakeSnapshot
      PROVE  /\ snapshot_files' # NoSnapshot /\ DOMAIN snapshot_files' \subseteq DOMAIN files'
             /\ \A other \in writes' : other.stage >= 5
             /\ \A path \in Copyable(files') :
                  \/ Copy(path) \in Pending'
                  \/ path \in DOMAIN snapshot_files' /\ snapshot_files'[path] = files'[path]
             /\ SnapshotOK'
  <2>1. MakeSnapshot \notin Pending
    BY <1>5, PendingAfter
  <2>2. /\ snapshot_files # NoSnapshot /\ DOMAIN snapshot_files \subseteq DOMAIN files
        /\ \A other \in writes : other.stage >= 5
        /\ \A path \in Copyable(files) :
            \/ Copy(path) \in Pending
            \/ path \in DOMAIN snapshot_files /\ snapshot_files[path] = files[path]
    BY <2>1 DEF BeginLeads
  <2>3. \A other \in writes :
            \E path \in Paths \ {MarkerFile} : other.write = Copy(path) /\ ToBeThere(path)
    <3>1. ASSUME NEW other \in writes
          PROVE  \E path \in Paths \ {MarkerFile} : other.write = Copy(path) /\ ToBeThere(path)
      <4>1. other.stage >= 5 /\ other.stage \in Nat
        BY <2>2 DEF StagesOK
      <4> QED
        BY <1>0, <4>1, BeginStages
    <3> QED
      BY <3>1
  <2>4. PICK path \in Paths \ {MarkerFile} : step.write = Copy(path) /\ ToBeThere(path)
    BY <1>1, <2>3
  <2>5. path \in DOMAIN files
    BY <2>3, <2>4, CopyIs DEF ToBeThere, Pending
  <2>6. files' = files /\ snapshot_files' = Put(snapshot_files, path, files[path])
    BY <1>1, <2>4, AfterCopy
  <2>7. DirectoryOK(snapshot_files) /\ MarkerFile \notin DOMAIN snapshot_files
    BY <2>2 DEF SnapshotOK
  <2>8. ContentOK(path, files[path])
    BY <2>5 DEF DirectoryOK
  <2>9. DirectoryOK(snapshot_files')
    BY <2>4, <2>6, <2>7, <2>8, PutDirectory
  <2>10. /\ DOMAIN snapshot_files' = DOMAIN snapshot_files \cup {path}
         /\ snapshot_files'[path] = files[path]
         /\ \A p \in DOMAIN snapshot_files : p # path => snapshot_files'[p] = snapshot_files[p]
    BY <2>6 DEF Put, Override
  <2>11. snapshot_files' # NoSnapshot /\ SnapshotOK'
    BY <2>4, <2>7, <2>9, <2>10, DirectoriesAre DEF SnapshotOK
  <2>12. ASSUME NEW p \in Copyable(files)
         PROVE  \/ Copy(p) \in Pending'
                \/ p \in DOMAIN snapshot_files' /\ snapshot_files'[p] = files[p]
    <3>1. CASE p = path
      BY <2>10, <3>1
    <3>2. CASE p # path
      <4>1. Copy(p) # step.write
        BY <2>4, <3>2, CopyIs
      <4> QED
        BY <2>2, <2>10, <3>2, <4>1, PendingAfter
    <3> QED
      BY <3>1, <3>2
  <2> QED
    BY <1>1, <2>2, <2>5, <2>6, <2>10, <2>11, <2>12
<1>6. SnapshotOK'
  <2>1. CASE MakeSnapshot \in Pending'
    <3>1. PICK other \in writes' : other.write = MakeSnapshot
      BY <2>1 DEF Pending
    <3>2. step.stage <= 4
      <4>1. other.stage = 4
        BY <1>0, <1>1, <3>1, BeginStages
      <4> QED
        BY <1>1, <4>1
    <3>3. CASE step.write = DropSnapshot
      BY <1>1, <3>3, AfterDrop DEF SnapshotOK
    <3>4. CASE step.write = MakeSnapshot
      BY <1>1, <3>4, AfterMake, EmptyDirectory DEF SnapshotOK
    <3>5. CASE step.write[1] = "write"
      <4>1. snapshot_files' = snapshot_files
        BY <1>1, <3>5 DEF SnapshotAfter
      <4> QED
        BY <4>1 DEF SnapshotOK
    <3>6. step.write \in {MakeSnapshot, DropSnapshot} \/ step.write[1] = "write"
      <4>1. step.write[1] \in {"write", "drop snapshot", "make snapshot"}
        BY <1>0, <1>1, <3>2, BeginStages
      <4> QED
        BY <1>0, <1>1, <4>1, BeginStages, CopyIs
    <3> QED
      BY <3>3, <3>4, <3>5, <3>6
  <2> QED
    BY <1>4, <1>5, <2>1
<1> QED
  BY <1>1, <1>2, <1>3, <1>4, <1>5, <1>6 DEF BeginLeads

\* When all is written, every path has arrived.
LEMMA AllWritten ==
    ASSUME WritesLead, writes = {}, DirectoryOK(files), TypeOK
    PROVE  AsDisk(files) = disk /\ marker = (MarkerFile \in DOMAIN files)
<1>1. \A path \in Paths : Arrived(files, disk, marker, path)
  BY DEF WritesLead, Altered, Pending
<1> QED
  BY <1>1, AllArrived DEF TypeOK

\* A finished copy is the snapshot that BEGIN promises.
LEMMA BeginEnds ==
    ASSUME BeginLeads', WritesLead', writes' = {}, DirectoryOK(files'), TypeOK'
    PROVE  txn_snapshot' = AsSnapshot(snapshot_files') /\ snapshot_files' # NoSnapshot
<1>1. MakeSnapshot \notin Pending' /\ (\A path : Copy(path) \notin Pending')
      /\ \A w : w \notin Pending'
  BY DEF Pending
<1>2. /\ snapshot_files' # NoSnapshot /\ DOMAIN snapshot_files' \subseteq DOMAIN files'
      /\ \A path \in Copyable(files') :
            path \in DOMAIN snapshot_files' /\ snapshot_files'[path] = files'[path]
      /\ txn_snapshot' = disk'
  BY <1>1 DEF BeginLeads
<1>3. AsDisk(snapshot_files') = AsDisk(files')
  BY <1>2, SameDirectory DEF Copyable
<1>4. \A path \in Paths : Arrived(files', disk', marker', path)
  BY <1>1 DEF WritesLead, Altered
<1>5. AsDisk(files') = disk'
  BY <1>4, AllArrived DEF TypeOK
<1> QED
  BY <1>2, <1>3, <1>5 DEF AsSnapshot

LEMMA SnapshotAfterWrite ==
    ASSUME NEW step, Writing(step), StagesOK, WritesLead, SnapshotLeads,
           DirectoryOK(files), SnapshotOK, TypeOK
    PROVE  SnapshotOK' /\ SnapshotLeads'
<1>1. /\ step \in writes /\ \A other \in writes : StepFits(other)
      /\ snapshot_files' = SnapshotAfter(step.write)
      /\ txn_snapshot' = txn_snapshot /\ txn_dir' = txn_dir /\ disk' = disk /\ marker' = marker
      /\ call' = IF writes' = {} THEN NoCall ELSE call
      /\ IsFiles(disk)
  BY DEF Writing, WritesLead, vars, memory, TypeOK
<1>2. CASE call.name = "begin"
  <2>1. BeginLeads' /\ SnapshotOK'
    BY <1>1, <1>2, BeginAfterWrite DEF SnapshotLeads
  <2>2. WritesLead' /\ DirectoryOK(files')
    BY <1>1, LeadAfterWrite, FilesAfterWrite
  <2>3. TypeOK'
    BY DEF Writing, vars, memory, TypeOK
  <2>4. ASSUME writes' = {}
        PROVE  SnapshotLeads'
    <3>1. txn_snapshot' = AsSnapshot(snapshot_files') /\ snapshot_files' # NoSnapshot
      BY <2>1, <2>2, <2>3, <2>4, BeginEnds
    <3>2. Pending' = {}
      BY <2>4 DEF Pending
    <3> QED
      BY <2>4, <3>1, <3>2 DEF SnapshotLeads
  <2>5. ASSUME writes' # {}
        PROVE  SnapshotLeads'
    BY <1>1, <1>2, <2>1, <2>5 DEF SnapshotLeads
  <2> QED
    BY <2>1, <2>4, <2>5
<1>3. CASE call.name # "begin"
  <2>1. /\ \A w \in Pending : SnapshotWrite(w) => w = DropSnapshot
        /\ DropSnapshot \in Pending => txn_snapshot = NoSnapshot /\ ~txn_dir
        /\ DropSnapshot \notin Pending =>
              txn_snapshot = AsSnapshot(snapshot_files) /\ (txn_dir => snapshot_files # NoSnapshot)
    BY <1>3 DEF SnapshotLeads
  <2>2. writes' # {} => call'.name # "begin"
    BY <1>1, <1>3
  <2>3. CASE step.write = DropSnapshot
    <3>1. snapshot_files' = NoSnapshot /\ txn_snapshot = NoSnapshot /\ ~txn_dir
      BY <1>1, <2>1, <2>3, AfterDrop, PendingAfter
    <3>2. SnapshotLeads'
      BY <1>1, <2>1, <2>2, <3>1, PendingAfter DEF SnapshotLeads, AsSnapshot
    <3> QED
      BY <3>1, <3>2 DEF SnapshotOK
  <2>4. CASE step.write # DropSnapshot
    <3>1. snapshot_files' = snapshot_files
      BY <1>1, <2>1, <2>4, PendingAfter, SnapshotKeptByWrite
    <3>2. DropSnapshot \in Pending <=> DropSnapshot \in Pending'
      BY <2>4, PendingAfter
    <3>3. SnapshotLeads'
      BY <1>1, <2>1, <2>2, <3>1, <3>2, PendingAfter DEF SnapshotLeads, AsSnapshot
    <3> QED
      BY <3>1, <3>3 DEF SnapshotOK
  <2> QED
    BY <2>3, <2>4
<1> QED
  BY <1>2, <1>3

\* What was there before the call stays as long as it is needed.
LEMMA BeforeAfterWrite ==
    ASSUME NEW step, Writing(step), StagesOK, WritesLead, BeforeKept,
           DirectoryOK(files), IsFiles(disk), writes' # {}
    PROVE  BeforeKept'
<1>1. /\ step \in writes /\ \A other \in writes : StepFits(other)
      /\ disk' = disk /\ call' = call
      /\ \A other \in writes' : other \in writes /\ other # step /\ other.stage \in Nat
                                /\ step.stage <= other.stage /\ ~(other.stage < step.stage)
  <2>1. ASSUME NEW other \in writes, step.stage <= other.stage
        PROVE  other.stage \in Nat /\ ~(other.stage < step.stage)
    BY <2>1 DEF StagesOK, Writing
  <2> QED
    BY <2>1, PendingAfter DEF Writing, WritesLead, vars
<1>2. AsDisk(files').migrations = call'.before.migrations
  <2>1. PICK other \in writes' : TRUE
    OBVIOUS
  <2>2. ~Alters(step.write, MigrationsFile)
    BY <1>1, <2>1 DEF BeforeKept
  <2>3. MigrationsFile \in Paths /\ \A t : MigrationsFile # TableFile(t)
    BY PathKinds DEF Paths, Metadata
  <2>4. SameFile(MigrationsFile)
    BY <1>1, <2>2, <2>3, FilesAfterWrite
  <2>5. Held(files', MigrationsFile, <<>>) = Held(files, MigrationsFile, <<>>)
    BY <2>3, <2>4 DEF SameFile, Held
  <2>6. AsDisk(files').migrations = AsDisk(files).migrations
    BY <2>5, DiskParts
  <2> QED
    BY <1>1, <2>6 DEF BeforeKept
<1>3. ASSUME NEW s \in writes', NEW t \in Tables, RowsKept(s, t)
      PROVE  RowsKept(s, t)'
  <2>1. ~Alters(step.write, TableFile(t))
    BY <1>1, <1>3 DEF RowsKept
  <2>2. SameFile(TableFile(t))
    BY <1>1, <2>1, PathsAre, FilesAfterWrite
  <2>3. RowsIn(AsDisk(files').tables, t) = RowsIn(AsDisk(files).tables, t)
    BY <2>2, SameRows
  <2> QED
    BY <1>1, <1>3, <2>3 DEF RowsKept
<1>4. \A w \in Pending' : w \in Pending
  BY PendingAfter
<1>5. \A t : Aside(t)' = Aside(t)
  BY <1>1 DEF Aside
<1>6. ASSUME NEW s \in writes', NEW t \in Tables,
             \/ Alters(s.write, TableFile(t)) /\ s.write # Rename(t)
             \/ t \in DOMAIN disk'.tables /\ s.write = Aside(t)' /\ Rename(t) \in Pending'
      PROVE  RowsKept(s, t)'
  <2>1. \/ Alters(s.write, TableFile(t)) /\ s.write # Rename(t)
        \/ t \in DOMAIN disk.tables /\ s.write = Aside(t) /\ Rename(t) \in Pending
    BY <1>1, <1>4, <1>5, <1>6
  <2>2. RowsKept(s, t)
    BY <1>1, <2>1 DEF BeforeKept
  <2> QED
    BY <1>3, <2>2
<1>7. \A s, other \in writes' :
          Alters(s.write, MigrationsFile) => other = s \/ other.stage < s.stage
  BY <1>1 DEF BeforeKept
<1> QED
  BY <1>2, <1>6, <1>7 DEF BeforeKept

\* One write of any call but ROLLBACK.
LEMMA WriteSafe ==
    ASSUME NEW step, Writing(step), CrashInv, ~RollingBack
    PROVE  CrashInv'
<1>1. /\ StagesOK /\ WritesLead /\ SnapshotLeads /\ BeforeKept /\ SnapshotOK
      /\ DirectoryOK(files) /\ TypeOK /\ IsFiles(disk)
      /\ step \in writes /\ call.name # "rollback"
      /\ call' = IF writes' = {} THEN NoCall ELSE call
      /\ \A other \in writes' : other \in writes
      /\ \A other \in writes : StepFits(other)
  BY DEF CrashInv, StagesOK, RollingBack, Writing, TypeOK, WritesLead
<1>2. TypeOK' /\ MetadataSaved' /\ NoOrphanHandle' /\ TxnOfProcess'
  BY DEF CrashInv, Writing, vars, memory, TypeOK, MetadataSaved, NoOrphanHandle, TxnOfProcess
<1>3. ~RollingBack'
  BY <1>1 DEF RollingBack
<1>4. DirectoryOK(files)' /\ WritesLead'
  BY <1>1, FilesAfterWrite, LeadAfterWrite
<1>5. SnapshotOK' /\ SnapshotLeads'
  BY <1>1, SnapshotAfterWrite
<1>6. writes' # {} => BeforeKept'
  BY <1>1, BeforeAfterWrite
<1>7. \A other \in writes' : other.stage \in Nat
  BY <1>1 DEF StagesOK
<1> QED
  BY <1>2, <1>3, <1>4, <1>5, <1>6, <1>7 DEF CrashInv

---------------------------------------------------------------------------------
(* The writes of ROLLBACK *)

\* The stage of a write of ROLLBACK tells its kind.
LEMMA RollbackStages ==
    ASSUME RollbackLeads, NEW step \in writes
    PROVE  /\ step.write[1] = "remove" => step.stage = 1
           /\ step.write[1] = "restore" => step.stage = 2
           /\ step.write[1] = "drop snapshot" => step = [stage |-> 3, write |-> DropSnapshot]
           /\ \/ step.stage = 1 /\ step.write[1] = "remove"
              \/ step.stage = 2 /\ step.write[1] = "restore"
              \/ step.stage = 3 /\ step = [stage |-> 3, write |-> DropSnapshot]
<1>1. CASE step.stage = 1 /\ \E path \in Paths \ {MarkerFile} : step.write = RemoveFile(path)
  <2>1. step.write[1] = "remove"
    BY <1>1, RemoveIs
  <2> QED
    BY <1>1, <2>1
<1>2. CASE step.stage = 2 /\ \E path \in DOMAIN snapshot_files : step.write = Restore(path)
  <2>1. step.write[1] = "restore"
    BY <1>2, RestoreIs
  <2> QED
    BY <1>2, <2>1
<1>3. CASE step = [stage |-> 3, write |-> DropSnapshot]
  <2>1. step.write[1] = "drop snapshot" /\ step.stage = 3
    BY <1>3, SnapshotIs
  <2> QED
    BY <1>3, <2>1
<1> QED
  BY <1>1, <1>2, <1>3 DEF RollbackLeads, RollbackStep

LEMMA RemoveInRollback ==
    ASSUME NEW step, Writing(step), RollbackLeads, StagesOK, NEW path \in Paths \ {MarkerFile},
           step.write = RemoveFile(path)
    PROVE  RollbackLeads'
<1>1. /\ step \in writes /\ step.stage = 1
      /\ files' = Without(files, {path}) /\ snapshot_files' = snapshot_files
      /\ disk' = disk /\ marker' = marker /\ txn_snapshot' = txn_snapshot /\ txn_dir' = txn_dir
      /\ \A other \in writes' : other \in writes
  <2>1. step \in writes /\ step.write[1] = "remove"
    BY RemoveIs DEF Writing
  <2>2. step.stage = 1
    BY <2>1, RollbackStages
  <2>3. FilesAfter(step.write) = Without(files, {path}) /\ SnapshotAfter(step.write) = snapshot_files
    BY AfterRemove
  <2> QED
    BY <2>1, <2>2, <2>3 DEF Writing, vars, memory
<1>2. /\ DOMAIN files' = DOMAIN files \ {path}
      /\ \A p \in DOMAIN files' : files'[p] = files[p]
  BY <1>1 DEF Without, Restrict
<1>3. DropSnapshot \in Pending'
  <2>1. DropSnapshot # step.write
    BY SnapshotIs, RemoveIs
  <2> QED
    BY <2>1, PendingAfter DEF RollbackLeads
<1>4. ASSUME NEW p \in Copyable(files')
      PROVE  \/ RemoveFile(p) \in Pending'
             \/ p \in DOMAIN snapshot_files' /\ files'[p] = snapshot_files'[p]
  <2>1. p \in Copyable(files) /\ p # path
    BY <1>2 DEF Copyable
  <2>2. RemoveFile(p) # step.write
    BY <2>1, RemoveIs
  <2>3. p \in DOMAIN files'
    BY DEF Copyable
  <2> QED
    BY <1>1, <1>2, <2>1, <2>2, <2>3, PendingAfter DEF RollbackLeads
<1>5. \A p \in DOMAIN snapshot_files : Restore(p) \in Pending'
  <2>1. ASSUME NEW p \in DOMAIN snapshot_files
        PROVE  Restore(p) \in Pending'
    <3>1. Restore(p) \in Pending /\ Restore(p) # step.write
      BY <1>1, RestoreIs, RemoveIs DEF RollbackLeads
    <3> QED
      BY <3>1, PendingAfter
  <2> QED
    BY <2>1
<1>6. marker' = (MarkerFile \in DOMAIN files')
  BY <1>1, <1>2 DEF RollbackLeads
<1>7. \A other \in writes' : RollbackStep(other)'
  BY <1>1 DEF RollbackLeads, RollbackStep
<1> QED
  BY <1>1, <1>3, <1>4, <1>5, <1>6, <1>7 DEF RollbackLeads

LEMMA RestoreInRollback ==
    ASSUME NEW step, Writing(step), RollbackLeads, StagesOK, SnapshotOK,
           NEW path \in DOMAIN snapshot_files, step.write = Restore(path)
    PROVE  RollbackLeads'
<1>1. /\ step \in writes /\ step.stage = 2
      /\ files' = Put(files, path, snapshot_files[path]) /\ snapshot_files' = snapshot_files
      /\ disk' = disk /\ marker' = marker /\ txn_snapshot' = txn_snapshot /\ txn_dir' = txn_dir
      /\ \A other \in writes' : other \in writes
      /\ path # MarkerFile
  <2>1. step \in writes /\ step.write[1] = "restore"
    BY RestoreIs DEF Writing
  <2>2. step.stage = 2
    BY <2>1, RollbackStages
  <2>3. /\ FilesAfter(step.write) = Put(files, path, snapshot_files[path])
        /\ SnapshotAfter(step.write) = snapshot_files
    BY AfterRestore
  <2>4. path # MarkerFile
    BY DEF RollbackLeads, SnapshotOK
  <2> QED
    BY <2>1, <2>2, <2>3, <2>4 DEF Writing, vars, memory
<1>2. /\ DOMAIN files' = DOMAIN files \cup {path} /\ files'[path] = snapshot_files[path]
      /\ \A p \in DOMAIN files : p # path => files'[p] = files[p]
  BY <1>1 DEF Put, Override
<1>3. \A other \in writes : other.stage # 1
  BY <1>1 DEF Writing
<1>4. \A p : RemoveFile(p) \notin Pending
  <2>1. \A other \in writes : other.write[1] # "remove"
    BY <1>3, RollbackStages
  <2> QED
    BY <2>1, RemoveIs DEF Pending
<1>5. DropSnapshot \in Pending'
  <2>1. DropSnapshot # step.write
    BY SnapshotIs, RestoreIs
  <2> QED
    BY <2>1, PendingAfter DEF RollbackLeads
<1>6. ASSUME NEW p \in Copyable(files'), p # path
      PROVE  p \in DOMAIN snapshot_files /\ files'[p] = snapshot_files[p]
  <2>1. p \in Copyable(files)
    BY <1>2, <1>6 DEF Copyable
  <2>2. p \in DOMAIN snapshot_files /\ files[p] = snapshot_files[p]
    BY <1>4, <2>1 DEF RollbackLeads
  <2>3. p \in DOMAIN files
    BY <2>1 DEF Copyable
  <2> QED
    BY <1>2, <1>6, <2>2, <2>3
<1>7. ASSUME NEW p \in DOMAIN snapshot_files
      PROVE  \/ Restore(p) \in Pending'
             \/ p \in DOMAIN files' /\ files'[p] = snapshot_files[p]
  <2>1. CASE p = path
    BY <1>2, <2>1
  <2>2. CASE p # path /\ Restore(p) \in Pending
    <3>1. Restore(p) # step.write
      BY <2>2, RestoreIs
    <3> QED
      BY <2>2, <3>1, PendingAfter
  <2>3. CASE p # path /\ p \in DOMAIN files /\ files[p] = snapshot_files[p]
    BY <1>2, <2>3
  <2> QED
    BY <2>1, <2>2, <2>3 DEF RollbackLeads
<1>8. marker' = (MarkerFile \in DOMAIN files')
  BY <1>1, <1>2 DEF RollbackLeads
<1>9. \A other \in writes' : RollbackStep(other)'
  BY <1>1 DEF RollbackLeads, RollbackStep
<1>10. \A other \in writes' : other.stage # 1
  BY <1>1, <1>3
<1>11. \A p \in Copyable(files') :
          \/ RemoveFile(p) \in Pending'
          \/ p \in DOMAIN snapshot_files' /\ files'[p] = snapshot_files'[p]
  BY <1>1, <1>2, <1>6
<1> QED
  BY <1>1, <1>5, <1>7, <1>8, <1>9, <1>10, <1>11 DEF RollbackLeads

\* The snapshot is removed last: the directory is then what it held.
LEMMA DropInRollback ==
    ASSUME NEW step, Writing(step), RollbackLeads, StagesOK, TypeOK, DirectoryOK(files),
           step.write = DropSnapshot
    PROVE  /\ writes' = {} /\ files' = files /\ snapshot_files' = NoSnapshot
           /\ AsDisk(files) = disk /\ WritesLead'
<1>1. /\ step \in writes /\ step = [stage |-> 3, write |-> DropSnapshot]
      /\ files' = files /\ snapshot_files' = NoSnapshot
      /\ disk' = disk /\ marker' = marker
  BY RollbackStages, SnapshotIs, AfterDrop DEF Writing, vars
<1>2. ASSUME NEW other \in writes
      PROVE  other = step
  <2>1. step.stage <= other.stage /\ step.stage = 3
    BY <1>1 DEF Writing
  <2>2. other.stage # 1 /\ other.stage # 2
    BY <2>1
  <2> QED
    BY <1>1, <2>2, RollbackStages
<1>3. writes' = {}
  BY <1>2 DEF Writing
<1>4. \A p : RemoveFile(p) \notin Pending /\ Restore(p) \notin Pending
  BY <1>1, <1>2, SnapshotIs, RemoveIs, RestoreIs DEF Pending
<1>5. /\ \A p \in Copyable(files) : p \in DOMAIN snapshot_files /\ files[p] = snapshot_files[p]
      /\ \A p \in DOMAIN snapshot_files : p \in DOMAIN files /\ files[p] = snapshot_files[p]
  BY <1>4 DEF RollbackLeads
<1>6. AsDisk(files) = AsDisk(snapshot_files)
  BY <1>5, SameDirectory DEF Copyable
<1>7. AsDisk(files) = disk /\ marker = (MarkerFile \in DOMAIN files)
  BY <1>6 DEF RollbackLeads
<1>8. \A path \in Paths : Arrived(files, disk, marker, path)
  BY <1>7, AllArrived DEF TypeOK
<1> QED
  BY <1>1, <1>3, <1>7, <1>8 DEF WritesLead

LEMMA RollbackWriteSafe ==
    ASSUME NEW step, Writing(step), CrashInv, RollingBack
    PROVE  CrashInv'
<1>1. /\ StagesOK /\ RollbackLeads /\ SnapshotOK /\ DirectoryOK(files) /\ TypeOK
      /\ step \in writes /\ call.name = "rollback"
      /\ call' = IF writes' = {} THEN NoCall ELSE call
      /\ \A other \in writes' : other \in writes
      /\ files' = FilesAfter(step.write) /\ snapshot_files' = SnapshotAfter(step.write)
      /\ txn_snapshot' = txn_snapshot /\ txn_dir' = txn_dir
  BY DEF CrashInv, StagesOK, RollingBack, Writing, vars, memory
<1>2. TypeOK' /\ MetadataSaved' /\ NoOrphanHandle' /\ TxnOfProcess'
  BY DEF CrashInv, Writing, vars, memory, TypeOK, MetadataSaved, NoOrphanHandle, TxnOfProcess
<1>3. \A other \in writes' : other.stage \in Nat
  BY <1>1 DEF StagesOK
<1>4. ASSUME RollbackLeads', DirectoryOK(files'), snapshot_files' = snapshot_files
      PROVE  CrashInv'
  <2>1. writes' # {}
    BY <1>4 DEF RollbackLeads, Pending
  <2>2. RollingBack'
    BY <1>1, <2>1 DEF RollingBack
  <2>3. SnapshotOK'
    BY <1>1, <1>4 DEF SnapshotOK
  <2> QED
    BY <1>2, <1>3, <1>4, <2>2, <2>3 DEF CrashInv
<1>5. ASSUME NEW path \in Paths \ {MarkerFile}, step.write = RemoveFile(path)
      PROVE  CrashInv'
  <2>1. files' = Without(files, {path}) /\ snapshot_files' = snapshot_files
    BY <1>1, <1>5, AfterRemove
  <2>2. DirectoryOK(files')
    BY <1>1, <2>1, WithoutDirectory
  <2> QED
    BY <1>1, <1>4, <1>5, <2>1, <2>2, RemoveInRollback
<1>6. ASSUME NEW path \in DOMAIN snapshot_files, step.write = Restore(path)
      PROVE  CrashInv'
  <2>1. files' = Put(files, path, snapshot_files[path]) /\ snapshot_files' = snapshot_files
    BY <1>1, <1>6, AfterRestore
  <2>2. path \in Paths /\ ContentOK(path, snapshot_files[path])
    BY <1>1 DEF SnapshotOK, RollbackLeads, DirectoryOK
  <2>3. DirectoryOK(files')
    BY <1>1, <2>1, <2>2, PutDirectory
  <2> QED
    BY <1>1, <1>4, <1>6, <2>1, <2>3, RestoreInRollback
<1>7. CASE step.write = DropSnapshot
  <2>1. writes' = {} /\ files' = files /\ snapshot_files' = NoSnapshot /\ WritesLead'
    BY <1>1, <1>7, DropInRollback
  <2>2. SnapshotLeads'
    BY <1>1, <2>1 DEF SnapshotLeads, Pending, AsSnapshot, RollbackLeads
  <2> QED
    BY <1>1, <1>2, <2>1, <2>2 DEF CrashInv, RollingBack, SnapshotOK
<1> QED
  BY <1>1, <1>5, <1>6, <1>7 DEF RollbackLeads, RollbackStep

\* Any write of any call.
LEMMA WriteStepSafe == CrashInv /\ WriteStep => CrashInv'
<1> SUFFICES ASSUME CrashInv, WriteStep PROVE CrashInv'
  OBVIOUS
<1>1. PICK step : Writing(step)
  BY DEF WriteStep, Writing
<1> QED
  BY <1>1, WriteSafe, RollbackWriteSafe

---------------------------------------------------------------------------------
(* What the invariant says *)

LEMMA InvWritesAddUp == CrashInv => WritesAddUp
<1> SUFFICES ASSUME CrashInv, writes = {} PROVE WritesAddUp
  BY DEF WritesAddUp, Settled
<1>1. /\ WritesLead /\ SnapshotLeads /\ DirectoryOK(files) /\ TypeOK /\ Pending = {}
  BY DEF CrashInv, RollingBack, Pending
<1> QED
  BY <1>1, AllWritten DEF WritesAddUp, SnapshotLeads

LEMMA InvRollbackCanBeRedone == CrashInv => RollbackCanBeRedone
  BY DEF CrashInv, RollingBack, RollbackLeads, RollbackCanBeRedone, Settled, AsSnapshot

LEMMA InvRecordedChangesAreWhole == CrashInv => RecordedChangesAreWhole
  BY DEF CrashInv, RollingBack, BeforeKept, RecordedChangesAreWhole, Settled

---------------------------------------------------------------------------------
(* A kill *)

LEMMA KillSafe == CrashInv /\ Kill => CrashInv'
<1> SUFFICES ASSUME CrashInv, Kill PROVE CrashInv'
  OBVIOUS
<1>1. /\ DirectoryOK(files) /\ SnapshotOK /\ TypeOK
      /\ files' = files /\ snapshot_files' = snapshot_files /\ writes' = {}
      /\ disk' = AsDisk(files) /\ marker' = (MarkerFile \in DOMAIN files)
      /\ txn_snapshot' = AsSnapshot(snapshot_files) /\ txn_dir' = FALSE /\ running' = FALSE
  BY DEF CrashInv, Kill, Forget
<1>2. IsFiles(disk') /\ marker' \in BOOLEAN
  BY <1>1, AsDiskTyped
<1>3. txn_snapshot' # NoSnapshot => IsFiles(txn_snapshot')
  BY <1>1, AsDiskTyped DEF AsSnapshot, SnapshotOK
<1>4. TypeOK'
  <2>1. Forget /\ dirty_indexes' = {} /\ indexes_clean' = FALSE
    BY DEF Kill
  <2>2. <<>> \in Seq(Migration)
    OBVIOUS
  <2> QED
    BY <1>1, <1>2, <1>3, <2>1, <2>2, EmptyIsMap DEF Forget, TypeOK, AllClosed, Handles
<1>5. MetadataSaved' /\ NoOrphanHandle' /\ TxnOfProcess'
  BY <1>1 DEF MetadataSaved, NoOrphanHandle, TxnOfProcess, Kill, Forget, AllClosed
<1>6. \A path \in Paths : Arrived(files, disk', marker', path)
  BY <1>1, <1>2, AllArrived
<1>7. Pending' = {} /\ ~RollingBack'
  BY <1>1 DEF Pending, RollingBack
<1>8. WritesLead' /\ SnapshotLeads'
  BY <1>1, <1>6, <1>7 DEF WritesLead, SnapshotLeads, AsSnapshot
<1>9. DirectoryOK(files') /\ SnapshotOK'
  BY <1>1 DEF SnapshotOK
<1> QED
  BY <1>1, <1>4, <1>5, <1>7, <1>8, <1>9 DEF CrashInv

LEMMA CrashInitSafe == CrashInit => CrashInv
<1> SUFFICES ASSUME CrashInit PROVE CrashInv
  OBVIOUS
<1>1. /\ writes = {} /\ files = EmptyMap /\ snapshot_files = NoSnapshot
      /\ disk = EmptyFiles /\ marker = FALSE /\ txn_snapshot = NoSnapshot
      /\ txn_dir = FALSE /\ running = FALSE /\ table_files = AllClosed
  BY DEF CrashInit, Init
<1>2. TypeOK /\ MetadataSaved /\ NoOrphanHandle /\ TxnOfProcess
  BY <1>1, InitTypeOK DEF CrashInit, MetadataSaved, NoOrphanHandle, TxnOfProcess, AllClosed
<1>3. DirectoryOK(files)
  BY <1>1, EmptyDirectory
<1>4. AsDisk(files) = disk /\ MarkerFile \notin DOMAIN files
  <2>1. DOMAIN files = {}
    BY <1>1 DEF EmptyMap
  <2>2. AsDisk(files).tables = EmptyMap /\ AsDisk(files).index_files = EmptyMap
        /\ AsDisk(files).tmp_rewrite = {}
    BY <2>1 DEF AsDisk, EmptyMap
  <2> QED
    BY <1>1, <2>1, <2>2 DEF AsDisk, EmptyFiles, Held
<1>5. \A path \in Paths : Arrived(files, disk, marker, path)
  BY <1>1, <1>2, <1>3, <1>4, AllArrived DEF TypeOK
<1>6. Pending = {} /\ ~RollingBack
  BY <1>1 DEF Pending, RollingBack
<1>7. WritesLead /\ SnapshotLeads /\ SnapshotOK
  BY <1>1, <1>5, <1>6 DEF WritesLead, SnapshotLeads, SnapshotOK, AsSnapshot
<1> QED
  BY <1>1, <1>2, <1>3, <1>6, <1>7 DEF CrashInv

---------------------------------------------------------------------------------
(* A call starts *)

\* Whatever a call does, the metadata in memory are those it saves, and no
\* handle is left on a file that is gone.
LEMMA SavedByNext ==
    ASSUME TypeOK, MetadataSaved, NoOrphanHandle, TxnOfProcess, [Next]_vars
    PROVE  TypeOK' /\ MetadataSaved' /\ NoOrphanHandle' /\ TxnOfProcess'
<1> DEFINE Saved == MetadataSaved' /\ NoOrphanHandle' /\ TxnOfProcess'
<1>0. /\ disk = [catalog |-> disk.catalog, migrations |-> disk.migrations,
                 indexes |-> disk.indexes, tables |-> disk.tables,
                 index_files |-> disk.index_files, tmp_rewrite |-> disk.tmp_rewrite]
      /\ table_files \in [Tables -> Handles]
  BY DEF TypeOK, IsFiles
<1>1. ASSUME Open \/ Close \/ Exit PROVE Saved
  BY <1>1 DEF Open, Close, Exit, Forget, AllClosed, MetadataSaved, NoOrphanHandle, TxnOfProcess
<1>2. ASSUME BeginTransaction \/ CommitTransaction \/ RollbackTransaction PROVE Saved
  BY <1>0, <1>2 DEF BeginTransaction, CommitTransaction, RollbackTransaction, FlushIndexes,
     AllClosed, MetadataSaved, NoOrphanHandle, TxnOfProcess
<1>3. ASSUME NEW i \in IndexNames, DropIndex(i) PROVE Saved
  BY <1>0, <1>3 DEF DropIndex, MetadataSaved, NoOrphanHandle, TxnOfProcess
<1>4. ASSUME NEW t \in Tables
      PROVE  /\ \A u \in Tables : CloseTableFile(table_files, t)[u] # "orphan"
             /\ \A u \in Tables : Replaced(CloseTableFile(table_files, t), t)[u] # "orphan"
  BY <1>0 DEF CloseTableFile, Replaced, NoOrphanHandle, TxnOfProcess
<1>5. ASSUME NEW t \in Tables, NEW columns, CreateTable(t, columns) PROVE Saved
  BY <1>0, <1>4, <1>5 DEF CreateTable, MetadataSaved, NoOrphanHandle, TxnOfProcess
<1>6. ASSUME NEW t \in Tables, DropTable(t) PROVE Saved
  BY <1>0, <1>4, <1>6 DEF DropTable, MetadataSaved, NoOrphanHandle, TxnOfProcess
<1>7. ASSUME NEW t \in Tables, UpdateFails(t) PROVE Saved
  BY <1>0, <1>4, <1>7 DEF UpdateFails, MetadataSaved, NoOrphanHandle, TxnOfProcess
<1>8. ASSUME NEW t \in Tables, NEW c, NEW i, CreateIndex(i, t, c) PROVE Saved
  BY <1>0, <1>4, <1>8 DEF CreateIndex, WriteIndexMaps, MetadataSaved, NoOrphanHandle, TxnOfProcess
<1>9. ASSUME NEW t \in Tables, NEW c, NEW default, AddColumn(t, c, default) PROVE Saved
  BY <1>0, <1>4, <1>9 DEF AddColumn, ReplaceRows, WriteIndexMaps, MetadataSaved, NoOrphanHandle, TxnOfProcess
<1>10. ASSUME NEW t \in Tables, NEW c, DropColumn(t, c) PROVE Saved
  BY <1>0, <1>4, <1>10 DEF DropColumn, ReplaceRows, WriteIndexMaps, MetadataSaved, NoOrphanHandle, TxnOfProcess
<1>11. ASSUME NEW t \in Tables, NEW c, NEW new, RenameColumn(t, c, new) PROVE Saved
  BY <1>0, <1>4, <1>11 DEF RenameColumn, ReplaceRows, WriteIndexMaps, MetadataSaved, NoOrphanHandle, TxnOfProcess
<1>12. ASSUME NEW t \in Tables, NEW c, CacheUniqueValues(t, c) PROVE Saved
  BY <1>12 DEF CacheUniqueValues, MetadataSaved, NoOrphanHandle, TxnOfProcess
<1>13. ASSUME NEW t \in Tables, NEW data, Insert(t, data) PROVE Saved
  <2>1. \A u \in Tables : table_files'[u] # "orphan"
    BY <1>0, <1>13 DEF Insert, NoOrphanHandle, TxnOfProcess
  <2>2. /\ catalog' = disk'.catalog /\ disk'.migrations = disk.migrations
        /\ disk'.indexes = disk.indexes
        /\ migrations' = migrations /\ index_catalog' = index_catalog /\ running' = running
        /\ txn_dir' = txn_dir
    BY <1>0, <1>13 DEF Insert
  <2> QED
    BY <2>1, <2>2 DEF MetadataSaved, NoOrphanHandle, TxnOfProcess
<1>14. ASSUME NEW t \in Tables, NEW where, NEW assignments, Update(t, where, assignments) PROVE Saved
  BY <1>0, <1>4, <1>14 DEF Update, ReplaceRows, WriteIndexMaps, MetadataSaved, NoOrphanHandle, TxnOfProcess
<1>15. ASSUME NEW t \in Tables, NEW where, Delete(t, where) PROVE Saved
  <2>1. PICK rows : /\ ReplaceRows(t, rows, index_catalog, index_maps, dirty_indexes)
                    /\ disk' = [disk EXCEPT !.tables = Put(@, t, rows), !.tmp_rewrite = @ \ {t}]
    BY <1>15 DEF Delete
  <2> QED
    BY <1>0, <1>4, <1>15, <2>1 DEF Delete, ReplaceRows, MetadataSaved, NoOrphanHandle, TxnOfProcess
<1>16. ASSUME UNCHANGED vars PROVE Saved
  BY <1>16 DEF vars, memory, MetadataSaved, NoOrphanHandle, TxnOfProcess
<1>17. TypeOK'
  BY TypeOKInductive
<1>18. Saved
  BY <1>1, <1>2, <1>3, <1>5, <1>6, <1>7, <1>8, <1>9, <1>10, <1>11, <1>12, <1>13, <1>14, <1>15, <1>16
  DEF Next
<1> QED
  BY <1>17, <1>18

LEMMA BeforeCall ==
    ASSUME CrashInv, writes = {}
    PROVE  /\ TypeOK /\ MetadataSaved /\ NoOrphanHandle /\ TxnOfProcess /\ DirectoryOK(files) /\ SnapshotOK
           /\ AsDisk(files) = disk /\ marker = (MarkerFile \in DOMAIN files)
           /\ txn_snapshot = AsSnapshot(snapshot_files)
           /\ txn_dir => snapshot_files # NoSnapshot
           /\ \A path \in Paths : Arrived(files, disk, marker, path)
<1>1. /\ WritesLead /\ SnapshotLeads /\ DirectoryOK(files) /\ TypeOK /\ Pending = {}
      /\ MetadataSaved /\ NoOrphanHandle /\ TxnOfProcess /\ SnapshotOK
  BY DEF CrashInv, RollingBack, Pending
<1>2. AsDisk(files) = disk /\ marker = (MarkerFile \in DOMAIN files)
  BY <1>1, AllWritten
<1>3. \A path \in Paths : Arrived(files, disk, marker, path)
  BY <1>1 DEF WritesLead, Altered
<1> QED
  BY <1>1, <1>2, <1>3 DEF SnapshotLeads

\* What a call has to have for the invariant to hold when it starts.
LEMMA CallSafe ==
    ASSUME CrashInv, NEW name, NEW todo, Begins(name, todo), name # "rollback",
           TypeOK', MetadataSaved', NoOrphanHandle', TxnOfProcess', SnapshotLeads',
           \A step \in todo : step.stage \in Nat /\ StepFits(step)',
           \A path \in Paths : Arrived(files, disk', marker', path) \/ Altered(path)',
           \A step, other \in todo :
               Alters(step.write, MigrationsFile) => other = step \/ other.stage < step.stage,
           \A step, other \in todo : \A t \in Tables :
               /\ \/ Alters(step.write, TableFile(t)) /\ step.write # Rename(t)
                  \/ step.write = Aside(t)' /\ Rename(t) \in Pending'
               /\ Alters(other.write, TableFile(t))
               => other = step \/ step.stage < other.stage
    PROVE  CrashInv'
<1>1. /\ writes = {} /\ writes' = todo /\ files' = files /\ snapshot_files' = snapshot_files
      /\ todo # {} => call' = [name |-> name, before |-> disk]
  BY DEF Begins
<1>2. AsDisk(files) = disk /\ DirectoryOK(files) /\ SnapshotOK
  BY <1>1, BeforeCall
<1>3. ~RollingBack'
  BY <1>1 DEF RollingBack
<1>4. WritesLead'
  BY <1>1 DEF WritesLead
<1>5. ASSUME writes' # {} PROVE BeforeKept'
  <2>1. call'.before = disk
    BY <1>1, <1>5
  <2>2. AsDisk(files').migrations = call'.before.migrations
    BY <1>1, <1>2, <2>1
  <2>3. ASSUME NEW step \in writes', NEW t \in Tables,
               \/ Alters(step.write, TableFile(t)) /\ step.write # Rename(t)
               \/ t \in DOMAIN disk'.tables /\ step.write = Aside(t)' /\ Rename(t) \in Pending'
        PROVE  RowsKept(step, t)'
    <3>1. RowsIn(AsDisk(files').tables, t) = RowsIn(call'.before.tables, t)
      BY <1>1, <1>2, <2>1
    <3> QED
      BY <1>1, <2>3, <3>1 DEF RowsKept
  <2> QED
    BY <1>1, <2>2, <2>3 DEF BeforeKept
<1> QED
  BY <1>1, <1>2, <1>3, <1>4, <1>5 DEF CrashInv, SnapshotOK

\* What the call leaves of `g`, at `k`.
SameAt(f, g, k) ==
    /\ k \in DOMAIN f <=> k \in DOMAIN g
    /\ k \in DOMAIN g => f[k] = g[k]

\* A path is where the call leads unless the call changes it: then there must
\* be a write that alters it.
LEMMA ArriveOrAltered ==
    ASSUME CrashInv, writes = {}, IsFiles(disk'),
           disk'.catalog = disk.catalog \/ Altered(CatalogFile)',
           disk'.migrations = disk.migrations \/ Altered(MigrationsFile)',
           disk'.indexes = disk.indexes \/ Altered(IndexesFile)',
           marker' = marker \/ Altered(MarkerFile)',
           \A t \in Tables : SameAt(disk'.tables, disk.tables, t) \/ Altered(TableFile(t))',
           \A t \in Tables : (t \in disk'.tmp_rewrite <=> t \in disk.tmp_rewrite)
                                 \/ Altered(RewriteFile(t))',
           \A i \in IndexNames : SameAt(disk'.index_files, disk.index_files, i)
                                     \/ Altered(IndexFile(i))',
           NEW path \in Paths
    PROVE  Arrived(files, disk', marker', path) \/ Altered(path)'
<1>1. AsDisk(files) = disk /\ marker = (MarkerFile \in DOMAIN files)
  BY BeforeCall
<1>2. CASE path \in {CatalogFile, MigrationsFile, IndexesFile, MarkerFile}
  BY <1>1, <1>2, ArrivedMetadata
<1>3. ASSUME NEW t \in Tables, path = TableFile(t)
      PROVE  Arrived(files, disk', marker', path) \/ Altered(path)'
  <2>1. SameAt(disk'.tables, disk.tables, t) => Arrived(files, disk', marker', TableFile(t))
    BY <1>1, ArrivedTable DEF SameAt
  <2> QED
    BY <1>3, <2>1
<1>4. ASSUME NEW t \in Tables, path = RewriteFile(t)
      PROVE  Arrived(files, disk', marker', path) \/ Altered(path)'
  <2>1. (t \in disk'.tmp_rewrite <=> t \in disk.tmp_rewrite)
            => Arrived(files, disk', marker', RewriteFile(t))
    BY <1>1, ArrivedRewrite
  <2> QED
    BY <1>4, <2>1
<1>5. ASSUME NEW i \in IndexNames, path = IndexFile(i)
      PROVE  Arrived(files, disk', marker', path) \/ Altered(path)'
  <2>1. SameAt(disk'.index_files, disk.index_files, i) => Arrived(files, disk', marker', IndexFile(i))
    BY <1>1, ArrivedIndex DEF SameAt
  <2> QED
    BY <1>5, <2>1
<1> QED
  BY <1>2, <1>3, <1>4, <1>5, PathsAre

\* The steps of a stage
LEMMA StageOf ==
    ASSUME NEW n, NEW W, NEW step \in At(n, W)
    PROVE  step.stage = n /\ step.write \in W /\ step = [stage |-> n, write |-> step.write]
  BY DEF At

LEMMA PendingStage ==
    ASSUME NEW n, NEW W, At(n, W) \subseteq writes'
    PROVE  W \subseteq Pending'
<1>1. ASSUME NEW w \in W PROVE w \in Pending'
  <2>1. [stage |-> n, write |-> w] \in writes' /\ [stage |-> n, write |-> w].write = w
    BY DEF At
  <2> QED
    BY <2>1 DEF Pending
<1> QED
  BY <1>1

\* A write that puts a file where the call leads.
Leading(w) ==
    \/ \E path \in Paths, content \in {w[3]} :
        w = WriteFile(path, content) /\ ContentOK(path, content) /\ Leaves(disk', marker', path, content)
    \/ \E path \in Paths : w = RemoveFile(path) /\ LeavesNo(disk', marker', path)

OnlyAlters(w, path) == \A p : Alters(w, p) <=> p = path

LEMMA LeadingFits ==
    ASSUME NEW step, Leading(step.write)
    PROVE  StepFits(step)'
<1>1. CASE \E path \in Paths, content \in {step.write[3]} :
              /\ step.write = WriteFile(path, content) /\ ContentOK(path, content)
              /\ Leaves(disk', marker', path, content)
  <2>1. step.write[1] = "write"
    BY <1>1, WriteIs
  <2>2. WritesFit(step)'
    BY <1>1 DEF WritesFit
  <2> QED
    BY <2>1, <2>2 DEF StepFits
<1>2. CASE \E path \in Paths : step.write = RemoveFile(path) /\ LeavesNo(disk', marker', path)
  <2>1. step.write[1] = "remove"
    BY <1>2, RemoveIs
  <2>2. RemovesFit(step)'
    BY <1>2 DEF RemovesFit
  <2> QED
    BY <2>1, <2>2 DEF StepFits
<1> QED
  BY <1>1, <1>2 DEF Leading

LEMMA LeadingIs ==
    ASSUME NEW w, Leading(w)
    PROVE  ~SnapshotWrite(w) /\ \A t : w # Rename(t)
<1>1. w[1] \in {"write", "remove"}
  BY WriteIs, RemoveIs DEF Leading
<1> QED
  BY <1>1, RenameOf, SnapshotIs DEF SnapshotWrite

LEMMA LeadingWrite ==
    ASSUME NEW path \in Paths, NEW content, ContentOK(path, content),
           Leaves(disk', marker', path, content)
    PROVE  Leading(WriteFile(path, content)) /\ OnlyAlters(WriteFile(path, content), path)
<1>1. WriteFile(path, content)[3] = content
  BY WriteIs
<1> QED
  BY <1>1, AltersWrite DEF Leading, OnlyAlters

LEMMA LeadingRemove ==
    ASSUME NEW path \in Paths, LeavesNo(disk', marker', path)
    PROVE  Leading(RemoveFile(path)) /\ OnlyAlters(RemoveFile(path), path)
  BY AltersRemove DEF Leading, OnlyAlters

\* A write of neither a table's file nor the log of the migrations
Elsewhere(w) == (\A t \in Tables : ~Alters(w, TableFile(t))) /\ ~Alters(w, MigrationsFile)

\* A step of a call that writes the file of one table at most, once, in the step
\* `mine`, and the log of the migrations in the step `last`.
PlainStep(todo, step, mine, last) ==
    /\ step.stage \in Nat
    /\ last \in todo => step = last \/ step.stage < last.stage
    /\ Leading(step.write) \/ step.write = DropSnapshot
    /\ \/ Elsewhere(step.write)
       \/ step = mine /\ ~Alters(mine.write, MigrationsFile)
       \/ step = last /\ \A t \in Tables : ~Alters(last.write, TableFile(t))

LEMMA PlainCall ==
    ASSUME CrashInv, NEW name, NEW todo, Begins(name, todo), name # "rollback",
           TypeOK', MetadataSaved', NoOrphanHandle', TxnOfProcess', SnapshotLeads',
           \A path \in Paths : Arrived(files, disk', marker', path) \/ Altered(path)',
           NEW mine, NEW last, \A step \in todo : PlainStep(todo, step, mine, last)
    PROVE  CrashInv'
<1>0. \A step \in todo :
          /\ step.stage \in Nat
          /\ last \in todo => step = last \/ step.stage < last.stage
          /\ Leading(step.write) \/ step.write = DropSnapshot
          /\ \/ Elsewhere(step.write)
             \/ step = mine /\ ~Alters(mine.write, MigrationsFile)
             \/ step = last /\ \A t \in Tables : ~Alters(last.write, TableFile(t))
  BY DEF PlainStep
<1>1. writes' = todo
  BY DEF Begins
<1>2. \A step \in todo : StepFits(step)'
  <2>1. \A step : step.write = DropSnapshot => StepFits(step)'
    BY DEF StepFits, OthersFit
  <2> QED
    BY <1>0, <2>1, LeadingFits
<1>3. \A step \in todo : step.stage \in Nat
  BY <1>0
<1>4. ASSUME NEW step \in todo, NEW other \in todo, Alters(step.write, MigrationsFile)
      PROVE  other = step \/ other.stage < step.stage
  <2>1. step = last
    BY <1>0, <1>4 DEF Elsewhere
  <2> QED
    BY <1>0, <2>1
<1>5. ASSUME NEW step \in todo, NEW other \in todo, NEW t \in Tables,
             \/ Alters(step.write, TableFile(t)) /\ step.write # Rename(t)
             \/ step.write = Aside(t)' /\ Rename(t) \in Pending',
             Alters(other.write, TableFile(t))
      PROVE  other = step \/ step.stage < other.stage
  <2>1. other = mine
    BY <1>0, <1>5 DEF Elsewhere
  <2>2. Rename(t) \notin Pending'
    <3>1. Rename(t) # DropSnapshot
      BY RenameOf, SnapshotIs
    <3>2. \A s \in todo : s.write # Rename(t)
      BY <1>0, <3>1, LeadingIs
    <3> QED
      BY <1>1, <3>2 DEF Pending
  <2>3. step = mine
    BY <1>0, <1>5, <2>2 DEF Elsewhere
  <2> QED
    BY <2>1, <2>3
<1> QED
  BY <1>2, <1>3, <1>4, <1>5, CallSafe

\* A call that has nothing to do with the snapshot
LEMMA SnapshotUntouched ==
    ASSUME CrashInv, NEW name, NEW todo, Begins(name, todo), name # "begin",
           \A step \in todo : ~SnapshotWrite(step.write),
           txn_snapshot' = txn_snapshot, txn_dir' => txn_dir
    PROVE  SnapshotLeads'
<1>1. /\ writes = {} /\ writes' = todo /\ snapshot_files' = snapshot_files
      /\ todo # {} => call' = [name |-> name, before |-> disk]
  BY DEF Begins
<1>2. /\ txn_snapshot = AsSnapshot(snapshot_files)
      /\ txn_dir => snapshot_files # NoSnapshot
  BY <1>1, BeforeCall
<1>3. ~(writes' # {} /\ call'.name = "begin")
  BY <1>1
<1>4. \A w \in Pending' : ~SnapshotWrite(w)
  BY <1>1 DEF Pending
<1>5. DropSnapshot \notin Pending'
  BY <1>4 DEF SnapshotWrite
<1> QED
  BY <1>1, <1>2, <1>3, <1>4, <1>5 DEF SnapshotLeads

LEMMA AlteredBy ==
    ASSUME NEW path, NEW w \in Pending', OnlyAlters(w, path)
    PROVE  Altered(path)'
  BY DEF Altered, OnlyAlters

\* The writes of metadata
LEMMA MetadataLead ==
    ASSUME TypeOK', MetadataSaved', running'
    PROVE  /\ \A w \in SaveCatalog : Leading(w) /\ OnlyAlters(w, CatalogFile) /\ Elsewhere(w)
           /\ \A w \in SaveIndexes : Leading(w) /\ OnlyAlters(w, IndexesFile) /\ Elsewhere(w)
           /\ \A w \in SaveMigrations :
                 /\ Leading(w) /\ OnlyAlters(w, MigrationsFile)
                 /\ \A t \in Tables : ~Alters(w, TableFile(t))
<1>1. /\ IsMap(catalog', Tables, Schema) /\ migrations' \in Seq(Migration)
      /\ IsMap(index_catalog', IndexNames, IndexDefinition)
      /\ catalog' = disk'.catalog /\ migrations' = disk'.migrations /\ index_catalog' = disk'.indexes
  BY DEF TypeOK, MetadataSaved
<1>2. {CatalogFile, MigrationsFile, IndexesFile} \subseteq Paths
  BY DEF Paths, Metadata
<1>3. /\ ContentOK(CatalogFile, catalog') /\ ContentOK(MigrationsFile, migrations')
      /\ ContentOK(IndexesFile, index_catalog')
  BY <1>1, ContentsOf
<1>4. /\ Leaves(disk', marker', CatalogFile, catalog')
      /\ Leaves(disk', marker', MigrationsFile, migrations')
      /\ Leaves(disk', marker', IndexesFile, index_catalog')
  BY <1>1, LeavesMetadata
<1>5. ASSUME NEW w \in SaveCatalog
      PROVE  Leading(w) /\ OnlyAlters(w, CatalogFile) /\ Elsewhere(w)
  <2>1. Leading(w) /\ OnlyAlters(w, CatalogFile)
    BY <1>2, <1>3, <1>4, LeadingWrite DEF SaveCatalog
  <2> QED
    BY <2>1, PathKinds DEF OnlyAlters, Elsewhere
<1>6. ASSUME NEW w \in SaveIndexes
      PROVE  Leading(w) /\ OnlyAlters(w, IndexesFile) /\ Elsewhere(w)
  <2>1. Leading(w) /\ OnlyAlters(w, IndexesFile)
    BY <1>2, <1>3, <1>4, LeadingWrite DEF SaveIndexes
  <2> QED
    BY <2>1, PathKinds DEF OnlyAlters, Elsewhere
<1>7. ASSUME NEW w \in SaveMigrations
      PROVE  /\ Leading(w) /\ OnlyAlters(w, MigrationsFile)
             /\ \A t \in Tables : ~Alters(w, TableFile(t))
  <2>1. Leading(w) /\ OnlyAlters(w, MigrationsFile)
    BY <1>2, <1>3, <1>4, LeadingWrite DEF SaveMigrations
  <2> QED
    BY <2>1, PathKinds DEF OnlyAlters
<1> QED
  BY <1>5, <1>6, <1>7

\* The writes of index files and of the marker
LEMMA IndexFilesRemoved ==
    ASSUME NEW dropped \in SUBSET IndexNames, DOMAIN disk'.index_files \cap dropped = {},
           NEW w \in RemoveIndexFiles(dropped)
    PROVE  Leading(w) /\ Elsewhere(w)
<1>1. PICK i \in dropped : w = RemoveFile(IndexFile(i))
  BY DEF RemoveIndexFiles
<1>2. IndexFile(i) \in Paths /\ LeavesNo(disk', marker', IndexFile(i))
  BY PathsAre, LeavesNoIndex
<1>3. Leading(w) /\ OnlyAlters(w, IndexFile(i))
  BY <1>1, <1>2, LeadingRemove
<1> QED
  BY <1>3, PathKinds DEF OnlyAlters, Elsewhere

\* An index file the call drops is removed if it is there.
LEMMA IndexFilesDropped ==
    ASSUME CrashInv, writes = {}, NEW dropped \in SUBSET IndexNames,
           disk'.index_files = Without(disk.index_files, dropped),
           RemoveIndexFiles(dropped) \subseteq Pending',
           NEW i \in IndexNames
    PROVE  SameAt(disk'.index_files, disk.index_files, i) \/ Altered(IndexFile(i))'
<1>1. i \in DOMAIN disk.index_files <=> IndexFile(i) \in DOMAIN files
  BY BeforeCall, DiskParts
<1>2. CASE i \in dropped /\ IndexFile(i) \in DOMAIN files
  <2>1. RemoveFile(IndexFile(i)) \in Pending'
    BY <1>2 DEF RemoveIndexFiles
  <2> QED
    BY <2>1, AltersRemove DEF Altered
<1>3. CASE ~(i \in dropped /\ IndexFile(i) \in DOMAIN files)
  <2>1. SameAt(disk'.index_files, disk.index_files, i)
    BY <1>1, <1>3 DEF Without, Restrict, SameAt
  <2> QED
    BY <2>1
<1> QED
  BY <1>2, <1>3

LEMMA MarkerForgotten ==
    ASSUME CrashInv, writes = {}, NEW maps, NEW dirty, NEW new, WriteIndexMaps(maps, dirty, new)
    PROVE  /\ \A w \in ForgetMarker(DOMAIN new) :
                 Leading(w) /\ OnlyAlters(w, MarkerFile) /\ Elsewhere(w)
           /\ ForgetMarker(DOMAIN new) = {} => marker' = marker
<1>1. marker = (MarkerFile \in DOMAIN files) /\ marker \in BOOLEAN
  BY BeforeCall DEF TypeOK
<1>2. marker' = (marker /\ ~(indexes_clean /\ DOMAIN new # {}))
  BY DEF WriteIndexMaps
<1>3. ASSUME NEW w \in ForgetMarker(DOMAIN new)
      PROVE  Leading(w) /\ OnlyAlters(w, MarkerFile) /\ Elsewhere(w)
  <2>1. w = RemoveFile(MarkerFile) /\ ~marker'
    BY <1>2, <1>3 DEF ForgetMarker, DoIf
  <2>2. MarkerFile \in Paths /\ LeavesNo(disk', marker', MarkerFile)
    BY <2>1, LeavesNoMetadata DEF Paths
  <2>3. Leading(w) /\ OnlyAlters(w, MarkerFile)
    BY <2>1, <2>2, LeadingRemove
  <2> QED
    BY <2>3, PathKinds DEF OnlyAlters, Elsewhere
<1>4. ForgetMarker(DOMAIN new) = {} => ~(indexes_clean /\ DOMAIN new # {} /\ marker)
  BY <1>1 DEF ForgetMarker, DoIf
<1> QED
  BY <1>1, <1>2, <1>3, <1>4

\* The write of a table's file
LEMMA TableWritten ==
    ASSUME TypeOK', NEW t \in DOMAIN disk'.tables, NEW rows, rows = disk'.tables[t]
    PROVE  /\ Leading(WriteFile(TableFile(t), Lines(rows)))
           /\ OnlyAlters(WriteFile(TableFile(t), Lines(rows)), TableFile(t))
           /\ ~Alters(WriteFile(TableFile(t), Lines(rows)), MigrationsFile)
<1>1. t \in Tables /\ rows \in Seq(Row)
  BY DEF TypeOK, IsFiles, IsMap
<1>2. ContentOK(TableFile(t), Lines(rows)) /\ Lines(rows).rows = rows /\ TableFile(t) \in Paths
  BY <1>1, ContentsOf, LinesTyped, PathsAre
<1>3. Leaves(disk', marker', TableFile(t), Lines(rows))
  BY <1>2, LeavesTable
<1>4. /\ Leading(WriteFile(TableFile(t), Lines(rows)))
      /\ OnlyAlters(WriteFile(TableFile(t), Lines(rows)), TableFile(t))
  BY <1>2, <1>3, LeadingWrite
<1> QED
  BY <1>4, PathKinds DEF OnlyAlters

---------------------------------------------------------------------------------
(* The calls that change the schema *)

\* What Storage's action says of the record of the directory
LEMMA DiskFields ==
    ASSUME TypeOK
    PROVE  disk = [catalog |-> disk.catalog, migrations |-> disk.migrations,
                   indexes |-> disk.indexes, tables |-> disk.tables,
                   index_files |-> disk.index_files, tmp_rewrite |-> disk.tmp_rewrite]
  BY DEF TypeOK, IsFiles

LEMMA CallTyped ==
    ASSUME CrashInv, Next
    PROVE  TypeOK' /\ MetadataSaved' /\ NoOrphanHandle' /\ TxnOfProcess'
  BY SavedByNext DEF CrashInv

LEMMA SameIsSame ==
    ASSUME NEW f, NEW g, f = g, NEW k
    PROVE  SameAt(f, g, k)
  BY DEF SameAt

LEMMA PutElsewhere ==
    ASSUME NEW f, NEW k, NEW v, NEW x, x # k
    PROVE  SameAt(Put(f, k, v), f, x)
  BY DEF SameAt, Put, Override

LEMMA PutThere ==
    ASSUME NEW f, NEW k, NEW v
    PROVE  k \in DOMAIN Put(f, k, v) /\ Put(f, k, v)[k] = v
  BY DEF Put, Override

LEMMA WithoutElsewhere ==
    ASSUME NEW f, NEW D, NEW x, x \notin D
    PROVE  SameAt(Without(f, D), f, x)
  BY DEF SameAt, Without, Restrict

LEMMA MarkerArrives ==
    ASSUME CrashInv, writes = {}, NEW maps, NEW dirty, NEW new, WriteIndexMaps(maps, dirty, new),
           ForgetMarker(DOMAIN new) \subseteq Pending'
    PROVE  marker' = marker \/ Altered(MarkerFile)'
<1>1. CASE ForgetMarker(DOMAIN new) = {}
  BY <1>1, MarkerForgotten
<1>2. ASSUME NEW w \in ForgetMarker(DOMAIN new)
      PROVE  Altered(MarkerFile)'
  <2>1. OnlyAlters(w, MarkerFile) /\ w \in Pending'
    BY <1>2, MarkerForgotten
  <2> QED
    BY <2>1, AlteredBy
<1> QED
  BY <1>1, <1>2

\* The steps of a stage of such a call
LEMMA PlainStage ==
    ASSUME NEW todo, NEW n \in Nat, NEW W, NEW step \in At(n, W), NEW mine, NEW last,
           n < last.stage, \A w \in W : Leading(w) /\ Elsewhere(w)
    PROVE  PlainStep(todo, step, mine, last)
  BY StageOf DEF PlainStep

LEMMA PlainOne ==
    ASSUME NEW todo, NEW n \in Nat, NEW w, NEW step \in At(n, {w}), NEW last,
           n < last.stage, Leading(w), Elsewhere(w)
    PROVE  PlainStep(todo, step, last, last) /\ step.write = w
<1>1. step.stage = n /\ step.write = w
  BY StageOf
<1> QED
  BY <1>1 DEF PlainStep

LEMMA PlainMine ==
    ASSUME NEW todo, NEW n \in Nat, NEW w, NEW step \in At(n, {w}), NEW mine, NEW last,
           n < last.stage, mine = [stage |-> n, write |-> w],
           Leading(w), ~Alters(w, MigrationsFile)
    PROVE  PlainStep(todo, step, mine, last)
<1>1. step = mine /\ step.stage = n /\ mine.write = w /\ step.write = w
  BY StageOf
<1> QED
  BY <1>1 DEF PlainStep

LEMMA PlainLast ==
    ASSUME NEW todo, NEW n \in Nat, NEW w, NEW step \in At(n, {w}), NEW mine, NEW last,
           last = [stage |-> n, write |-> w],
           Leading(w), \A t \in Tables : ~Alters(w, TableFile(t))
    PROVE  PlainStep(todo, step, mine, last)
<1>1. step = last /\ step.stage = n /\ last.write = w /\ step.write = w
  BY StageOf
<1> QED
  BY <1>1 DEF PlainStep

LEMMA CreateTableCrashSafe ==
    ASSUME CrashInv, NEW t \in Tables, NEW columns \in (SUBSET Columns) \ {{}},
           CreateTableCrash(t, columns)
    PROVE  CrashInv'
<1> DEFINE todo == CreateTableWrites(t)
           mine == [stage |-> 1, write |-> WriteFile(TableFile(t), Lines(<<>>))]
           last == [stage |-> 3, write |-> WriteFile(MigrationsFile, migrations')]
<1>1. CreateTable(t, columns) /\ Begins("create table", todo) /\ writes = {} /\ writes' = todo
  BY DEF CreateTableCrash, Begins
<1>2. TypeOK' /\ MetadataSaved' /\ NoOrphanHandle' /\ TxnOfProcess' /\ TypeOK
  BY <1>1, CallTyped DEF Next, CrashInv
<1>3. /\ running' /\ disk'.tables = Put(disk.tables, t, <<>>)
      /\ disk'.indexes = disk.indexes /\ disk'.index_files = disk.index_files
      /\ disk'.tmp_rewrite = disk.tmp_rewrite
      /\ marker' = marker /\ txn_snapshot' = txn_snapshot /\ txn_dir' = txn_dir
  BY <1>1, <1>2, DiskFields DEF CreateTable
<1>4. t \in DOMAIN disk'.tables /\ disk'.tables[t] = <<>>
  BY <1>3, PutThere
<1>5. ASSUME NEW step \in todo
      PROVE  PlainStep(todo, step, mine, last) /\ Leading(step.write)
  <2>1. last.stage = 3 /\ SaveMigrations = {WriteFile(MigrationsFile, migrations')}
    BY DEF SaveMigrations
  <2> HIDE DEF last
  <2>2. CASE step \in At(1, {WriteFile(TableFile(t), Lines(<<>>))})
    BY <1>2, <1>4, <2>1, <2>2, TableWritten, StageOf, PlainMine
  <2>3. CASE step \in At(2, SaveCatalog)
    BY <1>2, <1>3, <2>1, <2>3, MetadataLead, StageOf, PlainStage
  <2>4. CASE step \in At(3, SaveMigrations)
    BY <1>2, <1>3, <2>1, <2>4, MetadataLead, StageOf, PlainLast DEF last
  <2> QED
    BY <2>2, <2>3, <2>4 DEF CreateTableWrites
<1>6. ASSUME NEW path \in Paths
      PROVE  Arrived(files, disk', marker', path) \/ Altered(path)'
  <2>1. /\ WriteFile(TableFile(t), Lines(<<>>)) \in Pending'
        /\ SaveCatalog \subseteq Pending' /\ SaveMigrations \subseteq Pending'
    BY <1>1, PendingStage DEF CreateTableWrites
  <2>2. Altered(TableFile(t))' /\ Altered(CatalogFile)' /\ Altered(MigrationsFile)'
    <3>1. Altered(TableFile(t))'
      BY <1>2, <1>4, <2>1, TableWritten, AlteredBy
    <3>2. Altered(CatalogFile)' /\ Altered(MigrationsFile)'
      BY <1>2, <1>3, <2>1, MetadataLead, AlteredBy DEF SaveCatalog, SaveMigrations
    <3> QED
      BY <3>1, <3>2
  <2>3. \A u \in Tables : SameAt(disk'.tables, disk.tables, u) \/ Altered(TableFile(u))'
    BY <1>3, <2>2, PutElsewhere
  <2>4. \A i \in IndexNames : SameAt(disk'.index_files, disk.index_files, i)
    BY <1>3, SameIsSame
  <2> QED
    BY <1>1, <1>2, <1>3, <2>2, <2>3, <2>4, ArriveOrAltered DEF TypeOK
<1>7. SnapshotLeads'
  BY <1>1, <1>3, <1>5, LeadingIs, SnapshotUntouched
<1>8. \A step \in todo : PlainStep(todo, step, mine, last)
  BY <1>5
<1>9. Begins("create table", todo)
  BY <1>1
<1> HIDE DEF todo, mine, last
<1> QED
  BY <1>2, <1>6, <1>7, <1>8, <1>9, PlainCall

LEMMA DropTableCrashSafe ==
    ASSUME CrashInv, NEW t \in Tables, DropTableCrash(t)
    PROVE  CrashInv'
<1> DEFINE dropped == IndexesOn(index_catalog, t)
           todo == DropTableWrites(t)
           mine == [stage |-> 3, write |-> RemoveFile(TableFile(t))]
           last == [stage |-> 5, write |-> WriteFile(MigrationsFile, migrations')]
<1>1. DropTable(t) /\ Begins("drop table", todo) /\ writes = {} /\ writes' = todo
  BY DEF DropTableCrash, Begins
<1>2. TypeOK' /\ MetadataSaved' /\ NoOrphanHandle' /\ TxnOfProcess' /\ TypeOK
  BY <1>1, CallTyped DEF Next, CrashInv
<1>3. /\ running' /\ disk'.tables = Without(disk.tables, {t})
      /\ disk'.index_files = Without(disk.index_files, dropped)
      /\ disk'.tmp_rewrite = disk.tmp_rewrite
      /\ marker' = marker /\ txn_snapshot' = txn_snapshot /\ txn_dir' = txn_dir
  BY <1>1, <1>2, DiskFields DEF DropTable
<1>4. /\ t \notin DOMAIN disk'.tables /\ DOMAIN disk'.index_files \cap dropped = {}
      /\ dropped \in SUBSET IndexNames
      /\ \A w \in RemoveIfThere(TableFile(t)) : w = RemoveFile(TableFile(t))
  BY <1>2, <1>3 DEF Without, Restrict, IndexesOn, TypeOK, IsMap, RemoveIfThere, DoIf
<1>5. /\ Leading(RemoveFile(TableFile(t))) /\ OnlyAlters(RemoveFile(TableFile(t)), TableFile(t))
      /\ ~Alters(RemoveFile(TableFile(t)), MigrationsFile)
  <2>1. LeavesNo(disk', marker', TableFile(t)) /\ TableFile(t) \in Paths
    BY <1>4, LeavesNoTable, PathsAre
  <2>2. Leading(RemoveFile(TableFile(t))) /\ OnlyAlters(RemoveFile(TableFile(t)), TableFile(t))
    BY <2>1, LeadingRemove
  <2> QED
    BY <2>2, PathKinds DEF OnlyAlters
<1>6. ASSUME NEW step \in todo
      PROVE  PlainStep(todo, step, mine, last) /\ Leading(step.write)
  <2>1. last.stage = 5 /\ SaveMigrations = {WriteFile(MigrationsFile, migrations')}
    BY DEF SaveMigrations
  <2> HIDE DEF last
  <2>2. CASE step \in At(1, RemoveIndexFiles(dropped))
    <3>1. \A w \in RemoveIndexFiles(dropped) : Leading(w) /\ Elsewhere(w)
      BY <1>4, IndexFilesRemoved
    <3> QED
      BY <2>1, <2>2, <3>1, StageOf, PlainStage
  <2>3. CASE step \in At(2, SaveIndexes)
    BY <1>2, <1>3, <2>1, <2>3, MetadataLead, StageOf, PlainStage
  <2>4. CASE step \in At(3, RemoveIfThere(TableFile(t)))
    <3>1. step \in At(3, {RemoveFile(TableFile(t))})
      BY <1>4, <2>4 DEF At
    <3> QED
      BY <1>5, <2>1, <3>1, StageOf, PlainMine
  <2>5. CASE step \in At(4, SaveCatalog)
    BY <1>2, <1>3, <2>1, <2>5, MetadataLead, StageOf, PlainStage
  <2>6. CASE step \in At(5, SaveMigrations)
    BY <1>2, <1>3, <2>1, <2>6, MetadataLead, StageOf, PlainLast DEF last
  <2> QED
    BY <2>2, <2>3, <2>4, <2>5, <2>6 DEF DropTableWrites
<1>7. ASSUME NEW path \in Paths
      PROVE  Arrived(files, disk', marker', path) \/ Altered(path)'
  <2>1. /\ RemoveIndexFiles(dropped) \subseteq Pending' /\ SaveIndexes \subseteq Pending'
        /\ RemoveIfThere(TableFile(t)) \subseteq Pending'
        /\ SaveCatalog \subseteq Pending' /\ SaveMigrations \subseteq Pending'
    BY <1>1, PendingStage DEF DropTableWrites
  <2>2. Altered(CatalogFile)' /\ Altered(MigrationsFile)' /\ Altered(IndexesFile)'
    BY <1>2, <1>3, <2>1, MetadataLead, AlteredBy DEF SaveCatalog, SaveMigrations, SaveIndexes
  <2>3. ASSUME NEW u \in Tables
        PROVE  SameAt(disk'.tables, disk.tables, u) \/ Altered(TableFile(u))'
    <3>1. CASE u # t
      BY <1>3, <3>1, WithoutElsewhere
    <3>2. CASE u = t /\ TableFile(t) \in DOMAIN files
      <4>1. RemoveFile(TableFile(t)) \in Pending'
        BY <2>1, <3>2 DEF RemoveIfThere, DoIf
      <4> QED
        BY <1>5, <3>2, <4>1, AlteredBy
    <3>3. CASE u = t /\ TableFile(t) \notin DOMAIN files
      <4>1. t \notin DOMAIN disk.tables
        BY <1>1, <3>3, BeforeCall, DiskParts
      <4> QED
        BY <1>4, <3>3, <4>1 DEF SameAt
    <3> QED
      BY <3>1, <3>2, <3>3
  <2>4. \A i \in IndexNames : SameAt(disk'.index_files, disk.index_files, i) \/ Altered(IndexFile(i))'
    BY <1>1, <1>3, <1>4, <2>1, IndexFilesDropped
  <2> QED
    BY <1>1, <1>2, <1>3, <2>2, <2>3, <2>4, ArriveOrAltered DEF TypeOK
<1>8. SnapshotLeads'
  BY <1>1, <1>3, <1>6, LeadingIs, SnapshotUntouched
<1>9. \A step \in todo : PlainStep(todo, step, mine, last)
  BY <1>6
<1>10. Begins("drop table", todo)
  BY <1>1
<1> HIDE DEF todo, mine, last
<1> QED
  BY <1>2, <1>7, <1>8, <1>9, <1>10, PlainCall

LEMMA DropIndexCrashSafe ==
    ASSUME CrashInv, NEW i \in IndexNames, DropIndexCrash(i)
    PROVE  CrashInv'
<1> DEFINE todo == At(1, RemoveIndexFiles({i})) \cup At(2, SaveIndexes) \cup At(3, SaveMigrations)
           last == [stage |-> 3, write |-> WriteFile(MigrationsFile, migrations')]
<1>1. DropIndex(i) /\ Begins("drop index", todo) /\ writes = {} /\ writes' = todo
  BY DEF DropIndexCrash, Begins
<1>2. TypeOK' /\ MetadataSaved' /\ NoOrphanHandle' /\ TxnOfProcess' /\ TypeOK
  BY <1>1, CallTyped DEF Next, CrashInv
<1>3. /\ running' /\ disk'.tables = disk.tables /\ disk'.catalog = disk.catalog
      /\ disk'.index_files = Without(disk.index_files, {i})
      /\ disk'.tmp_rewrite = disk.tmp_rewrite
      /\ marker' = marker /\ txn_snapshot' = txn_snapshot /\ txn_dir' = txn_dir
  BY <1>1, <1>2, DiskFields DEF DropIndex
<1>4. DOMAIN disk'.index_files \cap {i} = {} /\ {i} \in SUBSET IndexNames
  BY <1>3 DEF Without, Restrict
<1>5. ASSUME NEW step \in todo
      PROVE  PlainStep(todo, step, last, last) /\ Leading(step.write)
  <2>1. last.stage = 3 /\ SaveMigrations = {WriteFile(MigrationsFile, migrations')}
    BY DEF SaveMigrations
  <2> HIDE DEF last, todo
  <2>2. CASE step \in At(1, RemoveIndexFiles({i}))
    <3>1. \A w \in RemoveIndexFiles({i}) : Leading(w) /\ Elsewhere(w)
      BY <1>4, IndexFilesRemoved
    <3> QED
      BY <2>1, <2>2, <3>1, StageOf, PlainStage
  <2>3. CASE step \in At(2, SaveIndexes)
    BY <1>2, <1>3, <2>1, <2>3, MetadataLead, StageOf, PlainStage
  <2>4. CASE step \in At(3, SaveMigrations)
    BY <1>2, <1>3, <2>1, <2>4, MetadataLead, StageOf, PlainLast DEF last
  <2> QED
    BY <2>2, <2>3, <2>4 DEF todo
<1>6. ASSUME NEW path \in Paths
      PROVE  Arrived(files, disk', marker', path) \/ Altered(path)'
  <2>1. /\ RemoveIndexFiles({i}) \subseteq Pending' /\ SaveIndexes \subseteq Pending'
        /\ SaveMigrations \subseteq Pending'
    BY <1>1, PendingStage
  <2>2. Altered(MigrationsFile)' /\ Altered(IndexesFile)'
    BY <1>2, <1>3, <2>1, MetadataLead, AlteredBy DEF SaveMigrations, SaveIndexes
  <2>3. \A x \in IndexNames : SameAt(disk'.index_files, disk.index_files, x) \/ Altered(IndexFile(x))'
    BY <1>1, <1>3, <1>4, <2>1, IndexFilesDropped
  <2>4. \A t \in Tables : SameAt(disk'.tables, disk.tables, t)
    BY <1>3, SameIsSame
  <2> QED
    BY <1>1, <1>2, <1>3, <2>2, <2>3, <2>4, ArriveOrAltered DEF TypeOK
<1>7. SnapshotLeads'
  BY <1>1, <1>3, <1>5, LeadingIs, SnapshotUntouched
<1>8. \A step \in todo : PlainStep(todo, step, last, last)
  BY <1>5
<1>9. Begins("drop index", todo)
  BY <1>1
<1> HIDE DEF todo, last
<1> QED
  BY <1>2, <1>6, <1>7, <1>8, <1>9, PlainCall

LEMMA CreateIndexCrashSafe ==
    ASSUME CrashInv, NEW i \in IndexNames, NEW t \in Tables, NEW c \in Columns,
           CreateIndexCrash(i, t, c)
    PROVE  CrashInv'
<1> DEFINE new == [x \in {i} |-> IndexOf(RowsOf(t), c)]
           todo == At(1, SaveIndexes) \cup At(2, ForgetMarker({i})) \cup At(3, SaveMigrations)
           last == [stage |-> 3, write |-> WriteFile(MigrationsFile, migrations')]
<1>1. CreateIndex(i, t, c) /\ Begins("create index", todo) /\ writes = {} /\ writes' = todo
  BY DEF CreateIndexCrash, Begins
<1>2. TypeOK' /\ MetadataSaved' /\ NoOrphanHandle' /\ TxnOfProcess' /\ TypeOK
  BY <1>1, CallTyped DEF Next, CrashInv
<1>3. /\ running' /\ disk'.tables = disk.tables /\ disk'.catalog = disk.catalog
      /\ disk'.index_files = disk.index_files
      /\ disk'.tmp_rewrite = disk.tmp_rewrite
      /\ txn_snapshot' = txn_snapshot /\ txn_dir' = txn_dir
  BY <1>1, <1>2, DiskFields DEF CreateIndex
<1>4. WriteIndexMaps(index_maps, dirty_indexes, new) /\ DOMAIN new = {i}
  BY <1>1 DEF CreateIndex
<1> HIDE DEF new
<1>5. \A w \in ForgetMarker({i}) : Leading(w) /\ Elsewhere(w)
  BY <1>1, <1>4, MarkerForgotten
<1>6. ASSUME NEW step \in todo
      PROVE  PlainStep(todo, step, last, last) /\ Leading(step.write)
  <2>1. last.stage = 3 /\ SaveMigrations = {WriteFile(MigrationsFile, migrations')}
    BY DEF SaveMigrations
  <2> HIDE DEF last, todo
  <2>2. CASE step \in At(1, SaveIndexes)
    BY <1>2, <1>3, <2>1, <2>2, MetadataLead, StageOf, PlainStage
  <2>3. CASE step \in At(2, ForgetMarker({i}))
    BY <1>5, <2>1, <2>3, StageOf, PlainStage
  <2>4. CASE step \in At(3, SaveMigrations)
    BY <1>2, <1>3, <2>1, <2>4, MetadataLead, StageOf, PlainLast DEF last
  <2> QED
    BY <2>2, <2>3, <2>4 DEF todo
<1>7. ASSUME NEW path \in Paths
      PROVE  Arrived(files, disk', marker', path) \/ Altered(path)'
  <2>1. /\ ForgetMarker({i}) \subseteq Pending' /\ SaveIndexes \subseteq Pending'
        /\ SaveMigrations \subseteq Pending'
    BY <1>1, PendingStage
  <2>2. Altered(MigrationsFile)' /\ Altered(IndexesFile)'
    BY <1>2, <1>3, <2>1, MetadataLead, AlteredBy DEF SaveMigrations, SaveIndexes
  <2>3. marker' = marker \/ Altered(MarkerFile)'
    BY <1>1, <1>4, <2>1, MarkerArrives
  <2>4. /\ \A u \in Tables : SameAt(disk'.tables, disk.tables, u)
        /\ \A x \in IndexNames : SameAt(disk'.index_files, disk.index_files, x)
    BY <1>3, SameIsSame
  <2> QED
    BY <1>1, <1>2, <1>3, <2>2, <2>3, <2>4, ArriveOrAltered DEF TypeOK
<1>8. SnapshotLeads'
  BY <1>1, <1>3, <1>6, LeadingIs, SnapshotUntouched
<1>9. \A step \in todo : PlainStep(todo, step, last, last)
  BY <1>6
<1>10. Begins("create index", todo)
  BY <1>1
<1> HIDE DEF todo, last
<1> QED
  BY <1>2, <1>7, <1>8, <1>9, <1>10, PlainCall

\* What write_stored_rows has to write after an ALTER TABLE
LEMMA ReplaceLeads ==
    ASSUME CrashInv, writes = {}, TypeOK', NEW t \in Tables, NEW rows, NEW maps, NEW dirty,
           ReplaceRows(t, rows, index_catalog', maps, dirty),
           disk'.tables = Put(disk.tables, t, rows),
           NEW mine, mine = [stage |-> 4, write |-> WriteFile(TableFile(t), Lines(disk'.tables[t]))],
           NEW last, last.stage = 6, NEW todo
    PROVE  /\ \A step \in ReplaceWrites(t) : PlainStep(todo, step, mine, last) /\ Leading(step.write)
           /\ ReplaceWrites(t) \subseteq writes' =>
                /\ \A u \in Tables : SameAt(disk'.tables, disk.tables, u) \/ Altered(TableFile(u))'
                /\ marker' = marker \/ Altered(MarkerFile)'
<1> DEFINE new == [i \in IndexesOn(index_catalog', t) |-> IndexOf(rows, index_catalog'[i].column)]
           written == WriteFile(TableFile(t), Lines(disk'.tables[t]))
<1>1. WriteIndexMaps(maps, dirty, new) /\ DOMAIN new = IndexesOn(index_catalog', t)
  BY DEF ReplaceRows
<1>2. t \in DOMAIN disk'.tables
  BY PutThere
<1>3. Leading(written) /\ OnlyAlters(written, TableFile(t)) /\ ~Alters(written, MigrationsFile)
  BY <1>2, TableWritten
<1> HIDE DEF new
<1>4. \A w \in ForgetMarker(IndexesOn(index_catalog', t)) :
          Leading(w) /\ OnlyAlters(w, MarkerFile) /\ Elsewhere(w)
  BY <1>1, MarkerForgotten
<1>5. ASSUME NEW step \in ReplaceWrites(t)
      PROVE  PlainStep(todo, step, mine, last) /\ Leading(step.write)
  <2>1. CASE step \in At(4, {written})
    <3> HIDE DEF written
    <3>1. mine = [stage |-> 4, write |-> written] /\ 4 < last.stage
      BY DEF written
    <3>2. step.write = written
      BY <2>1, StageOf
    <3>3. PlainStep(todo, step, mine, last)
      BY <1>3, <2>1, <3>1, PlainMine
    <3> QED
      BY <1>3, <3>2, <3>3
  <2>2. CASE step \in At(5, ForgetMarker(IndexesOn(index_catalog', t)))
    BY <1>4, <2>2, StageOf, PlainStage
  <2> QED
    BY <2>1, <2>2 DEF ReplaceWrites
<1>6. ASSUME ReplaceWrites(t) \subseteq writes'
      PROVE  /\ \A u \in Tables : SameAt(disk'.tables, disk.tables, u) \/ Altered(TableFile(u))'
             /\ marker' = marker \/ Altered(MarkerFile)'
  <2>1. {written} \subseteq Pending' /\ ForgetMarker(IndexesOn(index_catalog', t)) \subseteq Pending'
    BY <1>6, PendingStage DEF ReplaceWrites
  <2>2. Altered(TableFile(t))'
    BY <1>3, <2>1, AlteredBy
  <2>3. \A u \in Tables : SameAt(disk'.tables, disk.tables, u) \/ Altered(TableFile(u))'
    BY <2>2, PutElsewhere
  <2>4. marker' = marker \/ Altered(MarkerFile)'
    BY <1>1, <2>1, MarkerArrives
  <2> QED
    BY <2>3, <2>4
<1> QED
  BY <1>5, <1>6

LEMMA AddColumnCrashSafe ==
    ASSUME CrashInv, NEW t \in Tables, NEW c \in Columns, NEW default \in Val,
           AddColumnCrash(t, c, default)
    PROVE  CrashInv'
<1> DEFINE todo == At(1, SaveCatalog) \cup ReplaceWrites(t) \cup At(6, SaveMigrations)
           mine == [stage |-> 4, write |-> WriteFile(TableFile(t), Lines(disk'.tables[t]))]
           last == [stage |-> 6, write |-> WriteFile(MigrationsFile, migrations')]
<1>1. AddColumn(t, c, default) /\ Begins("add column", todo) /\ writes = {} /\ writes' = todo
  BY DEF AddColumnCrash, Begins
<1>2. TypeOK' /\ MetadataSaved' /\ NoOrphanHandle' /\ TxnOfProcess' /\ TypeOK
  BY <1>1, CallTyped DEF Next, CrashInv
<1>3. PICK rows : /\ ReplaceRows(t, rows, index_catalog', index_maps, dirty_indexes)
                  /\ disk'.tables = Put(disk.tables, t, rows)
  BY <1>1, <1>2, DiskFields DEF AddColumn
<1>4. /\ running' /\ disk'.indexes = disk.indexes /\ disk'.index_files = disk.index_files
      /\ disk'.tmp_rewrite = disk.tmp_rewrite
      /\ txn_snapshot' = txn_snapshot /\ txn_dir' = txn_dir
  BY <1>1, <1>2, DiskFields DEF AddColumn
<1>5. /\ \A step \in ReplaceWrites(t) : PlainStep(todo, step, mine, last) /\ Leading(step.write)
      /\ ReplaceWrites(t) \subseteq writes' =>
           /\ \A u \in Tables : SameAt(disk'.tables, disk.tables, u) \/ Altered(TableFile(u))'
           /\ marker' = marker \/ Altered(MarkerFile)'
  <2>1. last.stage = 6
    OBVIOUS
  <2> HIDE DEF todo, last
  <2> QED
    BY <1>1, <1>2, <1>3, <2>1, ReplaceLeads
<1>6. ASSUME NEW step \in todo
      PROVE  PlainStep(todo, step, mine, last) /\ Leading(step.write)
  <2>1. last.stage = 6 /\ SaveMigrations = {WriteFile(MigrationsFile, migrations')}
    BY DEF SaveMigrations
  <2> HIDE DEF last, mine, todo
  <2>2. CASE step \in At(1, SaveCatalog)
    BY <1>2, <1>4, <2>1, <2>2, MetadataLead, StageOf, PlainStage
  <2>3. CASE step \in ReplaceWrites(t)
    BY <1>5, <2>3
  <2>4. CASE step \in At(6, SaveMigrations)
    BY <1>2, <1>4, <2>1, <2>4, MetadataLead, StageOf, PlainLast DEF last
  <2> QED
    BY <2>2, <2>3, <2>4 DEF todo
<1>7. ASSUME NEW path \in Paths
      PROVE  Arrived(files, disk', marker', path) \/ Altered(path)'
  <2>1. SaveCatalog \subseteq Pending' /\ SaveMigrations \subseteq Pending'
    BY <1>1, PendingStage
  <2>2. Altered(CatalogFile)' /\ Altered(MigrationsFile)'
    BY <1>2, <1>4, <2>1, MetadataLead, AlteredBy DEF SaveCatalog, SaveMigrations
  <2>3. ReplaceWrites(t) \subseteq writes'
    BY <1>1
  <2>4. \A i \in IndexNames : SameAt(disk'.index_files, disk.index_files, i)
    BY <1>4, SameIsSame
  <2> QED
    BY <1>1, <1>2, <1>4, <1>5, <2>2, <2>3, <2>4, ArriveOrAltered DEF TypeOK
<1>8. SnapshotLeads'
  BY <1>1, <1>4, <1>6, LeadingIs, SnapshotUntouched
<1>9. \A step \in todo : PlainStep(todo, step, mine, last)
  BY <1>6
<1>10. Begins("add column", todo)
  BY <1>1
<1> HIDE DEF todo, mine, last
<1> QED
  BY <1>2, <1>7, <1>8, <1>9, <1>10, PlainCall

LEMMA DropColumnCrashSafe ==
    ASSUME CrashInv, NEW t \in Tables, NEW c \in Columns, DropColumnCrash(t, c)
    PROVE  CrashInv'
<1> DEFINE dropped == IndexesOnColumn(index_catalog, t, c)
           Saves == IF dropped = {} THEN {} ELSE SaveIndexes
           todo == At(1, SaveCatalog) \cup At(2, RemoveIndexFiles(dropped)) \cup At(3, Saves)
                       \cup ReplaceWrites(t) \cup At(6, SaveMigrations)
           mine == [stage |-> 4, write |-> WriteFile(TableFile(t), Lines(disk'.tables[t]))]
           last == [stage |-> 6, write |-> WriteFile(MigrationsFile, migrations')]
<1>1. DropColumn(t, c) /\ Begins("drop column", todo) /\ writes = {} /\ writes' = todo
  BY DEF DropColumnCrash, Begins
<1>2. TypeOK' /\ MetadataSaved' /\ NoOrphanHandle' /\ TxnOfProcess' /\ TypeOK
  BY <1>1, CallTyped DEF Next, CrashInv
<1>3. PICK rows : /\ ReplaceRows(t, rows, index_catalog', Without(index_maps, dropped),
                                 dirty_indexes \ dropped)
                  /\ disk'.tables = Put(disk.tables, t, rows)
  BY <1>1, <1>2, DiskFields DEF DropColumn
<1>4. /\ running /\ running' /\ index_catalog' = Without(index_catalog, dropped)
      /\ disk'.indexes = index_catalog'
      /\ disk'.index_files = Without(disk.index_files, dropped)
      /\ disk'.tmp_rewrite = disk.tmp_rewrite
      /\ txn_snapshot' = txn_snapshot /\ txn_dir' = txn_dir
  BY <1>1, <1>2, DiskFields DEF DropColumn
<1>5. /\ DOMAIN disk'.index_files \cap dropped = {} /\ dropped \in SUBSET IndexNames
      /\ dropped = {} => disk'.indexes = disk.indexes
  <2> HIDE DEF todo, mine, last
  <2>1. dropped \in SUBSET IndexNames /\ IsMap(index_catalog, IndexNames, IndexDefinition)
    BY <1>2 DEF IndexesOn, IndexesOnColumn, TypeOK, IsMap
  <2>2. DOMAIN disk'.index_files \cap dropped = {}
    BY <1>4 DEF Without, Restrict
  <2>3. dropped = {} => index_catalog' = index_catalog
    BY <1>4, <2>1 DEF Without, Restrict, IsMap
  <2>4. index_catalog = disk.indexes
    BY <1>4 DEF CrashInv, MetadataSaved
  <2> QED
    BY <1>4, <2>1, <2>2, <2>3, <2>4
<1>6. /\ \A step \in ReplaceWrites(t) : PlainStep(todo, step, mine, last) /\ Leading(step.write)
      /\ ReplaceWrites(t) \subseteq writes' =>
           /\ \A u \in Tables : SameAt(disk'.tables, disk.tables, u) \/ Altered(TableFile(u))'
           /\ marker' = marker \/ Altered(MarkerFile)'
  <2>1. last.stage = 6
    OBVIOUS
  <2> HIDE DEF todo, last
  <2> QED
    BY <1>1, <1>2, <1>3, <2>1, ReplaceLeads
<1>7. ASSUME NEW step \in todo
      PROVE  PlainStep(todo, step, mine, last) /\ Leading(step.write)
  <2>1. /\ last.stage = 6 /\ SaveMigrations = {WriteFile(MigrationsFile, migrations')}
        /\ Saves \subseteq SaveIndexes
    BY DEF SaveMigrations
  <2> HIDE DEF last, mine, todo, Saves
  <2>2. CASE step \in At(1, SaveCatalog)
    BY <1>2, <1>4, <2>1, <2>2, MetadataLead, StageOf, PlainStage
  <2>3. CASE step \in At(2, RemoveIndexFiles(dropped))
    <3>1. \A w \in RemoveIndexFiles(dropped) : Leading(w) /\ Elsewhere(w)
      BY <1>5, IndexFilesRemoved
    <3> QED
      BY <2>1, <2>3, <3>1, StageOf, PlainStage
  <2>4. CASE step \in At(3, Saves)
    BY <1>2, <1>4, <2>1, <2>4, MetadataLead, StageOf, PlainStage
  <2>5. CASE step \in ReplaceWrites(t)
    BY <1>6, <2>5
  <2>6. CASE step \in At(6, SaveMigrations)
    BY <1>2, <1>4, <2>1, <2>6, MetadataLead, StageOf, PlainLast DEF last
  <2> QED
    BY <2>2, <2>3, <2>4, <2>5, <2>6 DEF todo
<1>8. ASSUME NEW path \in Paths
      PROVE  Arrived(files, disk', marker', path) \/ Altered(path)'
  <2>1. /\ SaveCatalog \subseteq Pending' /\ SaveMigrations \subseteq Pending'
        /\ RemoveIndexFiles(dropped) \subseteq Pending' /\ Saves \subseteq Pending'
    BY <1>1, PendingStage
  <2>2. Altered(CatalogFile)' /\ Altered(MigrationsFile)'
    BY <1>2, <1>4, <2>1, MetadataLead, AlteredBy DEF SaveCatalog, SaveMigrations
  <2>3. disk'.indexes = disk.indexes \/ Altered(IndexesFile)'
    <3>1. CASE dropped # {}
      <4>1. SaveIndexes \subseteq Pending'
        BY <2>1, <3>1
      <4> QED
        BY <1>2, <1>4, <4>1, MetadataLead, AlteredBy DEF SaveIndexes
    <3> QED
      BY <1>5, <3>1
  <2>4. ReplaceWrites(t) \subseteq writes'
    BY <1>1
  <2>5. \A i \in IndexNames : SameAt(disk'.index_files, disk.index_files, i) \/ Altered(IndexFile(i))'
    BY <1>1, <1>4, <1>5, <2>1, IndexFilesDropped
  <2> QED
    BY <1>1, <1>2, <1>4, <1>6, <2>2, <2>3, <2>4, <2>5, ArriveOrAltered DEF TypeOK
<1>9. SnapshotLeads'
  BY <1>1, <1>4, <1>7, LeadingIs, SnapshotUntouched
<1>10. \A step \in todo : PlainStep(todo, step, mine, last)
  BY <1>7
<1>11. Begins("drop column", todo)
  BY <1>1
<1> HIDE DEF todo, mine, last
<1> QED
  BY <1>2, <1>8, <1>9, <1>10, <1>11, PlainCall

LEMMA RenameColumnCrashSafe ==
    ASSUME CrashInv, NEW t \in Tables, NEW c \in Columns, NEW new \in Columns,
           RenameColumnCrash(t, c, new)
    PROVE  CrashInv'
<1> DEFINE todo == At(1, SaveCatalog) \cup At(2, SaveIndexes)
                       \cup ReplaceWrites(t) \cup At(6, SaveMigrations)
           mine == [stage |-> 4, write |-> WriteFile(TableFile(t), Lines(disk'.tables[t]))]
           last == [stage |-> 6, write |-> WriteFile(MigrationsFile, migrations')]
<1>1. RenameColumn(t, c, new) /\ Begins("rename column", todo) /\ writes = {} /\ writes' = todo
  BY DEF RenameColumnCrash, Begins
<1>2. TypeOK' /\ MetadataSaved' /\ NoOrphanHandle' /\ TxnOfProcess' /\ TypeOK
  BY <1>1, CallTyped DEF Next, CrashInv
<1>3. PICK rows : /\ ReplaceRows(t, rows, index_catalog', index_maps, dirty_indexes)
                  /\ disk'.tables = Put(disk.tables, t, rows)
  BY <1>1, <1>2, DiskFields DEF RenameColumn
<1>4. /\ running' /\ disk'.index_files = disk.index_files
      /\ disk'.tmp_rewrite = disk.tmp_rewrite
      /\ txn_snapshot' = txn_snapshot /\ txn_dir' = txn_dir
  BY <1>1, <1>2, DiskFields DEF RenameColumn
<1>5. /\ \A step \in ReplaceWrites(t) : PlainStep(todo, step, mine, last) /\ Leading(step.write)
      /\ ReplaceWrites(t) \subseteq writes' =>
           /\ \A u \in Tables : SameAt(disk'.tables, disk.tables, u) \/ Altered(TableFile(u))'
           /\ marker' = marker \/ Altered(MarkerFile)'
  <2>1. last.stage = 6
    OBVIOUS
  <2> HIDE DEF todo, last
  <2> QED
    BY <1>1, <1>2, <1>3, <2>1, ReplaceLeads
<1>6. ASSUME NEW step \in todo
      PROVE  PlainStep(todo, step, mine, last) /\ Leading(step.write)
  <2>1. last.stage = 6 /\ SaveMigrations = {WriteFile(MigrationsFile, migrations')}
    BY DEF SaveMigrations
  <2> HIDE DEF last, mine, todo
  <2>2. CASE step \in At(1, SaveCatalog)
    BY <1>2, <1>4, <2>1, <2>2, MetadataLead, StageOf, PlainStage
  <2>3. CASE step \in At(2, SaveIndexes)
    BY <1>2, <1>4, <2>1, <2>3, MetadataLead, StageOf, PlainStage
  <2>4. CASE step \in ReplaceWrites(t)
    BY <1>5, <2>4
  <2>5. CASE step \in At(6, SaveMigrations)
    BY <1>2, <1>4, <2>1, <2>5, MetadataLead, StageOf, PlainLast DEF last
  <2> QED
    BY <2>2, <2>3, <2>4, <2>5 DEF todo
<1>7. ASSUME NEW path \in Paths
      PROVE  Arrived(files, disk', marker', path) \/ Altered(path)'
  <2>1. SaveCatalog \subseteq Pending' /\ SaveIndexes \subseteq Pending' /\ SaveMigrations \subseteq Pending'
    BY <1>1, PendingStage
  <2>2. Altered(CatalogFile)' /\ Altered(MigrationsFile)' /\ Altered(IndexesFile)'
    BY <1>2, <1>4, <2>1, MetadataLead, AlteredBy DEF SaveCatalog, SaveMigrations, SaveIndexes
  <2>3. ReplaceWrites(t) \subseteq writes'
    BY <1>1
  <2>4. \A i \in IndexNames : SameAt(disk'.index_files, disk.index_files, i)
    BY <1>4, SameIsSame
  <2> QED
    BY <1>1, <1>2, <1>4, <1>5, <2>2, <2>3, <2>4, ArriveOrAltered DEF TypeOK
<1>8. SnapshotLeads'
  BY <1>1, <1>4, <1>6, LeadingIs, SnapshotUntouched
<1>9. \A step \in todo : PlainStep(todo, step, mine, last)
  BY <1>6
<1>10. Begins("rename column", todo)
  BY <1>1
<1> HIDE DEF todo, mine, last
<1> QED
  BY <1>2, <1>7, <1>8, <1>9, <1>10, PlainCall

---------------------------------------------------------------------------------
(* The calls that fail on an unreadable table *)

LEMMA WithoutNothing ==
    ASSUME NEW S, NEW T, NEW f, IsMap(f, S, T)
    PROVE  Without(f, {}) = f
  BY DEF IsMap, Without, Restrict

\* What these calls have in common: they save the catalog or the index catalog,
\* drop index files, and leave rows, row ids, log, marker and snapshot alone.
FailedCall(name, todo, dropped) ==
    /\ Begins(name, todo) /\ name \notin {"rollback", "begin"} /\ running
    /\ UNCHANGED <<marker, txn_snapshot, migrations, row_id_cursors, table_files,
                   unique_caches, indexes_clean, txn_dir, running>>
    /\ IsMap(catalog', Tables, Schema) /\ IsMap(index_catalog', IndexNames, IndexDefinition)
    /\ DOMAIN catalog' = DOMAIN catalog
    /\ \A u \in DOMAIN catalog : catalog'[u].next_row_id = catalog[u].next_row_id
    /\ index_maps' = Without(index_maps, dropped) /\ dirty_indexes' = dirty_indexes \ dropped
    /\ disk' = [disk EXCEPT !.catalog = catalog', !.indexes = index_catalog',
                            !.index_files = Without(@, dropped)]
    /\ \A step \in todo :
        /\ step.stage \in {1, 2, 3}
        /\ step.write \in SaveCatalog \cup SaveIndexes \cup RemoveIndexFiles(dropped)
    /\ catalog' = catalog \/ SaveCatalog \subseteq Pending'
    /\ index_catalog' = index_catalog \/ SaveIndexes \subseteq Pending'
    /\ RemoveIndexFiles(dropped) \subseteq Pending'

\* The same for a call that drops no index
LEMMA FailedWithout ==
    ASSUME CrashInv, NEW name, NEW todo, Begins(name, todo), name \notin {"rollback", "begin"}, running,
           UNCHANGED <<marker, txn_snapshot, migrations, row_id_cursors, table_files, unique_caches,
                       index_maps, dirty_indexes, indexes_clean, txn_dir, running>>,
           IsMap(catalog', Tables, Schema), IsMap(index_catalog', IndexNames, IndexDefinition),
           DOMAIN catalog' = DOMAIN catalog,
           \A u \in DOMAIN catalog : catalog'[u].next_row_id = catalog[u].next_row_id,
           disk' = [disk EXCEPT !.catalog = catalog', !.indexes = index_catalog'],
           \A step \in todo : step.stage \in {1, 2} /\ step.write \in SaveCatalog \cup SaveIndexes,
           catalog' = catalog \/ SaveCatalog \subseteq Pending',
           index_catalog' = index_catalog \/ SaveIndexes \subseteq Pending'
    PROVE  FailedCall(name, todo, {})
<1>1. Without(index_maps, {}) = index_maps /\ Without(disk.index_files, {}) = disk.index_files
  BY WithoutNothing DEF CrashInv, TypeOK, IsFiles
<1>2. disk' = [disk EXCEPT !.catalog = catalog', !.indexes = index_catalog',
                           !.index_files = Without(@, {})]
  BY <1>1, DiskFields DEF CrashInv
<1>3. RemoveIndexFiles({}) = {}
  BY DEF RemoveIndexFiles
<1>4. dirty_indexes' = dirty_indexes \ {} /\ index_maps' = Without(index_maps, {})
  BY <1>1
<1> QED
  BY <1>2, <1>3, <1>4 DEF FailedCall

LEMMA SavesPending ==
    ASSUME NEW name, NEW todo, Begins(name, todo), NEW n, NEW W, At(n, W) \subseteq todo
    PROVE  W \subseteq Pending'
  BY PendingStage DEF Begins

LEMMA FailingIs ==
    ASSUME CrashInv, NEW t \in Tables, FailingToRead(t)
    PROVE  \E name, todo : \E dropped \in SUBSET IndexNames : FailedCall(name, todo, dropped)
<1>1. TypeOK /\ MetadataSaved
  BY DEF CrashInv
<1>2. disk = [disk EXCEPT !.catalog = disk.catalog]
  BY <1>1, DiskFields
<1>3. ASSUME NEW c \in Columns, NEW i \in IndexNames, CreateIndexFails(i, t, c)
      PROVE  FailedCall("create index fails", At(1, SaveIndexes), {})
  <2>1. /\ Begins("create index fails", At(1, SaveIndexes)) /\ running /\ catalog' = catalog
        /\ index_catalog' = Put(index_catalog, i, [table |-> t, column |-> c])
        /\ UNCHANGED <<marker, txn_snapshot, migrations, row_id_cursors, table_files, unique_caches,
                       index_maps, dirty_indexes, indexes_clean, txn_dir, running>>
        /\ disk' = [disk EXCEPT !.indexes = index_catalog']
    BY <1>3 DEF CreateIndexFails
  <2>2. IsMap(index_catalog', IndexNames, IndexDefinition)
    BY <1>1, <2>1, PutIsMap DEF TypeOK, IndexDefinition
  <2>3. disk' = [disk EXCEPT !.catalog = catalog', !.indexes = index_catalog']
    BY <1>1, <2>1, DiskFields DEF MetadataSaved
  <2>4. \A step \in At(1, SaveIndexes) : step.stage \in {1, 2} /\ step.write \in SaveIndexes
    BY StageOf
  <2>5. SaveIndexes \subseteq Pending'
    <3>1. At(1, SaveIndexes) \subseteq writes'
      BY <2>1 DEF Begins
    <3> QED
      BY <3>1, PendingStage
  <2> QED
    BY <1>1, <2>1, <2>2, <2>3, <2>4, <2>5, FailedWithout DEF TypeOK
<1>4. ASSUME NEW c \in Columns, AddColumnFails(t, c)
      PROVE  FailedCall("add column fails", At(1, SaveCatalog), {})
  <2>1. /\ Begins("add column fails", At(1, SaveCatalog)) /\ running /\ index_catalog' = index_catalog
        /\ catalog' = [catalog EXCEPT ![t].columns = @ \cup {c}]
        /\ UNCHANGED <<marker, txn_snapshot, migrations, row_id_cursors, table_files, unique_caches,
                       index_maps, dirty_indexes, indexes_clean, txn_dir, running>>
        /\ disk' = [disk EXCEPT !.catalog = catalog']
    BY <1>4 DEF AddColumnFails
  <2>2. /\ IsMap(catalog', Tables, Schema) /\ DOMAIN catalog' = DOMAIN catalog
        /\ \A u \in DOMAIN catalog : catalog'[u].next_row_id = catalog[u].next_row_id
    BY <1>1, <2>1 DEF TypeOK, IsMap, Schema
  <2>3. disk' = [disk EXCEPT !.catalog = catalog', !.indexes = index_catalog']
    BY <1>1, <2>1, DiskFields DEF MetadataSaved
  <2>4. \A step \in At(1, SaveCatalog) : step.stage \in {1, 2} /\ step.write \in SaveCatalog
    BY StageOf
  <2>5. SaveCatalog \subseteq Pending'
    <3>1. At(1, SaveCatalog) \subseteq writes'
      BY <2>1 DEF Begins
    <3> QED
      BY <3>1, PendingStage
  <2> QED
    BY <1>1, <2>1, <2>2, <2>3, <2>4, <2>5, FailedWithout DEF TypeOK
<1>5. ASSUME NEW c \in Columns, DropColumnFails(t, c)
      PROVE  \E todo : \E dropped \in SUBSET IndexNames : FailedCall("drop column fails", todo, dropped)
  <2> DEFINE dropped == IndexesOnColumn(index_catalog, t, c)
             Saves == IF dropped = {} THEN {} ELSE SaveIndexes
             todo == At(1, SaveCatalog) \cup At(2, RemoveIndexFiles(dropped)) \cup At(3, Saves)
  <2>1. /\ Begins("drop column fails", todo) /\ running
        /\ catalog' = [catalog EXCEPT ![t].columns = @ \ {c}]
        /\ index_catalog' = Without(index_catalog, dropped)
        /\ index_maps' = Without(index_maps, dropped) /\ dirty_indexes' = dirty_indexes \ dropped
        /\ disk' = [disk EXCEPT !.catalog = catalog', !.indexes = index_catalog',
                                !.index_files = Without(@, dropped)]
        /\ UNCHANGED <<marker, txn_snapshot, migrations, row_id_cursors, table_files, unique_caches,
                       indexes_clean, txn_dir, running>>
    BY <1>5 DEF DropColumnFails
  <2>2. dropped \in SUBSET IndexNames
    BY <1>1 DEF IndexesOn, IndexesOnColumn, TypeOK, IsMap
  <2>3. Saves \subseteq SaveIndexes /\ (dropped # {} => Saves = SaveIndexes)
    OBVIOUS
  <2> HIDE DEF dropped, Saves
  <2>4. /\ IsMap(catalog', Tables, Schema) /\ DOMAIN catalog' = DOMAIN catalog
        /\ \A u \in DOMAIN catalog : catalog'[u].next_row_id = catalog[u].next_row_id
    BY <1>1, <2>1 DEF TypeOK, IsMap, Schema
  <2>5. IsMap(index_catalog', IndexNames, IndexDefinition)
    BY <1>1, <2>1, WithoutIsMap DEF TypeOK
  <2>6. ASSUME NEW step \in todo
        PROVE  /\ step.stage \in {1, 2, 3}
               /\ step.write \in SaveCatalog \cup SaveIndexes \cup RemoveIndexFiles(dropped)
    <3>1. CASE step \in At(1, SaveCatalog)
      BY <3>1, StageOf
    <3>2. CASE step \in At(2, RemoveIndexFiles(dropped))
      BY <3>2, StageOf
    <3>3. CASE step \in At(3, Saves)
      BY <2>3, <3>3, StageOf
    <3> QED
      BY <3>1, <3>2, <3>3
  <2>7. /\ SaveCatalog \subseteq Pending' /\ RemoveIndexFiles(dropped) \subseteq Pending'
        /\ Saves \subseteq Pending'
    <3>1. /\ At(1, SaveCatalog) \subseteq todo /\ At(2, RemoveIndexFiles(dropped)) \subseteq todo
          /\ At(3, Saves) \subseteq todo
      OBVIOUS
    <3> HIDE DEF todo
    <3> QED
      BY <2>1, <3>1, SavesPending
  <2>8. index_catalog' = index_catalog \/ SaveIndexes \subseteq Pending'
    <3>1. CASE dropped = {}
      <4>1. index_catalog' = index_catalog
        BY <1>1, <2>1, <3>1, WithoutNothing DEF TypeOK
      <4> QED
        BY <4>1
    <3> QED
      BY <2>3, <2>7, <3>1
  <2> HIDE DEF todo
  <2>9. FailedCall("drop column fails", todo, dropped)
    BY <2>1, <2>4, <2>5, <2>6, <2>7, <2>8 DEF FailedCall
  <2> QED
    BY <2>2, <2>9
<1>6. ASSUME NEW c \in Columns, NEW new \in Columns, RenameColumnFails(t, c, new)
      PROVE  FailedCall("rename column fails", At(1, SaveCatalog) \cup At(2, SaveIndexes), {})
  <2> DEFINE todo == At(1, SaveCatalog) \cup At(2, SaveIndexes)
  <2>1. /\ Begins("rename column fails", todo) /\ running
        /\ catalog' = [catalog EXCEPT ![t].columns = (@ \ {c}) \cup {new}]
        /\ index_catalog' = RenamedIndexes(t, c, new)
        /\ UNCHANGED <<marker, txn_snapshot, migrations, row_id_cursors, table_files, unique_caches,
                       index_maps, dirty_indexes, indexes_clean, txn_dir, running>>
        /\ disk' = [disk EXCEPT !.catalog = catalog', !.indexes = index_catalog']
    BY <1>6 DEF RenameColumnFails
  <2>2. /\ IsMap(catalog', Tables, Schema) /\ DOMAIN catalog' = DOMAIN catalog
        /\ \A u \in DOMAIN catalog : catalog'[u].next_row_id = catalog[u].next_row_id
    BY <1>1, <2>1 DEF TypeOK, IsMap, Schema
  <2>3. IsMap(index_catalog', IndexNames, IndexDefinition)
    BY <1>1, <2>1 DEF RenamedIndexes, TypeOK, IsMap, IndexDefinition
  <2>4. ASSUME NEW step \in todo
        PROVE  step.stage \in {1, 2} /\ step.write \in SaveCatalog \cup SaveIndexes
    <3>1. CASE step \in At(1, SaveCatalog)
      BY <3>1, StageOf
    <3>2. CASE step \in At(2, SaveIndexes)
      BY <3>2, StageOf
    <3> QED
      BY <3>1, <3>2
  <2>5. SaveCatalog \subseteq Pending' /\ SaveIndexes \subseteq Pending'
    <3>1. At(1, SaveCatalog) \subseteq todo /\ At(2, SaveIndexes) \subseteq todo
      OBVIOUS
    <3> HIDE DEF todo
    <3> QED
      BY <2>1, <3>1, SavesPending
  <2> HIDE DEF todo
  <2>6. FailedCall("rename column fails", todo, {})
    BY <2>1, <2>2, <2>3, <2>4, <2>5, FailedWithout
  <2> QED
    BY <2>6 DEF todo
<1>7. {} \in SUBSET IndexNames
  OBVIOUS
<1> QED
  BY <1>3, <1>4, <1>5, <1>6, <1>7 DEF FailingToRead

LEMMA FailingSafe ==
    ASSUME CrashInv, NEW t \in Tables, FailingToRead(t)
    PROVE  CrashInv'
<1>1. PICK name, todo : \E dropped \in SUBSET IndexNames : FailedCall(name, todo, dropped)
  BY FailingIs
<1>2. PICK dropped \in SUBSET IndexNames : FailedCall(name, todo, dropped)
  BY <1>1
<1> DEFINE none == [stage |-> 4, write |-> DropSnapshot]
<1>3. /\ Begins(name, todo) /\ name # "rollback" /\ name # "begin"
      /\ writes = {} /\ writes' = todo /\ running
      /\ UNCHANGED <<marker, txn_snapshot, migrations, row_id_cursors, table_files,
                     unique_caches, indexes_clean, txn_dir, running>>
      /\ IsMap(catalog', Tables, Schema) /\ IsMap(index_catalog', IndexNames, IndexDefinition)
      /\ index_maps' = Without(index_maps, dropped) /\ dirty_indexes' = dirty_indexes \ dropped
      /\ catalog' = catalog \/ SaveCatalog \subseteq Pending'
      /\ index_catalog' = index_catalog \/ SaveIndexes \subseteq Pending'
      /\ RemoveIndexFiles(dropped) \subseteq Pending'
  BY <1>2 DEF FailedCall, Begins
<1>4. TypeOK /\ MetadataSaved /\ NoOrphanHandle /\ TxnOfProcess
  BY DEF CrashInv
<1>5. /\ disk' = [disk EXCEPT !.catalog = catalog', !.indexes = index_catalog',
                              !.index_files = Without(@, dropped)]
      /\ disk'.catalog = catalog' /\ disk'.indexes = index_catalog'
      /\ disk'.migrations = disk.migrations /\ disk'.tables = disk.tables
      /\ disk'.index_files = Without(disk.index_files, dropped)
      /\ disk'.tmp_rewrite = disk.tmp_rewrite
  BY <1>2, <1>4, DiskFields DEF FailedCall
<1>6. TypeOK' /\ MetadataSaved' /\ NoOrphanHandle' /\ TxnOfProcess'
  <2>1. /\ IsMap(index_maps', IndexNames, IndexMap)
        /\ IsMap(disk'.index_files, IndexNames, IndexMap) /\ dirty_indexes' \subseteq IndexNames
    BY <1>3, <1>4, <1>5, WithoutIsMap DEF TypeOK, IsFiles
  <2>2. IsFiles(disk')
    BY <1>3, <1>4, <1>5, <2>1 DEF TypeOK, IsFiles
  <2>3. TypeOK'
    BY <1>3, <1>4, <2>1, <2>2 DEF TypeOK
  <2>4. MetadataSaved' /\ NoOrphanHandle' /\ TxnOfProcess'
    BY <1>3, <1>4, <1>5 DEF MetadataSaved, NoOrphanHandle, TxnOfProcess
  <2> QED
    BY <2>3, <2>4
<1>7. DOMAIN disk'.index_files \cap dropped = {}
  BY <1>5 DEF Without, Restrict
<1>8. ASSUME NEW step \in todo
      PROVE  PlainStep(todo, step, none, none) /\ Leading(step.write)
  <2>1. /\ step.stage \in {1, 2, 3} /\ none.stage = 4
        /\ step.write \in SaveCatalog \cup SaveIndexes \cup RemoveIndexFiles(dropped)
    BY <1>2 DEF FailedCall
  <2>2. Leading(step.write) /\ Elsewhere(step.write)
    BY <1>3, <1>6, <1>7, <2>1, MetadataLead, IndexFilesRemoved
  <2> QED
    BY <2>1, <2>2 DEF PlainStep
<1>9. ASSUME NEW path \in Paths
      PROVE  Arrived(files, disk', marker', path) \/ Altered(path)'
  <2>1. disk'.catalog = disk.catalog \/ Altered(CatalogFile)'
    BY <1>3, <1>4, <1>5, <1>6, MetadataLead, AlteredBy DEF SaveCatalog, MetadataSaved
  <2>2. disk'.indexes = disk.indexes \/ Altered(IndexesFile)'
    BY <1>3, <1>4, <1>5, <1>6, MetadataLead, AlteredBy DEF SaveIndexes, MetadataSaved
  <2>3. \A u \in Tables : SameAt(disk'.tables, disk.tables, u)
    BY <1>5, SameIsSame
  <2>4. \A x \in IndexNames : SameAt(disk'.index_files, disk.index_files, x) \/ Altered(IndexFile(x))'
    BY <1>3, <1>5, IndexFilesDropped
  <2> QED
    BY <1>3, <1>5, <1>6, <2>1, <2>2, <2>3, <2>4, ArriveOrAltered DEF TypeOK
<1>10. SnapshotLeads'
  BY <1>3, <1>8, LeadingIs, SnapshotUntouched
<1>11. \A step \in todo : PlainStep(todo, step, none, none)
  BY <1>8
<1> HIDE DEF none
<1> QED
  BY <1>3, <1>6, <1>9, <1>10, <1>11, PlainCall

LEMMA UpdateFailsCrashSafe ==
    ASSUME CrashInv, NEW t \in Tables, UpdateFailsCrash(t)
    PROVE  CrashInv'
<1> DEFINE aside == WriteFile(RewriteFile(t), Lines(<<>>))
           todo == At(1, {aside})
           none == [stage |-> 2, write |-> DropSnapshot]
<1>1. UpdateFails(t) /\ Begins("update fails", todo) /\ writes = {} /\ writes' = todo
  BY DEF UpdateFailsCrash, Begins
<1>2. TypeOK' /\ MetadataSaved' /\ NoOrphanHandle' /\ TxnOfProcess' /\ TypeOK
  BY <1>1, CallTyped DEF Next, CrashInv
<1>3. /\ disk'.catalog = disk.catalog /\ disk'.migrations = disk.migrations
      /\ disk'.indexes = disk.indexes /\ disk'.tables = disk.tables
      /\ disk'.index_files = disk.index_files /\ disk'.tmp_rewrite = disk.tmp_rewrite \cup {t}
      /\ marker' = marker /\ txn_snapshot' = txn_snapshot /\ txn_dir' = txn_dir
  BY <1>1, <1>2, DiskFields DEF UpdateFails
<1>4. Leading(aside) /\ OnlyAlters(aside, RewriteFile(t)) /\ Elsewhere(aside)
  <2>1. RewriteFile(t) \in Paths /\ ContentOK(RewriteFile(t), Lines(<<>>))
    <3>1. <<>> \in Seq(Row)
      OBVIOUS
    <3> QED
      BY <3>1, PathsAre, ContentsOf, LinesTyped
  <2>2. Leaves(disk', marker', RewriteFile(t), Lines(<<>>))
    BY <1>3, LeavesRewrite
  <2>3. Leading(aside) /\ OnlyAlters(aside, RewriteFile(t))
    BY <2>1, <2>2, LeadingWrite
  <2> QED
    BY <2>3, PathKinds DEF OnlyAlters, Elsewhere
<1>5. ASSUME NEW step \in todo
      PROVE  PlainStep(todo, step, none, none) /\ Leading(step.write)
  <2>1. none.stage = 2
    OBVIOUS
  <2> HIDE DEF none, aside
  <2> QED
    BY <1>4, <2>1, StageOf, PlainStage
<1>6. ASSUME NEW path \in Paths
      PROVE  Arrived(files, disk', marker', path) \/ Altered(path)'
  <2>1. {aside} \subseteq Pending'
    BY <1>1, PendingStage
  <2>2. Altered(RewriteFile(t))'
    BY <1>4, <2>1, AlteredBy
  <2>3. /\ \A u \in Tables : SameAt(disk'.tables, disk.tables, u)
        /\ \A x \in IndexNames : SameAt(disk'.index_files, disk.index_files, x)
    BY <1>3, SameIsSame
  <2>4. \A u \in Tables : (u \in disk'.tmp_rewrite <=> u \in disk.tmp_rewrite)
                              \/ Altered(RewriteFile(u))'
    BY <1>3, <2>2
  <2> QED
    BY <1>1, <1>2, <1>3, <2>3, <2>4, ArriveOrAltered DEF TypeOK
<1>7. SnapshotLeads'
  BY <1>1, <1>3, <1>5, LeadingIs, SnapshotUntouched
<1>8. \A step \in todo : PlainStep(todo, step, none, none)
  BY <1>5
<1>9. Begins("update fails", todo)
  BY <1>1
<1> HIDE DEF todo, none
<1> QED
  BY <1>2, <1>6, <1>7, <1>8, <1>9, PlainCall

---------------------------------------------------------------------------------
(* Opening, ending, flushing *)

LEMMA ExitCrashSafe ==
    ASSUME CrashInv, ExitCrash
    PROVE  CrashInv'
<1>1. Exit /\ Begins("exit", {}) /\ writes = {} /\ writes' = {}
  BY DEF ExitCrash, Begins
<1>2. TypeOK' /\ MetadataSaved' /\ NoOrphanHandle' /\ TxnOfProcess' /\ TypeOK
  BY <1>1, CallTyped DEF Next, CrashInv
<1>3. disk' = disk /\ marker' = marker /\ txn_snapshot' = txn_snapshot /\ txn_dir' = FALSE
  BY <1>1 DEF Exit, Forget
<1>4. \A path \in Paths : Arrived(files, disk', marker', path)
  BY <1>1, <1>3, BeforeCall
<1>5. SnapshotLeads'
  BY <1>1, <1>3, SnapshotUntouched
<1> QED
  BY <1>1, <1>2, <1>4, <1>5, PlainCall

LEMMA CommitCrashSafe ==
    ASSUME CrashInv, CommitCrash
    PROVE  CrashInv'
<1> DEFINE todo == At(1, {DropSnapshot})
           none == [stage |-> 2, write |-> DropSnapshot]
<1>1. CommitTransaction /\ Begins("commit", todo) /\ writes = {} /\ writes' = todo
  BY DEF CommitCrash, Begins
<1>2. TypeOK' /\ MetadataSaved' /\ NoOrphanHandle' /\ TxnOfProcess' /\ TypeOK
  BY <1>1, CallTyped DEF Next, CrashInv
<1>3. disk' = disk /\ marker' = marker /\ txn_snapshot' = NoSnapshot /\ txn_dir' = FALSE
  BY <1>1 DEF CommitTransaction
<1>4. \A path \in Paths : Arrived(files, disk', marker', path)
  BY <1>1, <1>3, BeforeCall
<1>5. \A step \in todo : step.stage = 1 /\ step.write = DropSnapshot
  BY StageOf
<1>6. SnapshotLeads'
  <2>1. \A w \in Pending' : w = DropSnapshot
    BY <1>1, <1>5 DEF Pending
  <2>2. DropSnapshot \in Pending'
    BY <1>1, PendingStage
  <2>3. todo # {}
    BY DEF At
  <2>4. call'.name = "commit"
    BY <1>1, <2>3 DEF Begins
  <2> QED
    BY <1>3, <2>1, <2>2, <2>4 DEF SnapshotLeads
<1>7. \A step \in todo : PlainStep(todo, step, none, none)
  <2>1. none.stage = 2
    OBVIOUS
  <2>2. Elsewhere(DropSnapshot)
    BY AltersNothing DEF Elsewhere
  <2> HIDE DEF todo, none
  <2> QED
    BY <1>5, <2>1, <2>2 DEF PlainStep
<1>8. Begins("commit", todo)
  BY <1>1
<1> HIDE DEF todo, none
<1> QED
  BY <1>2, <1>4, <1>6, <1>7, <1>8, PlainCall

\* flush_indexes: where the dirty maps go
LEMMA FlushLeads ==
    ASSUME CrashInv, writes = {}, disk'.index_files = FlushedFiles, marker'
    PROVE  /\ \A w \in DirtyMaps : Leading(w) /\ Elsewhere(w) /\ w[1] = "write"
           /\ Leading(WriteFile(MarkerFile, TRUE)) /\ Elsewhere(WriteFile(MarkerFile, TRUE))
           /\ OnlyAlters(WriteFile(MarkerFile, TRUE), MarkerFile)
           /\ DirtyMaps \subseteq Pending' =>
                \A i \in IndexNames :
                    SameAt(disk'.index_files, disk.index_files, i) \/ Altered(IndexFile(i))'
<1> DEFINE dirty == dirty_indexes \cap DOMAIN index_maps
<1>1. /\ dirty \subseteq IndexNames /\ \A i \in dirty : index_maps[i] \in IndexMap
      /\ \A i \in dirty : i \in DOMAIN disk'.index_files /\ disk'.index_files[i] = index_maps[i]
      /\ \A i : i \notin dirty => SameAt(disk'.index_files, disk.index_files, i)
  <2>1. dirty \subseteq IndexNames /\ \A i \in dirty : index_maps[i] \in IndexMap
    BY BeforeCall DEF TypeOK, IsMap
  <2>2. /\ \A i \in dirty : i \in DOMAIN FlushedFiles /\ FlushedFiles[i] = index_maps[i]
        /\ \A i : i \notin dirty => SameAt(FlushedFiles, disk.index_files, i)
    BY DEF FlushedFiles, Override, Restrict, SameAt
  <2> QED
    BY <2>1, <2>2
<1> HIDE DEF dirty
<1>2. ASSUME NEW i \in dirty
      PROVE  LET w == WriteFile(IndexFile(i), index_maps[i])
             IN  Leading(w) /\ OnlyAlters(w, IndexFile(i)) /\ Elsewhere(w) /\ w[1] = "write"
  <2> DEFINE w == WriteFile(IndexFile(i), index_maps[i])
  <2>1. i \in IndexNames /\ IndexFile(i) \in Paths
    BY <1>1, PathsAre
  <2>2. ContentOK(IndexFile(i), index_maps[i]) /\ Leaves(disk', marker', IndexFile(i), index_maps[i])
    BY <1>1, <2>1, ContentsOf, LeavesIndex
  <2>3. Leading(w) /\ OnlyAlters(w, IndexFile(i)) /\ w[1] = "write"
    BY <2>1, <2>2, LeadingWrite, WriteIs
  <2> HIDE DEF w
  <2>4. Elsewhere(w)
    BY <2>3, PathKinds DEF OnlyAlters, Elsewhere
  <2> QED
    BY <2>3, <2>4 DEF w
<1>3. DirtyMaps = {WriteFile(IndexFile(i), index_maps[i]) : i \in dirty}
  BY DEF DirtyMaps, dirty
<1>4. \A w \in DirtyMaps : Leading(w) /\ Elsewhere(w) /\ w[1] = "write"
  BY <1>2, <1>3
<1>5. /\ Leading(WriteFile(MarkerFile, TRUE)) /\ OnlyAlters(WriteFile(MarkerFile, TRUE), MarkerFile)
      /\ Elsewhere(WriteFile(MarkerFile, TRUE))
  <2>1. MarkerFile \in Paths /\ ContentOK(MarkerFile, TRUE) /\ Leaves(disk', marker', MarkerFile, TRUE)
    BY PathsAre, ContentsOf, LeavesMetadata
  <2>2. Leading(WriteFile(MarkerFile, TRUE)) /\ OnlyAlters(WriteFile(MarkerFile, TRUE), MarkerFile)
    BY <2>1, LeadingWrite
  <2> QED
    BY <2>2, PathKinds DEF OnlyAlters, Elsewhere
<1>6. ASSUME DirtyMaps \subseteq Pending', NEW i \in dirty
      PROVE  Altered(IndexFile(i))'
  <2>1. WriteFile(IndexFile(i), index_maps[i]) \in Pending'
    BY <1>3, <1>6
  <2> QED
    BY <2>1, AltersWrite DEF Altered
<1> QED
  BY <1>1, <1>4, <1>5, <1>6

LEMMA CloseCrashSafe ==
    ASSUME CrashInv, CloseCrash
    PROVE  CrashInv'
<1> DEFINE todo == FlushWrites
           none == [stage |-> 3, write |-> DropSnapshot]
<1>1. Close /\ Begins("close", todo) /\ writes = {} /\ writes' = todo
  BY DEF CloseCrash, Begins
<1>2. TypeOK' /\ MetadataSaved' /\ NoOrphanHandle' /\ TxnOfProcess' /\ TypeOK
  BY <1>1, CallTyped DEF Next, CrashInv
<1>3. /\ disk'.catalog = disk.catalog /\ disk'.migrations = disk.migrations
      /\ disk'.indexes = disk.indexes /\ disk'.tables = disk.tables
      /\ disk'.index_files = FlushedFiles /\ disk'.tmp_rewrite = disk.tmp_rewrite
      /\ marker' /\ txn_snapshot' = txn_snapshot /\ txn_dir' = FALSE
  BY <1>1, <1>2, DiskFields DEF Close, Forget
<1>4. /\ \A w \in DirtyMaps : Leading(w) /\ Elsewhere(w)
      /\ Leading(WriteFile(MarkerFile, TRUE)) /\ Elsewhere(WriteFile(MarkerFile, TRUE))
      /\ OnlyAlters(WriteFile(MarkerFile, TRUE), MarkerFile)
  BY <1>1, <1>3, FlushLeads
<1>5. ASSUME NEW step \in todo
      PROVE  PlainStep(todo, step, none, none) /\ Leading(step.write)
  <2>1. none.stage = 3
    OBVIOUS
  <2> HIDE DEF none, todo
  <2>2. CASE step \in At(1, DirtyMaps)
    BY <1>4, <2>1, <2>2, StageOf, PlainStage
  <2>3. CASE step \in At(2, {WriteFile(MarkerFile, TRUE)})
    <3> DEFINE mark == WriteFile(MarkerFile, TRUE)
    <3>1. step \in At(2, {mark}) /\ Leading(mark) /\ Elsewhere(mark)
      BY <1>4, <2>3
    <3> HIDE DEF mark
    <3>2. PlainStep(todo, step, none, none) /\ step.write = mark
      BY <2>1, <3>1, PlainOne
    <3> QED
      BY <3>1, <3>2
  <2> QED
    BY <2>2, <2>3 DEF todo, FlushWrites
<1>6. ASSUME NEW path \in Paths
      PROVE  Arrived(files, disk', marker', path) \/ Altered(path)'
  <2>1. DirtyMaps \subseteq Pending' /\ {WriteFile(MarkerFile, TRUE)} \subseteq Pending'
    BY <1>1, PendingStage DEF FlushWrites
  <2>2. Altered(MarkerFile)'
    BY <1>4, <2>1, AlteredBy
  <2>3. \A i \in IndexNames :
            SameAt(disk'.index_files, disk.index_files, i) \/ Altered(IndexFile(i))'
    BY <1>1, <1>3, <2>1, FlushLeads
  <2>4. \A u \in Tables : SameAt(disk'.tables, disk.tables, u)
    BY <1>3, SameIsSame
  <2> QED
    BY <1>1, <1>2, <1>3, <2>2, <2>3, <2>4, ArriveOrAltered DEF TypeOK
<1>7. SnapshotLeads'
  BY <1>1, <1>3, <1>5, LeadingIs, SnapshotUntouched
<1>8. \A step \in todo : PlainStep(todo, step, none, none)
  BY <1>5
<1>9. Begins("close", todo)
  BY <1>1
<1> HIDE DEF todo, none
<1> QED
  BY <1>2, <1>6, <1>7, <1>8, <1>9, PlainCall

\* A call that removes the snapshot, if there is one
LEMMA SnapshotDropped ==
    ASSUME CrashInv, NEW name, NEW todo, Begins(name, todo), name # "begin",
           \A step \in todo : ~SnapshotWrite(step.write) \/ step.write = DropSnapshot,
           txn_snapshot' = NoSnapshot, ~txn_dir', DropSnapshotIfThere \subseteq Pending'
    PROVE  SnapshotLeads'
<1>1. /\ writes = {} /\ writes' = todo /\ snapshot_files' = snapshot_files
      /\ todo # {} => call' = [name |-> name, before |-> disk]
  BY DEF Begins
<1>2. ~(writes' # {} /\ call'.name = "begin")
  BY <1>1
<1>3. \A w \in Pending' : SnapshotWrite(w) => w = DropSnapshot
  BY <1>1 DEF Pending
<1>4. DropSnapshot \notin Pending' => snapshot_files = NoSnapshot
  BY DEF DropSnapshotIfThere, DoIf
<1> QED
  BY <1>1, <1>2, <1>3, <1>4 DEF SnapshotLeads, AsSnapshot

LEMMA DropIsPlain ==
    ASSUME NEW step \in At(1, DropSnapshotIfThere), NEW todo, NEW last, last.stage = 4
    PROVE  PlainStep(todo, step, last, last) /\ step.write = DropSnapshot
<1>1. step.stage = 1 /\ step.write = DropSnapshot
  BY StageOf DEF DropSnapshotIfThere, DoIf
<1>2. Elsewhere(DropSnapshot)
  BY AltersNothing DEF Elsewhere
<1> QED
  BY <1>1, <1>2 DEF PlainStep

LEMMA OpenCrashSafe ==
    ASSUME CrashInv, OpenCrash
    PROVE  CrashInv'
<1> DEFINE todo == OpenWrites
           none == [stage |-> 4, write |-> DropSnapshot]
<1>1. Open /\ Begins("open", todo) /\ writes = {} /\ writes' = todo
  BY DEF OpenCrash, Begins
<1>2. TypeOK' /\ MetadataSaved' /\ NoOrphanHandle' /\ TxnOfProcess' /\ TypeOK
  BY <1>1, CallTyped DEF Next, CrashInv
<1>3. disk' = disk /\ marker' = FALSE /\ txn_snapshot' = NoSnapshot /\ txn_dir' = FALSE
  BY <1>1 DEF Open
<1>4. /\ Leading(RemoveFile(MarkerFile)) /\ OnlyAlters(RemoveFile(MarkerFile), MarkerFile)
      /\ Elsewhere(RemoveFile(MarkerFile))
  <2>1. MarkerFile \in Paths /\ LeavesNo(disk', marker', MarkerFile)
    BY <1>3, PathsAre, LeavesNoMetadata
  <2>2. Leading(RemoveFile(MarkerFile)) /\ OnlyAlters(RemoveFile(MarkerFile), MarkerFile)
    BY <2>1, LeadingRemove
  <2> QED
    BY <2>2, PathKinds DEF OnlyAlters, Elsewhere
<1>5. ASSUME NEW step \in todo
      PROVE  /\ PlainStep(todo, step, none, none)
             /\ ~SnapshotWrite(step.write) \/ step.write = DropSnapshot
  <2>1. none.stage = 4
    OBVIOUS
  <2> HIDE DEF none, todo
  <2>2. CASE step \in At(1, DropSnapshotIfThere)
    BY <2>1, <2>2, DropIsPlain
  <2>3. CASE step \in At(2, RemoveIfThere(MarkerFile))
    <3>1. \A w \in RemoveIfThere(MarkerFile) : Leading(w) /\ Elsewhere(w)
      BY <1>4 DEF RemoveIfThere, DoIf
    <3>2. Leading(step.write) /\ 2 < none.stage
      BY <2>1, <2>3, <3>1, StageOf
    <3>3. PlainStep(todo, step, none, none)
      BY <2>3, <3>1, <3>2, PlainStage
    <3> QED
      BY <3>2, <3>3, LeadingIs
  <2> QED
    BY <2>2, <2>3 DEF todo, OpenWrites
<1>6. DropSnapshotIfThere \subseteq Pending' /\ RemoveIfThere(MarkerFile) \subseteq Pending'
  BY <1>1, PendingStage DEF OpenWrites
<1>7. ASSUME NEW path \in Paths
      PROVE  Arrived(files, disk', marker', path) \/ Altered(path)'
  <2>1. marker' = marker \/ Altered(MarkerFile)'
    <3>1. CASE MarkerFile \in DOMAIN files
      <4>1. RemoveFile(MarkerFile) \in Pending'
        BY <1>6, <3>1 DEF RemoveIfThere, DoIf
      <4> QED
        BY <1>4, <4>1, AlteredBy
    <3>2. CASE MarkerFile \notin DOMAIN files
      <4>1. ~marker /\ marker \in BOOLEAN
        BY <1>1, <3>2, BeforeCall DEF TypeOK
      <4> QED
        BY <1>3, <4>1
    <3> QED
      BY <3>1, <3>2
  <2>2. /\ \A u \in Tables : SameAt(disk'.tables, disk.tables, u)
        /\ \A x \in IndexNames : SameAt(disk'.index_files, disk.index_files, x)
    BY <1>3, SameIsSame
  <2> QED
    BY <1>1, <1>2, <1>3, <2>1, <2>2, ArriveOrAltered DEF TypeOK
<1>8. SnapshotLeads'
  BY <1>1, <1>3, <1>5, <1>6, SnapshotDropped
<1>9. \A step \in todo : PlainStep(todo, step, none, none)
  BY <1>5
<1>10. Begins("open", todo)
  BY <1>1
<1> HIDE DEF todo, none
<1> QED
  BY <1>2, <1>7, <1>8, <1>9, <1>10, PlainCall

LEMMA OpenFailsSafe ==
    ASSUME CrashInv, OpenFails
    PROVE  CrashInv'
<1>1. PICK built \in SUBSET (DOMAIN disk.indexes \ Unbuildable) :
        LET maps == Restrict(RebuiltMaps(disk), built) IN
        /\ disk' = [disk EXCEPT !.index_files = Override(@, maps)]
        /\ marker' = TRUE
        /\ txn_snapshot' = NoSnapshot
        /\ Begins("open fails",
               At(1, DropSnapshotIfThere)
                   \cup At(2, {WriteFile(IndexFile(i), maps[i]) : i \in built})
                   \cup At(3, {WriteFile(MarkerFile, TRUE)}))
  BY DEF OpenFails
<1> DEFINE maps == Restrict(RebuiltMaps(disk), built)
           written == {WriteFile(IndexFile(i), maps[i]) : i \in built}
           todo == At(1, DropSnapshotIfThere) \cup At(2, written)
                       \cup At(3, {WriteFile(MarkerFile, TRUE)})
           none == [stage |-> 4, write |-> DropSnapshot]
<1>2. Begins("open fails", todo) /\ writes = {} /\ writes' = todo
  BY <1>1 DEF Begins
<1>3. /\ TypeOK /\ ~running /\ ~running' /\ UNCHANGED memory /\ ~txn_dir /\ NoOrphanHandle
  BY DEF OpenFails, memory, CrashInv, TxnOfProcess
<1>4. /\ disk'.catalog = disk.catalog /\ disk'.migrations = disk.migrations
      /\ disk'.indexes = disk.indexes /\ disk'.tables = disk.tables
      /\ disk'.index_files = Override(disk.index_files, maps)
      /\ disk'.tmp_rewrite = disk.tmp_rewrite
      /\ marker' = TRUE /\ txn_snapshot' = NoSnapshot
  BY <1>1, <1>3, DiskFields
<1>5. /\ IsMap(maps, IndexNames, IndexMap) /\ DOMAIN maps = built
      /\ built \subseteq IndexNames
  <2>1. IsMap(RebuiltMaps(disk), IndexNames, IndexMap) /\ DOMAIN RebuiltMaps(disk) = DOMAIN disk.indexes
    BY <1>3, RebuiltMapsAreMaps DEF TypeOK, RebuiltMaps
  <2> QED
    BY <2>1 DEF IsMap, Restrict
<1>6. IsFiles(disk')
  <2>1. disk' = [catalog |-> disk.catalog, migrations |-> disk.migrations,
                 indexes |-> disk.indexes, tables |-> disk.tables,
                 index_files |-> Override(disk.index_files, maps), tmp_rewrite |-> disk.tmp_rewrite]
    BY <1>1, <1>3, DiskFields
  <2>2. IsMap(Override(disk.index_files, maps), IndexNames, IndexMap)
    BY <1>3, <1>5, TypedParts, OverrideIsMap
  <2> HIDE DEF maps
  <2> QED
    BY <1>3, <2>1, <2>2 DEF TypeOK, IsFiles
<1>7. TypeOK' /\ MetadataSaved' /\ NoOrphanHandle' /\ TxnOfProcess'
  <2> HIDE DEF maps, todo, none
  <2> QED
    BY <1>3, <1>4, <1>6 DEF memory, TypeOK, MetadataSaved, NoOrphanHandle, TxnOfProcess
<1> HIDE DEF maps
<1>8. /\ \A i \in built : i \in DOMAIN disk'.index_files /\ disk'.index_files[i] = maps[i]
      /\ \A i : i \notin built => SameAt(disk'.index_files, disk.index_files, i)
  BY <1>4, <1>5 DEF Override, SameAt
<1>9. \A i \in built :
          /\ Leading(WriteFile(IndexFile(i), maps[i]))
          /\ OnlyAlters(WriteFile(IndexFile(i), maps[i]), IndexFile(i))
  <2>1. ASSUME NEW i \in built
        PROVE  /\ Leading(WriteFile(IndexFile(i), maps[i]))
               /\ OnlyAlters(WriteFile(IndexFile(i), maps[i]), IndexFile(i))
    <3>1. i \in IndexNames /\ IndexFile(i) \in Paths /\ maps[i] \in IndexMap
      BY <1>5, PathsAre DEF IsMap
    <3>2. ContentOK(IndexFile(i), maps[i]) /\ Leaves(disk', marker', IndexFile(i), maps[i])
      BY <1>8, <3>1, ContentsOf, LeavesIndex
    <3> QED
      BY <3>1, <3>2, LeadingWrite
  <2> QED
    BY <2>1
<1>10. \A w \in written : Leading(w) /\ Elsewhere(w)
  <2>1. ASSUME NEW w, NEW i, OnlyAlters(w, IndexFile(i))
        PROVE  Elsewhere(w)
    BY <2>1, PathKinds DEF OnlyAlters, Elsewhere
  <2> QED
    BY <1>9, <2>1
<1>11. /\ Leading(WriteFile(MarkerFile, TRUE)) /\ OnlyAlters(WriteFile(MarkerFile, TRUE), MarkerFile)
       /\ Elsewhere(WriteFile(MarkerFile, TRUE))
  <2>1. MarkerFile \in Paths /\ ContentOK(MarkerFile, TRUE) /\ Leaves(disk', marker', MarkerFile, TRUE)
    BY <1>4, PathsAre, ContentsOf, LeavesMetadata
  <2>2. Leading(WriteFile(MarkerFile, TRUE)) /\ OnlyAlters(WriteFile(MarkerFile, TRUE), MarkerFile)
    BY <2>1, LeadingWrite
  <2> QED
    BY <2>2, PathKinds DEF OnlyAlters, Elsewhere
<1>12. /\ DropSnapshotIfThere \subseteq Pending' /\ written \subseteq Pending'
       /\ {WriteFile(MarkerFile, TRUE)} \subseteq Pending'
  BY <1>2, PendingStage
<1>13. \A i \in built : Altered(IndexFile(i))'
  <2>1. \A i \in built : WriteFile(IndexFile(i), maps[i]) \in Pending'
    BY <1>12
  <2> QED
    BY <1>9, <2>1, AlteredBy
<1>14. ASSUME NEW step \in todo
       PROVE  /\ PlainStep(todo, step, none, none)
              /\ ~SnapshotWrite(step.write) \/ step.write = DropSnapshot
  <2>1. none.stage = 4
    OBVIOUS
  <2> HIDE DEF none, todo, written
  <2>2. CASE step \in At(1, DropSnapshotIfThere)
    BY <2>1, <2>2, DropIsPlain
  <2>3. CASE step \in At(2, written)
    <3>1. Leading(step.write) /\ 2 < none.stage
      BY <1>10, <2>1, <2>3, StageOf
    <3>2. PlainStep(todo, step, none, none)
      BY <1>10, <2>3, <3>1, PlainStage
    <3> QED
      BY <3>1, <3>2, LeadingIs
  <2>4. CASE step \in At(3, {WriteFile(MarkerFile, TRUE)})
    <3> DEFINE mark == WriteFile(MarkerFile, TRUE)
    <3>1. step \in At(3, {mark}) /\ Leading(mark) /\ Elsewhere(mark)
      BY <1>11, <2>4
    <3> HIDE DEF mark
    <3>2. PlainStep(todo, step, none, none) /\ step.write = mark
      BY <2>1, <3>1, PlainOne
    <3> QED
      BY <3>1, <3>2, LeadingIs
  <2> QED
    BY <2>2, <2>3, <2>4 DEF todo
<1>15. ASSUME NEW path \in Paths
       PROVE  Arrived(files, disk', marker', path) \/ Altered(path)'
  <2>1. Altered(MarkerFile)'
    BY <1>11, <1>12, AlteredBy
  <2>2. \A i \in IndexNames :
            SameAt(disk'.index_files, disk.index_files, i) \/ Altered(IndexFile(i))'
    BY <1>8, <1>13
  <2>3. \A u \in Tables : SameAt(disk'.tables, disk.tables, u)
    BY <1>4, SameIsSame
  <2> HIDE DEF todo, none, written
  <2> QED
    BY <1>2, <1>4, <1>6, <2>1, <2>2, <2>3, ArriveOrAltered
<1>16. SnapshotLeads'
  <2> HIDE DEF todo, none, written
  <2>1. ~txn_dir'
    BY <1>3 DEF memory
  <2> QED
    BY <1>2, <1>4, <1>12, <1>14, <2>1, SnapshotDropped
<1>17. \A step \in todo : PlainStep(todo, step, none, none)
  BY <1>14
<1>18. Begins("open fails", todo)
  BY <1>2
<1> HIDE DEF todo, none
<1> QED
  BY <1>7, <1>15, <1>16, <1>17, <1>18, PlainCall

---------------------------------------------------------------------------------
(* The calls that change rows *)

LEMMA InsertCrashSafe ==
    ASSUME CrashInv, NEW t \in Tables, t \in DOMAIN catalog,
           NEW data \in [catalog[t].columns -> Val], InsertCrash(t, data)
    PROVE  CrashInv'
<1> DEFINE row == [id |-> NextRowId(t), data |-> data]
           line == AppendLine(t, row)
           Saves == IF HasCursor(t) THEN {} ELSE SaveCatalog
           Forgets == ForgetMarker(IndexesOn(index_catalog, t))
           mine == [stage |-> 2, write |-> line]
           todo == InsertWrites(t, row)
<1>1. Insert(t, data) /\ Begins("insert", todo) /\ writes = {} /\ writes' = todo
  BY DEF InsertCrash, Begins
<1>2. TypeOK' /\ MetadataSaved' /\ NoOrphanHandle' /\ TxnOfProcess' /\ TypeOK
  <2>1. Next
    BY <1>1 DEF Next
  <2> QED
    BY <2>1, CallTyped DEF CrashInv
<1>3. /\ running' /\ disk'.tables = Put(disk.tables, t, Append(RowsOf(t), row))
      /\ disk'.migrations = disk.migrations /\ disk'.indexes = disk.indexes
      /\ disk'.index_files = disk.index_files /\ disk'.tmp_rewrite = disk.tmp_rewrite
      /\ disk'.catalog = catalog' /\ txn_snapshot' = txn_snapshot /\ txn_dir' = txn_dir
      /\ HasCursor(t) => catalog' = catalog
  <2>1. table_files[t] # "orphan"
    BY DEF CrashInv, NoOrphanHandle
  <2>2. HasCursor(t) => catalog' = catalog
    BY <1>1 DEF Insert, AllocateRowId
  <2> HIDE DEF todo, mine
  <2> QED
    BY <1>1, <1>2, <2>1, <2>2, DiskFields DEF Insert
<1>4. HasCursor(t) => disk'.catalog = disk.catalog
  BY <1>1, <1>3 DEF Insert, CrashInv, MetadataSaved
<1> HIDE DEF row
<1>5. /\ t \in DOMAIN disk'.tables /\ disk'.tables[t] = Append(RowsIn(AsDisk(files).tables, t), row)
      /\ row \in Row
  <2> HIDE DEF todo, line, mine
  <2>1. RowsOf(t) = RowsIn(AsDisk(files).tables, t) /\ RowsOf(t) \in Seq(Row)
    BY <1>1, <1>2, BeforeCall, TypedParts DEF RowsOf
  <2>2. t \in DOMAIN disk'.tables /\ disk'.tables[t] = Append(RowsOf(t), row)
    <3> DEFINE longer == Append(RowsOf(t), row)
    <3>1. disk'.tables = Put(disk.tables, t, longer)
      BY <1>3
    <3> HIDE DEF longer
    <3>2. t \in DOMAIN disk'.tables /\ disk'.tables[t] = longer
      BY <3>1, PutThere
    <3> QED
      BY <3>2 DEF longer
  <2>3. Append(RowsOf(t), row) \in Seq(Row)
    <3>1. disk'.tables \in [DOMAIN disk'.tables -> Seq(Row)]
      BY <1>2 DEF TypeOK, IsFiles, IsMap
    <3> QED
      BY <2>2, <3>1
  <2>4. /\ Len(RowsOf(t)) + 1 \in DOMAIN Append(RowsOf(t), row)
        /\ Append(RowsOf(t), row)[Len(RowsOf(t)) + 1] = row
    BY <2>1
  <2>5. row \in Row
    BY <2>3, <2>4
  <2> QED
    BY <2>1, <2>2, <2>5
<1>6. PICK new : WriteIndexMaps(index_maps, dirty_indexes, new) /\ DOMAIN new = IndexesOn(index_catalog, t)
  BY <1>1 DEF Insert, ExtendedMaps
<1>7. /\ \A w \in Saves : Leading(w) /\ Elsewhere(w) /\ OnlyAlters(w, CatalogFile)
      /\ \A w \in Forgets : Leading(w) /\ Elsewhere(w)
  <2>1. Saves \subseteq SaveCatalog
    OBVIOUS
  <2> HIDE DEF Saves
  <2> QED
    BY <1>1, <1>2, <1>3, <1>6, <2>1, MetadataLead, MarkerForgotten
<1>8. /\ \A path : Alters(line, path) <=> path = TableFile(t)
      /\ ~Alters(line, MigrationsFile) /\ ~SnapshotWrite(line) /\ \A u : line # Rename(u)
      /\ line[1] = "append"
  <2>1. line[1] = "append"
    BY AppendIs
  <2>2. \A path : Alters(line, path) <=> path = TableFile(t)
    BY AltersAppend
  <2> HIDE DEF line
  <2>3. ~Alters(line, MigrationsFile)
    BY <2>2, PathKinds
  <2> QED
    BY <2>1, <2>2, <2>3, RenameOf, SnapshotIs DEF SnapshotWrite
<1>9. /\ ~SnapshotWrite(EndLine(t)) /\ Elsewhere(EndLine(t)) /\ \A u : EndLine(t) # Rename(u)
  BY EndIs, SnapshotIs, RenameOf, AltersNothing DEF SnapshotWrite, Elsewhere
<1>10. ASSUME NEW step \in todo
       PROVE  \/ Leading(step.write) /\ Elsewhere(step.write) /\ step.stage \in Nat
              \/ step = mine
              \/ step.write = EndLine(t) /\ step.stage \in Nat
  <2> HIDE DEF line, Saves
  <2>1. CASE step \in At(1, Saves)
    BY <1>7, <2>1, StageOf
  <2>2. CASE step \in At(2, {line})
    BY <2>2, StageOf
  <2>3. CASE step \in At(3, {EndLine(t)})
    BY <2>3, StageOf
  <2>4. CASE step \in At(4, Forgets)
    BY <1>7, <2>4, StageOf
  <2> QED
    BY <2>1, <2>2, <2>3, <2>4 DEF InsertWrites, line, Saves
<1>11. mine.stage \in Nat /\ mine.write = line
  OBVIOUS
<1> HIDE DEF line, mine
<1>12. ASSUME NEW step \in todo
       PROVE  /\ step.stage \in Nat /\ ~SnapshotWrite(step.write)
              /\ ~Alters(step.write, MigrationsFile) /\ \A u : step.write # Rename(u)
              /\ \A u \in Tables : Alters(step.write, TableFile(u)) => step = mine
  BY <1>8, <1>9, <1>10, <1>11, LeadingIs DEF Elsewhere
<1>13. ASSUME NEW step \in todo
       PROVE  StepFits(step)'
  <2>1. CASE step = mine
    <3>1. /\ step.write = AppendLine(t, row) /\ row \in {step.write[3]}
          /\ step.write[1] = "append"
      BY <1>8, <1>11, <2>1, AppendIs DEF line
    <3>2. \A other \in writes' : Alters(other.write, TableFile(t)) => other = step
      BY <1>1, <1>12, <2>1
    <3>3. disk'.tables[t] = Append(RowsIn(AsDisk(files').tables, t), row)
      BY <1>1, <1>5 DEF Begins
    <3>4. AppendsFit(step)'
      BY <1>5, <3>1, <3>2, <3>3 DEF AppendsFit
    <3> QED
      BY <3>1, <3>4 DEF StepFits
  <2>2. CASE step.write = EndLine(t)
    BY <2>2 DEF StepFits, OthersFit
  <2> QED
    BY <1>10, <2>1, <2>2, LeadingFits
<1>14. ASSUME NEW path \in Paths
       PROVE  Arrived(files, disk', marker', path) \/ Altered(path)'
  <2>1. Saves \subseteq Pending' /\ Forgets \subseteq Pending' /\ line \in Pending'
    <3>1. At(1, Saves) \subseteq writes' /\ At(2, {line}) \subseteq writes' /\ At(4, Forgets) \subseteq writes'
      BY <1>1 DEF InsertWrites, line
    <3> HIDE DEF Saves
    <3> QED
      BY <3>1, PendingStage
  <2>2. disk'.catalog = disk.catalog \/ Altered(CatalogFile)'
    <3>1. CASE ~HasCursor(t)
      <4>1. WriteFile(CatalogFile, catalog') \in Saves
        BY <3>1 DEF SaveCatalog
      <4> HIDE DEF Saves
      <4> QED
        BY <1>7, <2>1, <4>1, AlteredBy
    <3> QED
      BY <1>4, <3>1
  <2>3. marker' = marker \/ Altered(MarkerFile)'
    BY <1>1, <1>6, <2>1, MarkerArrives
  <2>4. Altered(TableFile(t))'
    BY <1>8, <2>1 DEF Altered
  <2>5. \A u \in Tables : SameAt(disk'.tables, disk.tables, u) \/ Altered(TableFile(u))'
    BY <1>3, <2>4, PutElsewhere
  <2>6. \A x \in IndexNames : SameAt(disk'.index_files, disk.index_files, x)
    BY <1>3, SameIsSame
  <2> HIDE DEF Saves, todo
  <2> QED
    BY <1>1, <1>2, <1>3, <2>2, <2>3, <2>5, <2>6, ArriveOrAltered DEF TypeOK
<1>15. SnapshotLeads'
  BY <1>1, <1>3, <1>12, SnapshotUntouched
<1>16. Rename(t) \notin Pending' /\ \A u : Rename(u) \notin Pending'
  BY <1>1, <1>12 DEF Pending
<1>17. \A step \in todo : step.stage \in Nat /\ StepFits(step)'
  BY <1>12, <1>13
<1>18. \A step, other \in todo :
           Alters(step.write, MigrationsFile) => other = step \/ other.stage < step.stage
  BY <1>12
<1>19. \A step, other \in todo : \A u \in Tables :
           /\ \/ Alters(step.write, TableFile(u)) /\ step.write # Rename(u)
              \/ step.write = Aside(u)' /\ Rename(u) \in Pending'
           /\ Alters(other.write, TableFile(u))
           => other = step \/ step.stage < other.stage
  BY <1>12, <1>16
<1>20. Begins("insert", todo)
  BY <1>1
<1> HIDE DEF todo
<1> QED
  BY <1>2, <1>14, <1>15, <1>17, <1>18, <1>19, <1>20, CallSafe

\* The writes of rewrite_rows
LEMMA RewriteSteps ==
    ASSUME CrashInv, writes = {}, NEW t \in Tables, NEW rows,
           ReplaceRows(t, rows, index_catalog, index_maps, dirty_indexes),
           NEW step \in RewriteWrites(t)
    PROVE  \/ step = [stage |-> 1, write |-> WriteFile(RewriteFile(t), Lines(disk'.tables[t]))]
           \/ step = [stage |-> 2, write |-> RemoveFile(TableFile(t))]
           \/ step = [stage |-> 3, write |-> Rename(t)]
           \/ /\ step.stage = 4 /\ Leading(step.write) /\ Elsewhere(step.write)
              /\ OnlyAlters(step.write, MarkerFile)
<1> DEFINE aside == WriteFile(RewriteFile(t), Lines(disk'.tables[t]))
           rename == RenameFile(RewriteFile(t), TableFile(t))
           remove == RemoveFile(TableFile(t))
           Forgets == ForgetMarker(IndexesOn(index_catalog, t))
<1>1. \A w \in Forgets : Leading(w) /\ OnlyAlters(w, MarkerFile) /\ Elsewhere(w)
  <2>1. PICK new : WriteIndexMaps(index_maps, dirty_indexes, new) /\ DOMAIN new = IndexesOn(index_catalog, t)
    BY DEF ReplaceRows
  <2> QED
    BY <2>1, MarkerForgotten
<1>2. rename = Rename(t) /\ RemoveIfThere(TableFile(t)) \subseteq {remove}
  BY DEF Rename, RemoveIfThere, DoIf
<1>3. step \in At(1, {aside}) \cup At(2, RemoveIfThere(TableFile(t))) \cup At(3, {rename})
                  \cup At(4, Forgets)
  BY DEF RewriteWrites
<1> HIDE DEF aside, rename, remove, Forgets
<1>4. CASE step \in At(1, {aside})
  BY <1>4, StageOf DEF aside
<1>5. CASE step \in At(2, RemoveIfThere(TableFile(t)))
  BY <1>2, <1>5, StageOf DEF remove
<1>6. CASE step \in At(3, {rename})
  BY <1>2, <1>6, StageOf
<1>7. CASE step \in At(4, Forgets)
  BY <1>1, <1>7, StageOf
<1> QED
  BY <1>3, <1>4, <1>5, <1>6, <1>7

LEMMA RewriteSafe ==
    ASSUME CrashInv, NEW t \in Tables, NEW name, Begins(name, RewriteWrites(t)),
           name # "rollback", name # "begin", NEW rows,
           ReplaceRows(t, rows, index_catalog, index_maps, dirty_indexes),
           disk' = [disk EXCEPT !.tables = Put(@, t, rows), !.tmp_rewrite = @ \ {t}],
           txn_snapshot' = txn_snapshot, txn_dir' = txn_dir,
           TypeOK', MetadataSaved', NoOrphanHandle', TxnOfProcess'
    PROVE  CrashInv'
<1> DEFINE todo == RewriteWrites(t)
           aside == WriteFile(RewriteFile(t), Lines(disk'.tables[t]))
           remove == RemoveFile(TableFile(t))
           first == [stage |-> 1, write |-> aside]
           second == [stage |-> 2, write |-> remove]
           third == [stage |-> 3, write |-> Rename(t)]
           Rest(step) == /\ step.stage = 4 /\ Leading(step.write) /\ Elsewhere(step.write)
                         /\ OnlyAlters(step.write, MarkerFile)
<1>1. Begins(name, todo) /\ writes = {} /\ writes' = todo /\ TypeOK
  BY DEF Begins, CrashInv
<1>2. /\ disk'.catalog = disk.catalog /\ disk'.migrations = disk.migrations
      /\ disk'.indexes = disk.indexes /\ disk'.tables = Put(disk.tables, t, rows)
      /\ disk'.index_files = disk.index_files /\ disk'.tmp_rewrite = disk.tmp_rewrite \ {t}
  BY <1>1, DiskFields
<1>3. t \in DOMAIN disk'.tables /\ disk'.tables[t] = rows /\ rows \in Seq(Row)
  <2>1. t \in DOMAIN disk'.tables /\ disk'.tables[t] = rows
    BY <1>2, PutThere
  <2> QED
    BY <2>1 DEF TypeOK, IsFiles, IsMap
<1>4. ASSUME NEW step \in todo
      PROVE  step = first \/ step = second \/ step = third \/ Rest(step)
  BY <1>1, <1>4, RewriteSteps
<1>5. /\ first.stage = 1 /\ first.write = aside /\ second.stage = 2 /\ second.write = remove
      /\ third.stage = 3 /\ third.write = Rename(t)
  OBVIOUS
<1>6. Aside(t)' = aside
  BY DEF Aside
<1>7. aside \in Pending' /\ Rename(t) \in Pending'
  <2>1. At(1, {aside}) \subseteq writes' /\ At(3, {Rename(t)}) \subseteq writes'
    BY <1>1 DEF RewriteWrites, Rename
  <2> HIDE DEF aside
  <2> QED
    BY <2>1, PendingStage
<1>8. /\ aside[1] = "write" /\ aside[2] = RewriteFile(t)
      /\ \A path : Alters(aside, path) <=> path = RewriteFile(t)
      /\ remove[1] = "remove" /\ \A path : Alters(remove, path) <=> path = TableFile(t)
      /\ Rename(t)[1] = "rename"
      /\ \A path : Alters(Rename(t), path) <=> path = RewriteFile(t) \/ path = TableFile(t)
  BY WriteIs, RemoveIs, RenameOf, AltersWrite, AltersRemove, AltersRename
<1>9. /\ MarkerFile # TableFile(t) /\ MarkerFile # RewriteFile(t) /\ TableFile(t) # RewriteFile(t)
      /\ MigrationsFile # TableFile(t) /\ MigrationsFile # RewriteFile(t)
      /\ \A u : TableFile(u) # RewriteFile(t) /\ (TableFile(u) = TableFile(t) => u = t)
  BY PathKinds
<1>10. ContentOK(RewriteFile(t), Lines(disk'.tables[t])) /\ RewriteFile(t) \in Paths /\ TableFile(t) \in Paths
  BY <1>3, ContentsOf, LinesTyped, PathsAre
<1>11. WriteFile(RewriteFile(t), Lines(disk'.tables[t]))[3] = Lines(disk'.tables[t])
  BY WriteIs
<1> HIDE DEF todo, first, second, third
<1>12. ASSUME NEW step \in todo, step = first
       PROVE  StepFits(step)'
  <2>1. step.write = WriteFile(RewriteFile(t), Lines(disk'.tables[t])) /\ step.write[1] = "write"
    BY <1>5, <1>8, <1>12
  <2>2. WritesFit(step)'
    BY <1>3, <1>5, <1>6, <1>7, <1>10, <1>11, <1>12 DEF WritesFit
  <2> QED
    BY <2>1, <2>2 DEF StepFits
<1> HIDE DEF aside
<1>13. ASSUME NEW step \in todo, step = second
       PROVE  StepFits(step)'
  <2>1. step.write = RemoveFile(TableFile(t)) /\ step.write[1] = "remove"
    BY <1>5, <1>8, <1>13
  <2>2. RemovesFit(step)'
    BY <1>7, <1>10, <2>1 DEF RemovesFit
  <2> QED
    BY <2>1, <2>2 DEF StepFits
<1> HIDE DEF remove
<1>14. ASSUME NEW step \in todo, step = third
       PROVE  StepFits(step)'
  <2>1. step.write = Rename(t) /\ step.write[1] = "rename" /\ step.stage = 3
    BY <1>5, <1>8, <1>14
  <2>2. ASSUME NEW other \in writes' \ {step}
        PROVE  /\ Alters(other.write, TableFile(t)) =>
                      other.write = RemoveFile(TableFile(t)) /\ other.stage < step.stage
               /\ Alters(other.write, RewriteFile(t)) =>
                      other.write = Aside(t)' /\ other.stage < step.stage
    <3>1. CASE other = first
      BY <1>5, <1>6, <1>8, <1>9, <2>1, <3>1
    <3>2. CASE other = second
      BY <1>5, <1>8, <1>9, <2>1, <3>2 DEF remove
    <3>3. CASE Rest(other)
      BY <1>9, <3>3 DEF OnlyAlters
    <3> QED
      BY <1>1, <1>4, <1>14, <3>1, <3>2, <3>3
  <2>3. t \in DOMAIN disk'.tables \ disk'.tmp_rewrite
    BY <1>2, <1>3
  <2>4. TableFile(t) \in DOMAIN files' => RemoveFile(TableFile(t)) \in Pending'
    <3>1. files' = files /\ RemoveIfThere(TableFile(t)) \subseteq Pending'
      BY <1>1, PendingStage DEF Begins, todo, RewriteWrites
    <3> QED
      BY <3>1 DEF RemoveIfThere, DoIf
  <2>5. RenamesFit(step)'
    BY <1>6, <1>7, <2>1, <2>2, <2>3, <2>4 DEF RenamesFit
  <2> QED
    BY <2>1, <2>5 DEF StepFits
<1>15. ASSUME NEW step \in todo
       PROVE  step.stage \in Nat /\ StepFits(step)' /\ ~SnapshotWrite(step.write)
  <2>1. step.stage \in Nat
    BY <1>4, <1>5
  <2>2. StepFits(step)'
    BY <1>4, <1>12, <1>13, <1>14, LeadingFits
  <2>3. ~SnapshotWrite(step.write)
    BY <1>4, <1>5, <1>8, LeadingIs, SnapshotIs DEF SnapshotWrite
  <2> QED
    BY <2>1, <2>2, <2>3
<1>16. \A step \in todo : ~Alters(step.write, MigrationsFile)
  BY <1>4, <1>5, <1>8, <1>9 DEF Elsewhere
<1>17. ASSUME NEW step \in todo, NEW u, Alters(step.write, TableFile(u))
       PROVE  u = t /\ (step = second \/ step = third)
  <2>1. ~Rest(step)
    <3>1. TableFile(u) # MarkerFile
      BY PathKinds
    <3> QED
      BY <1>17, <3>1 DEF OnlyAlters
  <2> QED
    BY <1>4, <1>5, <1>8, <1>9, <1>17, <2>1
<1>18. ASSUME NEW u, Rename(u) \in Pending'
       PROVE  u = t
  <2>1. PICK step \in todo : step.write = Rename(u)
    BY <1>1, <1>18 DEF Pending
  <2>2. Rename(u)[1] = "rename"
    BY RenameOf
  <2>3. step = third
    BY <1>4, <1>5, <1>8, <2>1, <2>2, LeadingIs
  <2> QED
    BY <1>5, <2>1, <2>3, RenameOf
<1>19. ASSUME NEW step \in todo, step.write = aside
       PROVE  step = first
  <2>1. Alters(step.write, RewriteFile(t))
    BY <1>8, <1>19
  <2>2. ~Rest(step)
    BY <1>9, <2>1 DEF OnlyAlters
  <2> QED
    BY <1>4, <1>5, <1>8, <1>19, <2>2
<1>20. ASSUME NEW step \in todo, NEW other \in todo, NEW u \in Tables,
              \/ Alters(step.write, TableFile(u)) /\ step.write # Rename(u)
              \/ step.write = Aside(u)' /\ Rename(u) \in Pending',
              Alters(other.write, TableFile(u))
       PROVE  other = step \/ step.stage < other.stage
  <2>1. u = t /\ (other = second \/ other = third)
    BY <1>17, <1>20
  <2>2. CASE Alters(step.write, TableFile(u)) /\ step.write # Rename(u)
    <3>1. step = second
      BY <1>5, <1>17, <2>1, <2>2
    <3> QED
      BY <1>5, <2>1, <3>1
  <2>3. CASE step.write = Aside(u)'
    <3>1. step = first
      BY <1>6, <1>19, <2>1, <2>3
    <3> QED
      BY <1>5, <2>1, <3>1
  <2> QED
    BY <1>20, <2>2, <2>3
<1>21. ASSUME NEW path \in Paths
       PROVE  Arrived(files, disk', marker', path) \/ Altered(path)'
  <2>1. Altered(TableFile(t))' /\ Altered(RewriteFile(t))'
    BY <1>7, <1>8 DEF Altered
  <2>2. marker' = marker \/ Altered(MarkerFile)'
    <3>1. PICK new : WriteIndexMaps(index_maps, dirty_indexes, new) /\ DOMAIN new = IndexesOn(index_catalog, t)
      BY DEF ReplaceRows
    <3>2. ForgetMarker(IndexesOn(index_catalog, t)) \subseteq Pending'
      BY <1>1, PendingStage DEF todo, RewriteWrites
    <3> QED
      BY <1>1, <3>1, <3>2, MarkerArrives
  <2>3. \A u \in Tables : SameAt(disk'.tables, disk.tables, u) \/ Altered(TableFile(u))'
    BY <1>2, <2>1, PutElsewhere
  <2>4. \A u \in Tables : (u \in disk'.tmp_rewrite <=> u \in disk.tmp_rewrite)
                              \/ Altered(RewriteFile(u))'
    BY <1>2, <2>1
  <2>5. \A x \in IndexNames : SameAt(disk'.index_files, disk.index_files, x)
    BY <1>2, SameIsSame
  <2> QED
    BY <1>1, <1>2, <2>2, <2>3, <2>4, <2>5, ArriveOrAltered DEF TypeOK
<1>22. SnapshotLeads'
  BY <1>1, <1>15, SnapshotUntouched
<1>23. \A step, other \in todo :
           Alters(step.write, MigrationsFile) => other = step \/ other.stage < step.stage
  BY <1>16
<1>24. \A step, other \in todo : \A u \in Tables :
           /\ \/ Alters(step.write, TableFile(u)) /\ step.write # Rename(u)
              \/ step.write = Aside(u)' /\ Rename(u) \in Pending'
           /\ Alters(other.write, TableFile(u))
           => other = step \/ step.stage < other.stage
  BY <1>20
<1>25. \A step \in todo : step.stage \in Nat /\ StepFits(step)'
  BY <1>15
<1> QED
  BY <1>1, <1>21, <1>22, <1>23, <1>24, <1>25, CallSafe

LEMMA UpdateCrashSafe ==
    ASSUME CrashInv, NEW t \in Tables, t \in DOMAIN catalog,
           NEW where \in SUBSET {RowsOf(t)[i].data : i \in DOMAIN RowsOf(t)},
           NEW assignments \in Assignments(catalog[t].columns), UpdateCrash(t, where, assignments)
    PROVE  CrashInv'
<1>1. Update(t, where, assignments) /\ Begins("update", RewriteWrites(t))
  BY DEF UpdateCrash
<1>2. TypeOK' /\ MetadataSaved' /\ NoOrphanHandle' /\ TxnOfProcess'
  <2>1. Next
    BY <1>1 DEF Next
  <2> QED
    BY <2>1, CallTyped
<1>3. PICK rows :
        /\ ReplaceRows(t, rows, index_catalog, index_maps, dirty_indexes)
        /\ disk' = [disk EXCEPT !.tables = Put(@, t, rows), !.tmp_rewrite = @ \ {t}]
        /\ txn_snapshot' = txn_snapshot /\ txn_dir' = txn_dir
  BY <1>1 DEF Update
<1> QED
  BY <1>1, <1>2, <1>3, RewriteSafe

LEMMA DeleteCrashSafe ==
    ASSUME CrashInv, NEW t \in Tables, t \in DOMAIN catalog,
           NEW where \in SUBSET {RowsOf(t)[i].data : i \in DOMAIN RowsOf(t)}, DeleteCrash(t, where)
    PROVE  CrashInv'
<1>1. Delete(t, where) /\ Begins("delete", RewriteWrites(t))
  BY DEF DeleteCrash
<1>2. TypeOK' /\ MetadataSaved' /\ NoOrphanHandle' /\ TxnOfProcess'
  <2>1. Next
    BY <1>1 DEF Next
  <2> QED
    BY <2>1, CallTyped
<1>3. PICK rows :
        /\ ReplaceRows(t, rows, index_catalog, index_maps, dirty_indexes)
        /\ disk' = [disk EXCEPT !.tables = Put(@, t, rows), !.tmp_rewrite = @ \ {t}]
        /\ txn_snapshot' = txn_snapshot /\ txn_dir' = txn_dir
  BY <1>1 DEF Delete
<1> QED
  BY <1>1, <1>2, <1>3, RewriteSafe

---------------------------------------------------------------------------------
(* BEGIN and ROLLBACK *)

\* The writes of BEGIN: those of the flush, then those of the snapshot.
LEMMA BeginSteps ==
    ASSUME NEW step \in BeginWrites
    PROVE  \/ /\ step.stage = 1 \/ step.stage = 2
              /\ step.write \in DirtyMaps \/ step.write = WriteFile(MarkerFile, TRUE)
           \/ step.stage = 3 /\ step.write = DropSnapshot
           \/ step.stage = 4 /\ step.write = MakeSnapshot
           \/ step.stage \in 5..8 /\ \E path \in ToCopy : step.write = Copy(path)
<1> DEFINE mark == WriteFile(MarkerFile, TRUE)
           CopyMetadata(path) == DoIf(path \in ToCopy, Copy(path))
           Others == {Copy(path) : path \in ToCopy \ Metadata}
           Flushes == /\ step.stage = 1 \/ step.stage = 2
                      /\ step.write \in DirtyMaps \/ step.write = mark
           Drops == step.stage = 3 /\ step.write = DropSnapshot
           Makes == step.stage = 4 /\ step.write = MakeSnapshot
           Copies == step.stage \in 5..8 /\ \E path \in ToCopy : step.write = Copy(path)
<1>1. \/ step \in At(1, DirtyMaps) \/ step \in At(2, {mark})
      \/ step \in At(3, DropSnapshotIfThere) \/ step \in At(4, {MakeSnapshot})
      \/ step \in At(5, CopyMetadata(CatalogFile)) \/ step \in At(6, CopyMetadata(MigrationsFile))
      \/ step \in At(7, CopyMetadata(IndexesFile)) \/ step \in At(8, Others)
  BY DEF BeginWrites, FlushWrites
<1>2. ASSUME NEW path, NEW w \in CopyMetadata(path)
      PROVE  \E p \in ToCopy : w = Copy(p)
  BY <1>2 DEF DoIf
<1>3. \A w \in Others : \E path \in ToCopy : w = Copy(path)
  OBVIOUS
<1>4. \A w \in DropSnapshotIfThere : w = DropSnapshot
  BY DEF DropSnapshotIfThere, DoIf
<1> HIDE DEF mark, CopyMetadata, Others
<1>5. CASE step \in At(1, DirtyMaps)
  <2>1. Flushes
    BY <1>5, StageOf
  <2> QED
    BY <2>1 DEF mark
<1>6. CASE step \in At(2, {mark})
  <2>1. Flushes
    BY <1>6, StageOf
  <2> QED
    BY <2>1 DEF mark
<1>7. CASE step \in At(3, DropSnapshotIfThere)
  <2>1. Drops
    BY <1>4, <1>7, StageOf
  <2> QED
    BY <2>1
<1>8. CASE step \in At(4, {MakeSnapshot})
  <2>1. Makes
    BY <1>8, StageOf
  <2> QED
    BY <2>1
<1>9. ASSUME NEW n \in 5..8, NEW W, \A w \in W : \E path \in ToCopy : w = Copy(path), step \in At(n, W)
      PROVE  Copies
  BY <1>9, StageOf
<1>10. 5 \in 5..8 /\ 6 \in 5..8 /\ 7 \in 5..8 /\ 8 \in 5..8
  OBVIOUS
<1>11. CASE \/ step \in At(5, CopyMetadata(CatalogFile)) \/ step \in At(6, CopyMetadata(MigrationsFile))
            \/ step \in At(7, CopyMetadata(IndexesFile)) \/ step \in At(8, Others)
  <2> HIDE DEF Copies
  <2>1. Copies
    BY <1>2, <1>3, <1>9, <1>10, <1>11
  <2> QED
    BY <2>1 DEF Copies
<1> QED
  BY <1>1, <1>5, <1>6, <1>7, <1>8, <1>11

\* All there is to copy is copied.
LEMMA AllCopied ==
    ASSUME writes' = BeginWrites, NEW path \in ToCopy
    PROVE  Copy(path) \in Pending'
<1>1. CASE path \in Metadata
  <2>1. /\ DoIf(CatalogFile \in ToCopy, Copy(CatalogFile)) \subseteq Pending'
        /\ DoIf(MigrationsFile \in ToCopy, Copy(MigrationsFile)) \subseteq Pending'
        /\ DoIf(IndexesFile \in ToCopy, Copy(IndexesFile)) \subseteq Pending'
    BY PendingStage DEF BeginWrites
  <2> QED
    BY <1>1, <2>1 DEF Metadata, DoIf
<1>2. CASE path \notin Metadata
  <2>1. {Copy(p) : p \in ToCopy \ Metadata} \subseteq Pending'
    BY PendingStage DEF BeginWrites
  <2> QED
    BY <1>2, <2>1
<1> QED
  BY <1>1, <1>2

LEMMA ToBeCopied ==
    ASSUME CrashInv, writes = {}, writes' = BeginWrites, files' = files
    PROVE  /\ ToCopy \subseteq Paths \ {MarkerFile}
           /\ \A path \in Paths \ {MarkerFile} : ToBeThere(path)' <=> path \in ToCopy
<1>1. DirectoryOK(files) /\ dirty_indexes \cap DOMAIN index_maps \subseteq IndexNames
  BY BeforeCall DEF TypeOK
<1>2. ToCopy \subseteq Paths \ {MarkerFile}
  <2>1. \A i \in IndexNames : IndexFile(i) \in Paths
    BY PathsAre
  <2> QED
    BY <1>1, <2>1 DEF ToCopy, DirectoryOK
<1>3. ASSUME NEW path \in Paths \ {MarkerFile}, ToBeThere(path)'
      PROVE  path \in ToCopy
  <2>1. ASSUME NEW step \in BeginWrites, step.write[1] = "write", step.write[2] = path
        PROVE  path \in ToCopy
    <3>1. step.write \in DirtyMaps \/ step.write = WriteFile(MarkerFile, TRUE)
      BY <2>1, BeginSteps, SnapshotIs, CopyIs
    <3>2. step.write # WriteFile(MarkerFile, TRUE)
      BY <1>3, <2>1, WriteIs
    <3>3. PICK i \in dirty_indexes \cap DOMAIN index_maps :
              step.write = WriteFile(IndexFile(i), index_maps[i])
      BY <3>1, <3>2 DEF DirtyMaps
    <3>4. path = IndexFile(i)
      BY <2>1, <3>3, WriteIs
    <3> QED
      BY <1>3, <3>4 DEF ToCopy
  <2>2. path \in DOMAIN files \/ \E step \in BeginWrites : step.write[1] = "write" /\ step.write[2] = path
    BY <1>3 DEF ToBeThere, Pending
  <2> QED
    BY <1>3, <2>1, <2>2 DEF ToCopy
<1>4. ASSUME NEW path \in ToCopy
      PROVE  ToBeThere(path)'
  <2>1. CASE path \in DOMAIN files
    BY <2>1 DEF ToBeThere
  <2>2. ASSUME NEW i \in dirty_indexes \cap DOMAIN index_maps, path = IndexFile(i)
        PROVE  ToBeThere(path)'
    <3>1. At(1, DirtyMaps) \subseteq writes'
      BY DEF BeginWrites, FlushWrites
    <3>2. WriteFile(IndexFile(i), index_maps[i]) \in Pending'
      BY <3>1, PendingStage DEF DirtyMaps
    <3> QED
      BY <2>2, <3>2, WriteIs DEF ToBeThere
  <2> QED
    BY <2>1, <2>2 DEF ToCopy
<1> QED
  BY <1>2, <1>3, <1>4

LEMMA BeginCrashSafe ==
    ASSUME CrashInv, BeginCrash
    PROVE  CrashInv'
<1>1. BeginTransaction /\ Begins("begin", BeginWrites) /\ writes = {} /\ writes' = BeginWrites
      /\ files' = files
  BY DEF BeginCrash, Begins
<1>2. TypeOK' /\ MetadataSaved' /\ NoOrphanHandle' /\ TxnOfProcess' /\ TypeOK
  BY <1>1, CallTyped DEF Next, CrashInv
<1>3. /\ disk'.catalog = disk.catalog /\ disk'.migrations = disk.migrations
      /\ disk'.indexes = disk.indexes /\ disk'.tables = disk.tables
      /\ disk'.index_files = FlushedFiles /\ disk'.tmp_rewrite = disk.tmp_rewrite
      /\ marker' /\ txn_snapshot' = disk' /\ txn_dir'
  BY <1>1, <1>2, DiskFields DEF BeginTransaction, FlushIndexes, Copied
<1>4. /\ \A w \in DirtyMaps : Leading(w) /\ Elsewhere(w) /\ w[1] = "write"
      /\ Leading(WriteFile(MarkerFile, TRUE)) /\ Elsewhere(WriteFile(MarkerFile, TRUE))
      /\ OnlyAlters(WriteFile(MarkerFile, TRUE), MarkerFile)
  BY <1>1, <1>3, FlushLeads
<1>5. WriteFile(MarkerFile, TRUE)[1] = "write"
  BY WriteIs
<1>6. /\ ToCopy \subseteq Paths \ {MarkerFile}
      /\ \A path \in Paths \ {MarkerFile} : ToBeThere(path)' <=> path \in ToCopy
  BY <1>1, ToBeCopied
<1>7. ASSUME NEW step \in BeginWrites
      PROVE  step.stage \in Nat /\ BeginStep(step)' /\ StepFits(step)' /\ Elsewhere(step.write)
  <2>1. CASE /\ step.stage = 1 \/ step.stage = 2
             /\ step.write \in DirtyMaps \/ step.write = WriteFile(MarkerFile, TRUE)
    <3>1. Leading(step.write) /\ Elsewhere(step.write) /\ step.write[1] = "write"
      BY <1>4, <1>5, <2>1
    <3>2. StepFits(step)'
      BY <3>1, LeadingFits
    <3> QED
      BY <2>1, <3>1, <3>2 DEF BeginStep
  <2>2. CASE step.stage = 3 /\ step.write = DropSnapshot
    BY <2>2, AltersNothing DEF BeginStep, StepFits, OthersFit, Elsewhere
  <2>3. CASE step.stage = 4 /\ step.write = MakeSnapshot
    BY <2>3, AltersNothing DEF BeginStep, StepFits, OthersFit, Elsewhere
  <2>4. ASSUME NEW path \in ToCopy, step.stage \in 5..8, step.write = Copy(path)
        PROVE  step.stage \in Nat /\ BeginStep(step)' /\ StepFits(step)' /\ Elsewhere(step.write)
    <3>1. path \in Paths \ {MarkerFile} /\ ToBeThere(path)'
      BY <1>6
    <3>2. StepFits(step)'
      BY <2>4, <3>1 DEF StepFits, OthersFit
    <3>3. BeginStep(step)'
      BY <2>4, <3>1 DEF BeginStep
    <3> QED
      BY <2>4, <3>2, <3>3, AltersNothing DEF Elsewhere
  <2> QED
    BY <2>1, <2>2, <2>3, <2>4, BeginSteps
<1>8. MakeSnapshot \in Pending'
  <2>1. At(4, {MakeSnapshot}) \subseteq writes'
    BY <1>1 DEF BeginWrites
  <2> QED
    BY <2>1, PendingStage
<1>9. SnapshotLeads'
  <2>1. writes' # {} /\ call'.name = "begin"
    <3>1. writes' # {}
      BY <1>8 DEF Pending
    <3> QED
      BY <1>1, <3>1 DEF Begins
  <2>2. \A path \in Paths \ {MarkerFile} : ToBeThere(path)' => Copy(path) \in Pending'
    BY <1>1, <1>6, AllCopied
  <2>3. BeginLeads'
    BY <1>1, <1>3, <1>7, <1>8, <2>2 DEF BeginLeads
  <2> QED
    BY <2>1, <2>3 DEF SnapshotLeads
<1>10. ASSUME NEW path \in Paths
       PROVE  Arrived(files, disk', marker', path) \/ Altered(path)'
  <2>1. DirtyMaps \subseteq Pending' /\ {WriteFile(MarkerFile, TRUE)} \subseteq Pending'
    BY <1>1, PendingStage DEF BeginWrites, FlushWrites
  <2>2. Altered(MarkerFile)'
    BY <1>4, <2>1, AlteredBy
  <2>3. \A i \in IndexNames :
            SameAt(disk'.index_files, disk.index_files, i) \/ Altered(IndexFile(i))'
    BY <1>1, <1>3, <2>1, FlushLeads
  <2>4. \A u \in Tables : SameAt(disk'.tables, disk.tables, u)
    BY <1>3, SameIsSame
  <2> QED
    BY <1>1, <1>2, <1>3, <2>2, <2>3, <2>4, ArriveOrAltered DEF TypeOK
<1>11. \A step \in BeginWrites : step.stage \in Nat /\ StepFits(step)'
  BY <1>7
<1>12. \A step, other \in BeginWrites :
           Alters(step.write, MigrationsFile) => other = step \/ other.stage < step.stage
  BY <1>7 DEF Elsewhere
<1>13. \A step, other \in BeginWrites : \A u \in Tables :
           /\ \/ Alters(step.write, TableFile(u)) /\ step.write # Rename(u)
              \/ step.write = Aside(u)' /\ Rename(u) \in Pending'
           /\ Alters(other.write, TableFile(u))
           => other = step \/ step.stage < other.stage
  BY <1>7 DEF Elsewhere
<1> QED
  BY <1>1, <1>2, <1>9, <1>10, <1>11, <1>12, <1>13, CallSafe

LEMMA RollbackCrashSafe ==
    ASSUME CrashInv, RollbackCrash
    PROVE  CrashInv'
<1> DEFINE removes == {RemoveFile(path) : path \in Copyable(files)}
           restores == {Restore(path) : path \in DOMAIN snapshot_files}
<1>1. /\ RollbackTransaction /\ Begins("rollback", RollbackWrites)
      /\ writes = {} /\ writes' = RollbackWrites
      /\ files' = files /\ snapshot_files' = snapshot_files
  BY DEF RollbackCrash, Begins
<1>2. TypeOK' /\ MetadataSaved' /\ NoOrphanHandle' /\ TxnOfProcess'
  BY <1>1, CallTyped DEF Next
<1>3. /\ disk' = txn_snapshot /\ txn_snapshot' = NoSnapshot /\ ~txn_dir' /\ marker' = marker /\ txn_dir
  BY <1>1 DEF RollbackTransaction
<1>4. /\ marker = (MarkerFile \in DOMAIN files) /\ DirectoryOK(files) /\ SnapshotOK
      /\ snapshot_files # NoSnapshot /\ txn_snapshot = AsDisk(snapshot_files)
  BY <1>1, <1>3, BeforeCall DEF AsSnapshot
<1>5. /\ Copyable(files) \subseteq Paths \ {MarkerFile}
      /\ DOMAIN snapshot_files \subseteq Paths \ {MarkerFile}
  BY <1>4 DEF Copyable, DirectoryOK, SnapshotOK
<1>6. RollbackWrites = At(1, removes) \cup At(2, restores) \cup At(3, {DropSnapshot})
  BY DEF RollbackWrites
<1>7. removes \subseteq Pending' /\ restores \subseteq Pending' /\ DropSnapshot \in Pending'
  <2> HIDE DEF removes, restores
  <2> QED
    BY <1>1, <1>6, PendingStage
<1>8. ASSUME NEW step \in RollbackWrites
      PROVE  step.stage \in Nat /\ RollbackStep(step)'
  <2>1. CASE step \in At(1, removes)
    <3>1. step.stage = 1 /\ \E path \in Copyable(files) : step.write = RemoveFile(path)
      BY <2>1, StageOf
    <3> QED
      BY <1>5, <3>1 DEF RollbackStep
  <2>2. CASE step \in At(2, restores)
    <3>1. step.stage = 2 /\ \E path \in DOMAIN snapshot_files : step.write = Restore(path)
      BY <2>2, StageOf
    <3> QED
      BY <1>1, <3>1 DEF RollbackStep
  <2>3. CASE step \in At(3, {DropSnapshot})
    <3>1. step = [stage |-> 3, write |-> DropSnapshot]
      BY <2>3, StageOf
    <3>2. step.stage = 3
      BY <3>1
    <3> QED
      BY <3>1, <3>2 DEF RollbackStep
  <2> HIDE DEF removes, restores
  <2> QED
    BY <1>6, <2>1, <2>2, <2>3
<1>9. /\ \A path \in Copyable(files) : RemoveFile(path) \in Pending'
      /\ \A path \in DOMAIN snapshot_files : Restore(path) \in Pending'
  BY <1>7
<1> HIDE DEF removes, restores
<1>10. RollbackLeads'
  BY <1>1, <1>3, <1>4, <1>7, <1>8, <1>9 DEF RollbackLeads, Copyable
<1>11. RollingBack'
  <2>1. writes' # {}
    BY <1>7 DEF Pending
  <2> QED
    BY <1>1, <2>1 DEF Begins, RollingBack
<1>12. DirectoryOK(files') /\ SnapshotOK' /\ \A step \in writes' : step.stage \in Nat
  BY <1>1, <1>4, <1>8 DEF SnapshotOK
<1> QED
  BY <1>2, <1>10, <1>11, <1>12 DEF CrashInv

---------------------------------------------------------------------------------
(* The invariant *)

LEMMA CrashNextSafe == CrashInv /\ [CrashNext]_crash_vars => CrashInv'
<1> SUFFICES ASSUME CrashInv, [CrashNext]_crash_vars PROVE CrashInv'
  OBVIOUS
<1>1. CASE OpenCrash \/ OpenFails \/ CloseCrash \/ ExitCrash
  BY <1>1, OpenCrashSafe, OpenFailsSafe, CloseCrashSafe, ExitCrashSafe
<1>2. CASE BeginCrash \/ CommitCrash \/ RollbackCrash
  BY <1>2, BeginCrashSafe, CommitCrashSafe, RollbackCrashSafe
<1>3. CASE \E i \in IndexNames : DropIndexCrash(i)
  BY <1>3, DropIndexCrashSafe
<1>4. ASSUME NEW t \in Tables, Reading(t)
      PROVE  CrashInv'
  <2>1. ASSUME NEW c \in Columns,
               \/ \E i \in IndexNames : CreateIndexCrash(i, t, c)
               \/ \E default \in Val : AddColumnCrash(t, c, default)
               \/ DropColumnCrash(t, c)
               \/ \E new \in Columns : RenameColumnCrash(t, c, new)
        PROVE  CrashInv'
    BY <2>1, CreateIndexCrashSafe, AddColumnCrashSafe, DropColumnCrashSafe, RenameColumnCrashSafe
  <2>2. ASSUME t \in DOMAIN catalog,
               NEW where \in SUBSET {RowsOf(t)[i].data : i \in DOMAIN RowsOf(t)},
               \/ DeleteCrash(t, where)
               \/ \E assignments \in Assignments(catalog[t].columns) : UpdateCrash(t, where, assignments)
        PROVE  CrashInv'
    BY <2>2, DeleteCrashSafe, UpdateCrashSafe
  <2> QED
    BY <1>4, <2>1, <2>2 DEF Reading
<1>5. ASSUME NEW t \in Tables,
             \/ \E columns \in (SUBSET Columns) \ {{}} : CreateTableCrash(t, columns)
             \/ DropTableCrash(t)
             \/ t \in DOMAIN catalog /\ \E data \in [catalog[t].columns -> Val] : InsertCrash(t, data)
             \/ UpdateFailsCrash(t) \/ FailingToRead(t)
      PROVE  CrashInv'
  BY <1>5, CreateTableCrashSafe, DropTableCrashSafe, InsertCrashSafe, UpdateFailsCrashSafe, FailingSafe
<1>6. CASE WriteStep \/ Kill
  BY <1>6, WriteStepSafe, KillSafe
<1>7. CASE UNCHANGED crash_vars
  <2>1. /\ UNCHANGED vars /\ files' = files /\ snapshot_files' = snapshot_files
        /\ writes' = writes /\ call' = call
    BY <1>7 DEF crash_vars
  <2>2. TypeOK' /\ MetadataSaved' /\ NoOrphanHandle' /\ TxnOfProcess'
    BY <2>1, SavedByNext DEF CrashInv
  <2>3. disk' = disk /\ marker' = marker /\ txn_snapshot' = txn_snapshot /\ txn_dir' = txn_dir
    BY <2>1 DEF vars, memory
  <2>4. SnapshotOK' /\ RollingBack' = RollingBack
    BY <2>1 DEF CrashInv, SnapshotOK, RollingBack
  <2>5. Pending' = Pending /\ \A path : Altered(path)' = Altered(path)
    BY <2>1 DEF Pending, Altered
  <2>6. \A step : StepFits(step)' = StepFits(step)
    <3>1. \A t : Aside(t)' = Aside(t)
      BY <2>3 DEF Aside
    <3>2. \A step : WritesFit(step)' = WritesFit(step) /\ RemovesFit(step)' = RemovesFit(step)
      BY <2>3, <2>5, <3>1 DEF WritesFit, RemovesFit
    <3>3. \A step : RenamesFit(step)' = RenamesFit(step)
      BY <2>1, <2>3, <2>5, <3>1 DEF RenamesFit
    <3>4. \A step : AppendsFit(step)' = AppendsFit(step) /\ OthersFit(step)' = OthersFit(step)
      BY <2>1, <2>3 DEF AppendsFit, OthersFit
    <3> QED
      BY <3>2, <3>3, <3>4 DEF StepFits
  <2>7. WritesLead' = WritesLead
    BY <2>1, <2>3, <2>5, <2>6 DEF WritesLead
  <2>8. SnapshotLeads' = SnapshotLeads
    <3>1. \A path : ToBeThere(path)' = ToBeThere(path)
      BY <2>1, <2>5 DEF ToBeThere
    <3>2. \A step : BeginStep(step)' = BeginStep(step)
      BY <3>1 DEF BeginStep
    <3>3. BeginLeads' = BeginLeads
      BY <2>1, <2>3, <2>5, <3>1, <3>2 DEF BeginLeads
    <3> QED
      BY <2>1, <2>3, <2>5, <3>3 DEF SnapshotLeads
  <2>9. RollbackLeads' = RollbackLeads
    <3>1. \A step : RollbackStep(step)' = RollbackStep(step)
      BY <2>1 DEF RollbackStep
    <3> QED
      BY <2>1, <2>3, <2>5, <3>1 DEF RollbackLeads
  <2>10. BeforeKept' = BeforeKept
    <3>1. \A t : Aside(t)' = Aside(t)
      BY <2>3 DEF Aside
    <3>2. \A step, t : RowsKept(step, t)' = RowsKept(step, t)
      BY <2>1 DEF RowsKept
    <3> QED
      BY <2>1, <2>3, <2>5, <3>1, <3>2 DEF BeforeKept
  <2> QED
    BY <2>1, <2>2, <2>4, <2>7, <2>8, <2>9, <2>10 DEF CrashInv
<1> QED
  BY <1>1, <1>2, <1>3, <1>4, <1>5, <1>6, <1>7 DEF CrashNext

---------------------------------------------------------------------------------
(* The theorems *)

\* Wherever a process is killed, and whatever calls follow: the writes still to
\* be done lead the files to where the call does, the snapshot holds what ROLLBACK
\* needs, and the rows and the log of before stay until they are replaced
\* (storage.rs:101-590, :806-877).
THEOREM CrashInvariantHolds == CrashSpec => []CrashInv
<1> QED
  BY CrashInitSafe, CrashNextSafe, PTL DEF CrashSpec

\* Once every write of a call is done, catalog, log, index files, rows, marker and
\* snapshot are what the call of Storage.tla leaves: no file is forgotten, none is
\* saved too early (storage.rs:265-590, flush :101-114, begin :149-184).
THEOREM WritesAlwaysAddUp == CrashSpec => []WritesAddUp
<1> QED
  BY InvWritesAddUp, CrashInvariantHolds, PTL

\* A kill in the middle of ROLLBACK leaves the snapshot whole, or the directory
\* already as the snapshot was (storage.rs:219-263).
THEOREM RollbackAlwaysRedoable == CrashSpec => []RollbackCanBeRedone
<1> QED
  BY InvRollbackCanBeRedone, CrashInvariantHolds, PTL

\* A kill never leaves a record of a schema change that is not wholly done: the
\* log is the last file a schema change saves (record_migration, storage.rs:854).
THEOREM RecordedChangesAlwaysWhole == CrashSpec => []RecordedChangesAreWhole
<1> QED
  BY InvRecordedChangesAreWhole, CrashInvariantHolds, PTL
=================================================================================
