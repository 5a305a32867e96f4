--------------------------- MODULE ScenariosProofs ---------------------------
(***************************************************************************)
(* The catalogue, the disk and the answers agree on every id to which      *)
(* nothing happened that the code does not handle (see Scenarios), for any *)
(* packages and any number of uploads and of crashes.                      *)
(***************************************************************************)
EXTENDS Scenarios, FiniteSetTheorems, TLAPS

(* The upload of r is under way, for this id. *)
On(r, id) == uploads[r] # None /\ IdOf[uploads[r].package] = id

(* What an upload that nothing disturbed has written so far: all files that
   are no longer to be written, whole. *)
Progress(r, id) ==
  LET u == uploads[r]
  IN  /\ u.step \in {"open", "write", "load"} =>
           /\ disk[id] # None
           /\ \A name \in AllNames :
                name \notin Range(u.todo) => disk[id][name] = Written(u.package)[name]
      /\ u.step = "mkdir" => disk[id] = None
      /\ u.step = "mkdir" => Range(u.todo) = Names(u.package)
      /\ u.step = "load" => u.todo = <<>>
      /\ Range(u.todo) \subseteq Names(u.package)

(* An id that was not disturbed: one upload at most, of an id that is not
   in the catalogue; otherwise disk, catalogue and answers say the same. *)
Sound(id) ==
  /\ \A r, q \in Uploads : On(r, id) /\ On(q, id) => r = q
  /\ \A r \in Uploads : On(r, id) => promised[id] = None /\ Progress(r, id)
  /\ (\A r \in Uploads : ~On(r, id)) =>
       disk[id] = IF promised[id] # None THEN Written(promised[id]) ELSE None
  /\ promised[id] # None => Metadata \notin FilesOf[promised[id]]
  /\ up => catalogue[id] = promised[id]

(* Who is to write has a file to write. *)
FileLeft(r) ==
  uploads[r] # None /\ uploads[r].step \in {"mkdir", "open", "write"}
    => uploads[r].todo # <<>>

ScenariosInv ==
  /\ TypeOK
  /\ ~up => \A r \in Uploads : uploads[r] = None
  /\ \A r \in Uploads : FileLeft(r)
  /\ \A id \in Ids \ disturbed : Sound(id)

-----------------------------------------------------------------------------
(* Data. *)

LEMMA Directories ==
  ASSUME NEW p \in Packages
  PROVE  /\ Names(p) \subseteq AllNames /\ Metadata \in Names(p)
         /\ Written(p) \in [AllNames -> Contents] /\ EmptyDirectory \in [AllNames -> Contents]
         /\ Written(p) # None /\ EmptyDirectory # None
         /\ Written(p)[Metadata] = IF Metadata \in FilesOf[p] THEN "video" ELSE p
         /\ IdOf[p] \in Ids
<1>1. Names(p) \subseteq AllNames /\ Metadata \in Names(p) /\ IdOf[p] \in Ids
  BY DEF AllNames, Names, Ids
<1>2. Written(p) \in [AllNames -> Contents] /\ EmptyDirectory \in [AllNames -> Contents]
  BY DEF Written, EmptyDirectory, Contents
<1>3. Written(p)[Metadata] = IF Metadata \in FilesOf[p] THEN "video" ELSE p
  BY <1>1 DEF Written
<1> QED BY <1>1, <1>2, <1>3, NoneAssumption

(* What is left to write once the first file is written. *)
LEMMA RestOfFiles ==
  ASSUME NEW S, NEW q \in Seq(S), q # <<>>
  PROVE  /\ Head(q) \in S /\ Head(q) \in Range(q) /\ Tail(q) \in Seq(S)
         /\ Range(q) \subseteq Range(Tail(q)) \cup {Head(q)}
         /\ Range(Tail(q)) \subseteq Range(q)
<1>1. /\ Len(q) \in Nat /\ Len(q) >= 1 /\ Head(q) = q[1] /\ Head(q) \in S
      /\ Tail(q) \in Seq(S) /\ Len(Tail(q)) = Len(q) - 1
      /\ DOMAIN q = 1..Len(q) /\ DOMAIN Tail(q) = 1..Len(Tail(q))
  OBVIOUS
<1>2. \A i \in 1..Len(Tail(q)) : Tail(q)[i] = q[i + 1] /\ i + 1 \in 1..Len(q)
  BY <1>1
<1>3. Range(Tail(q)) \subseteq Range(q)
  BY <1>1, <1>2 DEF Range
<1>4. ASSUME NEW i \in 1..Len(q) PROVE q[i] \in Range(Tail(q)) \cup {Head(q)}
  <2>1. CASE i = 1
    BY <1>1, <2>1
  <2>2. CASE i # 1
    <3>1. i - 1 \in 1..Len(Tail(q)) /\ (i - 1) + 1 = i
      BY <1>1, <2>2
    <3>2. Tail(q)[i - 1] = q[i]
      BY <1>2, <3>1
    <3> QED BY <1>1, <3>1, <3>2 DEF Range
  <2> QED BY <2>1, <2>2
<1>5. 1 \in 1..Len(q)
  BY <1>1
<1> QED BY <1>1, <1>3, <1>4, <1>5 DEF Range

(* An upload has all files of its package to write. *)
LEMMA AllFiles ==
  ASSUME NEW p \in Packages,
         NEW files \in [1..Cardinality(FilesOf[p]) -> FilesOf[p]], Range(files) = FilesOf[p]
  PROVE  /\ <<Metadata>> \o files \in Seq(AllNames)
         /\ <<Metadata>> \o files # <<>>
         /\ Range(<<Metadata>> \o files) = Names(p)
<1> DEFINE n == Cardinality(FilesOf[p])
           todo == <<Metadata>> \o files
<1>1. n \in Nat
  BY FS_CardinalityType, ScenariosAssumption
<1> HIDE DEF n
<1>2. files \in Seq(AllNames) /\ Len(files) = n
  BY <1>1 DEF n, AllNames, Names
<1>3. <<Metadata>> \in Seq(AllNames) /\ Len(<<Metadata>>) = 1 /\ <<Metadata>>[1] = Metadata
  BY DEF AllNames, Names
<1>4. /\ todo \in Seq(AllNames) /\ Len(todo) = 1 + n
      /\ todo[1] = Metadata
      /\ \A i \in 1..n : todo[1 + i] = files[i]
  BY <1>1, <1>2, <1>3
<1>5. DOMAIN todo = 1..(1 + n) /\ DOMAIN files = 1..n
  BY <1>2, <1>4
<1> HIDE DEF todo
<1>6. todo # <<>>
  BY <1>1, <1>4
<1>7. \A i \in 1..(1 + n) : todo[i] \in Names(p)
  <2> SUFFICES ASSUME NEW i \in 1..(1 + n) PROVE todo[i] \in Names(p)
    OBVIOUS
  <2>1. CASE i = 1
    BY <1>4, <2>1 DEF Names
  <2>2. CASE i # 1
    <3>1. i - 1 \in 1..n /\ 1 + (i - 1) = i
      BY <1>1, <2>2
    <3>2. todo[i] = files[i - 1]
      BY <1>4, <3>1
    <3> QED BY <1>5, <3>1, <3>2 DEF Names, n
  <2> QED BY <2>1, <2>2
<1>8. ASSUME NEW name \in Names(p) PROVE \E i \in 1..(1 + n) : todo[i] = name
  <2>1. CASE name = Metadata
    BY <1>1, <1>4, <2>1
  <2>2. CASE name \in FilesOf[p]
    <3>1. PICK i \in 1..n : files[i] = name
      BY <1>5, <2>2 DEF Range
    <3>2. 1 + i \in 1..(1 + n) /\ todo[1 + i] = name
      BY <1>1, <1>4, <3>1
    <3> QED BY <3>2
  <2> QED BY <2>1, <2>2 DEF Names
<1>9. Range(todo) = Names(p)
  BY <1>5, <1>7, <1>8 DEF Range
<1> QED BY <1>4, <1>6, <1>9 DEF todo

-----------------------------------------------------------------------------
(* Soundness of an id, one kind of step at a time. *)

(* The step is about another id. *)
LEMMA OtherId ==
  ASSUME NEW id \in Ids, Sound(id),
         disk'[id] = disk[id], promised'[id] = promised[id],
         up' => up /\ catalogue'[id] = catalogue[id],
         \A r \in Uploads : /\ On(r, id)' <=> On(r, id)
                            /\ On(r, id) => uploads'[r] = uploads[r]
  PROVE  Sound(id)'
<1>1. \A r \in Uploads : On(r, id) => (Progress(r, id) <=> Progress(r, id)')
  BY DEF Progress
<1> QED BY <1>1 DEF Sound

(* The only upload of the id goes on. *)
LEMMA GoesOn ==
  ASSUME NEW id \in Ids, Sound(id), NEW r \in Uploads, On(r, id), On(r, id)',
         promised'[id] = promised[id], up' => up /\ catalogue'[id] = catalogue[id],
         \A q \in Uploads \ {r} : uploads'[q] = uploads[q],
         Progress(r, id)'
  PROVE  Sound(id)'
<1>1. \A q \in Uploads : On(q, id)' => q = r
  BY DEF Sound, On
<1> QED BY <1>1 DEF Sound

(* It ends. *)
LEMMA ItEnds ==
  ASSUME NEW id \in Ids, Sound(id), NEW r \in Uploads, On(r, id), uploads'[r] = None,
         \A q \in Uploads \ {r} : uploads'[q] = uploads[q],
         disk'[id] = IF promised'[id] # None THEN Written(promised'[id]) ELSE None,
         promised'[id] # None => Metadata \notin FilesOf[promised'[id]],
         up' => catalogue'[id] = promised'[id]
  PROVE  Sound(id)'
<1>1. \A q \in Uploads : ~On(q, id)'
  BY DEF Sound, On
<1> QED BY <1>1 DEF Sound

-----------------------------------------------------------------------------
(* The steps. *)

(* What holds of the upload that a step is about. *)
LEMMA ItsUpload ==
  ASSUME ScenariosInv, NEW r \in Uploads, uploads[r] # None
  PROVE  /\ uploads[r] \in Upload /\ up
         /\ uploads[r].package \in Packages /\ uploads[r].step \in Steps
         /\ uploads[r].todo \in Seq(AllNames)
         /\ IdOf[uploads[r].package] \in Ids
         /\ On(r, IdOf[uploads[r].package])
         /\ disk[IdOf[uploads[r].package]] \in [AllNames -> Contents] \cup {None}
<1>1. uploads[r] \in Upload /\ up
  BY DEF ScenariosInv, TypeOK
<1>2. IdOf[uploads[r].package] \in Ids
  BY <1>1 DEF Upload, Ids
<1> QED BY <1>1, <1>2 DEF Upload, On, ScenariosInv, TypeOK

(* A step of an upload does nothing to other ids. *)
LEMMA Others ==
  ASSUME ScenariosInv, NEW r \in Uploads, uploads[r] # None,
         \A q \in Uploads \ {r} : uploads'[q] = uploads[q],
         uploads'[r] = None \/ uploads'[r].package = uploads[r].package,
         NEW id \in Ids \ disturbed, id # IdOf[uploads[r].package],
         disk'[id] = disk[id], promised'[id] = promised[id], up' = up,
         catalogue'[id] = catalogue[id]
  PROVE  Sound(id)'
<1>1. \A q \in Uploads : /\ On(q, id)' <=> On(q, id)
                         /\ On(q, id) => uploads'[q] = uploads[q]
  BY DEF On
<1>2. Sound(id)
  BY DEF ScenariosInv
<1> QED BY <1>1, <1>2, OtherId

LEMMA MakeDirectoryStep ==
  ASSUME ScenariosInv, NEW r \in Uploads, MakeDirectory(r) PROVE ScenariosInv'
<1> DEFINE p == uploads[r].package
           i == IdOf[p]
<1>1. /\ uploads[r] # None /\ uploads[r].step = "mkdir"
      /\ disk' = IF disk[i] = None THEN [disk EXCEPT ![i] = EmptyDirectory] ELSE disk
      /\ uploads' = [uploads EXCEPT ![r].step = "open"]
      /\ UNCHANGED <<up, crashes, loaderVars, promised, disturbed>>
  BY DEF MakeDirectory, At, Go
<1>2. TypeOK
  BY DEF ScenariosInv
<1>3. /\ uploads[r] \in Upload /\ up /\ p \in Packages /\ i \in Ids /\ On(r, i)
      /\ uploads[r].todo \in Seq(AllNames)
  BY <1>1, ItsUpload
<1>4. /\ uploads' \in [Uploads -> Upload \cup {None}]
      /\ uploads'[r] = [uploads[r] EXCEPT !.step = "open"]
      /\ uploads'[r] \in Upload
      /\ \A q \in Uploads \ {r} : uploads'[q] = uploads[q]
  BY <1>1, <1>2, <1>3 DEF TypeOK, Upload, Steps
<1>5. /\ uploads'[r].package = p /\ uploads'[r].step = "open"
      /\ uploads'[r].todo = uploads[r].todo /\ uploads'[r] # None
  BY <1>3, <1>4, NoneAssumption DEF Upload
<1>6. /\ disk' \in [Ids -> [AllNames -> Contents] \cup {None}]
      /\ \A id \in Ids \ {i} : disk'[id] = disk[id]
      /\ disk[i] = None => disk'[i] = EmptyDirectory
  BY <1>1, <1>2, <1>3, Directories DEF TypeOK
<1>7. TypeOK'
  BY <1>1, <1>2, <1>4, <1>6 DEF TypeOK, loaderVars
<1>8. uploads[r].todo # <<>>
  BY <1>1 DEF ScenariosInv, FileLeft
<1>9. \A q \in Uploads : FileLeft(q)'
  BY <1>4, <1>5, <1>8 DEF ScenariosInv, FileLeft
<1>10. ASSUME NEW id \in Ids \ disturbed PROVE Sound(id)'
  <2>1. CASE id # i
    BY <1>1, <1>4, <1>5, <1>6, <2>1, Others DEF loaderVars
  <2>2. CASE id = i
    <3>1. Sound(id) /\ Progress(r, i)
      BY <1>3, <2>2 DEF ScenariosInv, Sound
    <3>2. disk'[i] = EmptyDirectory /\ Range(uploads[r].todo) = Names(p)
      BY <1>1, <1>6, <3>1 DEF Progress
    <3>3. \A name \in AllNames : name \notin Names(p) => EmptyDirectory[name] = Written(p)[name]
      BY <1>3, Directories DEF EmptyDirectory, Written
    <3>4. Progress(r, i)'
      BY <1>3, <1>5, <3>2, <3>3, Directories DEF Progress
    <3>5. On(r, i)'
      BY <1>5 DEF On
    <3> QED BY <1>1, <1>3, <1>4, <2>2, <3>1, <3>4, <3>5, GoesOn DEF loaderVars
  <2> QED BY <2>1, <2>2
<1> QED BY <1>1, <1>3, <1>7, <1>9, <1>10 DEF ScenariosInv

LEMMA OpenStep ==
  ASSUME ScenariosInv, NEW r \in Uploads, Open(r) PROVE ScenariosInv'
<1> DEFINE p == uploads[r].package
           i == IdOf[p]
           s == IF disk[i] = None THEN "cleanup" ELSE "write"
           name == Head(uploads[r].todo)
<1>1. /\ uploads[r] # None /\ uploads[r].step = "open"
      /\ disk' = IF disk[i] = None THEN disk ELSE [disk EXCEPT ![i][name] = "partial"]
      /\ uploads' = [uploads EXCEPT ![r].step = s]
      /\ UNCHANGED <<up, crashes, loaderVars, promised, disturbed>>
  BY DEF Open, At, Go
<1>2. TypeOK
  BY DEF ScenariosInv
<1>3. /\ uploads[r] \in Upload /\ up /\ p \in Packages /\ i \in Ids /\ On(r, i)
      /\ uploads[r].todo \in Seq(AllNames)
      /\ disk[i] \in [AllNames -> Contents] \cup {None}
  BY <1>1, ItsUpload
<1>4. /\ uploads' \in [Uploads -> Upload \cup {None}]
      /\ uploads'[r] = [uploads[r] EXCEPT !.step = s]
      /\ uploads'[r] \in Upload
      /\ \A q \in Uploads \ {r} : uploads'[q] = uploads[q]
  BY <1>1, <1>2, <1>3 DEF TypeOK, Upload, Steps
<1>5. /\ uploads'[r].package = p /\ uploads'[r].step = s
      /\ uploads'[r].todo = uploads[r].todo /\ uploads'[r] # None
  BY <1>3, <1>4, NoneAssumption DEF Upload
<1>6. /\ disk' \in [Ids -> [AllNames -> Contents] \cup {None}]
      /\ \A id \in Ids \ {i} : disk'[id] = disk[id]
      /\ disk[i] # None => /\ disk'[i] # None
                           /\ \A n \in AllNames \ {name} : disk'[i][n] = disk[i][n]
  <2>1. CASE disk[i] = None
    BY <1>1, <1>2, <2>1 DEF TypeOK
  <2>2. CASE disk[i] # None
    <3>1. /\ disk[i] \in [AllNames -> Contents]
          /\ [disk[i] EXCEPT ![name] = "partial"] \in [AllNames -> Contents]
          /\ \A n \in AllNames \ {name} : [disk[i] EXCEPT ![name] = "partial"][n] = disk[i][n]
      BY <1>3, <2>2 DEF Contents
    <3>2. disk' = [disk EXCEPT ![i] = [disk[i] EXCEPT ![name] = "partial"]]
      BY <1>1, <2>2
    <3>3. disk \in [Ids -> [AllNames -> Contents] \cup {None}]
      BY <1>2 DEF TypeOK
    <3> QED BY <1>3, <3>1, <3>2, <3>3, NoneAssumption
  <2> QED BY <2>1, <2>2
<1>7. TypeOK'
  BY <1>1, <1>2, <1>4, <1>6 DEF TypeOK, loaderVars
<1>8. uploads[r].todo # <<>>
  BY <1>1 DEF ScenariosInv, FileLeft
<1>9. \A q \in Uploads : FileLeft(q)'
  BY <1>4, <1>5, <1>8 DEF ScenariosInv, FileLeft
<1>10. ASSUME NEW id \in Ids \ disturbed PROVE Sound(id)'
  <2>1. CASE id # i
    BY <1>1, <1>4, <1>5, <1>6, <2>1, Others DEF loaderVars
  <2>2. CASE id = i
    <3>1. Sound(id) /\ Progress(r, i)
      BY <1>3, <2>2 DEF ScenariosInv, Sound
    <3>2. /\ disk[i] # None
          /\ Range(uploads[r].todo) \subseteq Names(p)
          /\ \A n \in AllNames : n \notin Range(uploads[r].todo) => disk[i][n] = Written(p)[n]
      BY <1>1, <3>1 DEF Progress
    <3>3. name \in Range(uploads[r].todo)
      BY <1>3, <1>8, RestOfFiles
    <3>4. Progress(r, i)'
      BY <1>5, <1>6, <3>2, <3>3 DEF Progress
    <3>5. On(r, i)'
      BY <1>5 DEF On
    <3> QED BY <1>1, <1>3, <1>4, <2>2, <3>1, <3>4, <3>5, GoesOn DEF loaderVars
  <2> QED BY <2>1, <2>2
<1> QED BY <1>1, <1>3, <1>7, <1>9, <1>10 DEF ScenariosInv

LEMMA WriteStep ==
  ASSUME ScenariosInv, NEW r \in Uploads, Write(r) PROVE ScenariosInv'
<1> DEFINE p == uploads[r].package
           i == IdOf[p]
           name == Head(uploads[r].todo)
           rest == Tail(uploads[r].todo)
           s == IF rest = <<>> THEN "load" ELSE "open"
<1>1. /\ uploads[r] # None /\ uploads[r].step = "write"
      /\ IF disk[i] = None THEN disk' = disk
         ELSE \E content \in Left(r) : disk' = [disk EXCEPT ![i][name] = content]
      /\ uploads' = [uploads EXCEPT ![r].todo = rest, ![r].step = s]
      /\ UNCHANGED <<up, crashes, loaderVars, promised, disturbed>>
  BY DEF Write, At, Rest
<1>2. TypeOK
  BY DEF ScenariosInv
<1>3. /\ uploads[r] \in Upload /\ up /\ p \in Packages /\ i \in Ids /\ On(r, i)
      /\ uploads[r].todo \in Seq(AllNames)
      /\ disk[i] \in [AllNames -> Contents] \cup {None}
  BY <1>1, ItsUpload
<1>4. /\ uploads[r].todo # <<>>
      /\ name \in AllNames /\ name \in Range(uploads[r].todo)
      /\ rest \in Seq(AllNames)
      /\ Range(uploads[r].todo) \subseteq Range(rest) \cup {name}
      /\ Range(rest) \subseteq Range(uploads[r].todo)
  <2>1. uploads[r].todo # <<>>
    BY <1>1 DEF ScenariosInv, FileLeft
  <2> QED BY <1>3, <2>1, RestOfFiles
<1> HIDE DEF name, rest
<1>5. /\ uploads' \in [Uploads -> Upload \cup {None}]
      /\ uploads'[r] = [uploads[r] EXCEPT !.todo = rest, !.step = s]
      /\ uploads'[r] \in Upload
      /\ \A q \in Uploads \ {r} : uploads'[q] = uploads[q]
  BY <1>1, <1>2, <1>3, <1>4 DEF TypeOK, Upload, Steps
<1>6. /\ uploads'[r].package = p /\ uploads'[r].step = s
      /\ uploads'[r].todo = rest /\ uploads'[r] # None
  BY <1>3, <1>5, NoneAssumption DEF Upload
<1>7. /\ disk' \in [Ids -> [AllNames -> Contents] \cup {None}]
      /\ \A id \in Ids \ {i} : disk'[id] = disk[id]
      /\ disk[i] # None => /\ disk'[i] # None
                           /\ disk'[i][name] \in Left(r)
                           /\ \A n \in AllNames \ {name} : disk'[i][n] = disk[i][n]
  <2>0. disk \in [Ids -> [AllNames -> Contents] \cup {None}]
    BY <1>2 DEF TypeOK
  <2>1. CASE disk[i] = None
    BY <1>1, <2>0, <2>1
  <2>2. CASE disk[i] # None
    <3>1. PICK content \in Left(r) : disk' = [disk EXCEPT ![i][name] = content]
      BY <1>1, <2>2
    <3>2. disk[i] \in [AllNames -> Contents]
      BY <1>3, <2>2
    <3>3. content \in Contents
      <4>1. Written(p)[name] \in Contents /\ p \in Contents /\ disk[i][name] \in Contents
        BY <1>3, <1>4, <3>2, Directories DEF Contents
      <4> QED BY <3>1, <4>1 DEF Left, Contents, name
    <3>4. /\ [disk[i] EXCEPT ![name] = content] \in [AllNames -> Contents]
          /\ [disk[i] EXCEPT ![name] = content][name] = content
          /\ \A n \in AllNames \ {name} : [disk[i] EXCEPT ![name] = content][n] = disk[i][n]
      BY <1>4, <3>2, <3>3
    <3>5. disk' = [disk EXCEPT ![i] = [disk[i] EXCEPT ![name] = content]]
      BY <3>1
    <3> DEFINE now == [disk[i] EXCEPT ![name] = content]
    <3> HIDE DEF now
    <3>6. disk' = [disk EXCEPT ![i] = now] /\ now \in [AllNames -> Contents]
      BY <3>4, <3>5 DEF now
    <3>7. /\ disk' \in [Ids -> [AllNames -> Contents] \cup {None}] /\ disk'[i] = now
          /\ \A id \in Ids \ {i} : disk'[id] = disk[id]
      BY <1>3, <2>0, <3>6
    <3>8. now # None
      BY <3>6, NoneAssumption
    <3>9. now[name] \in Left(r) /\ \A n \in AllNames \ {name} : now[n] = disk[i][n]
      BY <3>1, <3>4 DEF now
    <3> QED BY <3>7, <3>8, <3>9
  <2> QED BY <2>1, <2>2
<1>8. TypeOK'
  BY <1>1, <1>2, <1>5, <1>7 DEF TypeOK, loaderVars
<1>9. \A q \in Uploads : FileLeft(q)'
  BY <1>5, <1>6 DEF ScenariosInv, FileLeft
<1>10. ASSUME NEW id \in Ids \ disturbed PROVE Sound(id)'
  <2>1. CASE id # i
    BY <1>1, <1>5, <1>6, <1>7, <2>1, Others DEF loaderVars
  <2>2. CASE id = i
    <3>1. Sound(id) /\ Progress(r, i)
      BY <1>3, <2>2 DEF ScenariosInv, Sound
    <3>2. /\ disk[i] # None
          /\ Range(uploads[r].todo) \subseteq Names(p)
          /\ \A n \in AllNames : n \notin Range(uploads[r].todo) => disk[i][n] = Written(p)[n]
      BY <1>1, <3>1 DEF Progress
    <3>3. name \notin Range(rest) => disk'[i][name] = Written(p)[name]
      BY <1>7, <2>2, <3>2 DEF Left, name, rest
    <3>5. \A n \in AllNames : n \notin Range(rest) => disk'[i][n] = Written(p)[n]
      BY <1>4, <1>7, <3>2, <3>3
    <3>6. s = "load" => rest = <<>>
      OBVIOUS
    <3>7. Range(rest) \subseteq Names(p) /\ disk'[i] # None /\ s # "mkdir"
      BY <1>4, <1>7, <3>2
    <3> HIDE DEF s
    <3>8. Progress(r, i)'
      BY <1>6, <3>5, <3>6, <3>7 DEF Progress
    <3>9. On(r, i)'
      BY <1>6 DEF On
    <3> QED BY <1>1, <1>3, <1>5, <2>2, <3>1, <3>8, <3>9, GoesOn DEF loaderVars
  <2> QED BY <2>1, <2>2
<1> QED BY <1>1, <1>3, <1>8, <1>9, <1>10 DEF ScenariosInv

LEMMA FailsStep ==
  ASSUME ScenariosInv, NEW r \in Uploads, Fails(r) PROVE ScenariosInv'
<1> DEFINE p == uploads[r].package
           i == IdOf[p]
<1>1. /\ uploads[r] # None
      /\ uploads' = [uploads EXCEPT ![r].step = "cleanup"]
      /\ UNCHANGED <<disk, up, crashes, loaderVars, promised, disturbed>>
  BY DEF Fails, Go
<1>2. TypeOK
  BY DEF ScenariosInv
<1>3. uploads[r] \in Upload /\ up /\ p \in Packages /\ i \in Ids /\ On(r, i)
  BY <1>1, ItsUpload
<1>4. /\ uploads' \in [Uploads -> Upload \cup {None}]
      /\ uploads'[r] = [uploads[r] EXCEPT !.step = "cleanup"]
      /\ uploads'[r] \in Upload
      /\ \A q \in Uploads \ {r} : uploads'[q] = uploads[q]
  BY <1>1, <1>2, <1>3 DEF TypeOK, Upload, Steps
<1>5. /\ uploads'[r].package = p /\ uploads'[r].step = "cleanup"
      /\ uploads'[r].todo = uploads[r].todo /\ uploads'[r] # None
  BY <1>3, <1>4, NoneAssumption DEF Upload
<1>6. TypeOK'
  BY <1>1, <1>2, <1>4 DEF TypeOK, loaderVars
<1>7. \A q \in Uploads : FileLeft(q)'
  BY <1>4, <1>5 DEF ScenariosInv, FileLeft
<1>8. ASSUME NEW id \in Ids \ disturbed PROVE Sound(id)'
  <2>1. CASE id # i
    BY <1>1, <1>4, <1>5, <2>1, Others DEF loaderVars
  <2>2. CASE id = i
    <3>1. Sound(id) /\ Progress(r, i)
      BY <1>3, <2>2 DEF ScenariosInv, Sound
    <3>2. Progress(r, i)' /\ On(r, i)'
      BY <1>5, <3>1 DEF Progress, On
    <3> QED BY <1>1, <1>3, <1>4, <2>2, <3>1, <3>2, GoesOn DEF loaderVars
  <2> QED BY <2>1, <2>2
<1> QED BY <1>1, <1>3, <1>6, <1>7, <1>8 DEF ScenariosInv

(* An upload is answered: the directory is removed, or cannot be, or the
   scenario is loaded. *)
LEMMA AnswerSteps ==
  ASSUME ScenariosInv, NEW r \in Uploads, Cleanup(r) \/ CleanupFails(r) \/ Load(r)
  PROVE  ScenariosInv'
<1> DEFINE p == uploads[r].package
           i == IdOf[p]
<1>1. /\ uploads[r] # None /\ uploads' = [uploads EXCEPT ![r] = None]
      /\ UNCHANGED <<up, crashes>>
  BY DEF Cleanup, CleanupFails, Load, At, Answered
<1>2. TypeOK
  BY DEF ScenariosInv
<1>3. /\ uploads[r] \in Upload /\ up /\ p \in Packages /\ i \in Ids /\ On(r, i)
      /\ disk[i] \in [AllNames -> Contents] \cup {None}
  BY <1>1, ItsUpload
<1>4. /\ uploads' \in [Uploads -> Upload \cup {None}]
      /\ uploads'[r] = None
      /\ \A q \in Uploads \ {r} : uploads'[q] = uploads[q]
  BY <1>1, <1>2 DEF TypeOK
<1>5. \A q \in Uploads : FileLeft(q)'
  BY <1>4 DEF ScenariosInv, FileLeft
<1>6. i \notin disturbed => Sound(i) /\ promised[i] = None /\ Progress(r, i)
  BY <1>3 DEF ScenariosInv, Sound
<1>7. i \notin disturbed => catalogue[i] = promised[i]
  BY <1>3, <1>6 DEF Sound
<1>8. CASE Cleanup(r)
  <2>1. disk' = [disk EXCEPT ![i] = None] /\ UNCHANGED <<loaderVars, promised, disturbed>>
    BY <1>8 DEF Cleanup, Removed
  <2>2. TypeOK'
    BY <1>1, <1>2, <1>4, <2>1 DEF TypeOK, loaderVars
  <2>3. disk'[i] = None /\ \A id \in Ids \ {i} : disk'[id] = disk[id]
    BY <1>2, <1>3, <2>1 DEF TypeOK
  <2>4. ASSUME NEW id \in Ids \ disturbed PROVE Sound(id)'
    <3>1. CASE id # i
      BY <1>1, <1>4, <2>1, <2>3, <3>1, Others DEF loaderVars
    <3>2. CASE id = i
      BY <1>3, <1>4, <1>6, <1>7, <2>1, <2>3, <3>2, ItEnds DEF loaderVars
    <3> QED BY <3>1, <3>2
  <2> QED BY <1>1, <1>3, <1>5, <2>1, <2>2, <2>4 DEF ScenariosInv
<1>9. CASE CleanupFails(r)
  <2>1. disturbed' = disturbed \cup {i} /\ UNCHANGED <<disk, loaderVars, promised>>
    BY <1>9 DEF CleanupFails
  <2>2. TypeOK'
    BY <1>1, <1>2, <1>3, <1>4, <2>1 DEF TypeOK, loaderVars
  <2>3. ASSUME NEW id \in Ids \ disturbed' PROVE Sound(id)'
    BY <1>1, <1>4, <2>1, Others DEF loaderVars
  <2> QED BY <1>1, <1>3, <1>5, <2>2, <2>3 DEF ScenariosInv
<1>10. CASE Load(r)
  <2>1. /\ uploads[r].step = "load" /\ UNCHANGED disk
        /\ \/ /\ Readable(i)
              /\ catalogue' = [catalogue EXCEPT ![i] = disk[i][Metadata]]
              /\ summaries' = Append(summaries, i)
              /\ promised' = [promised EXCEPT ![i] = p]
              /\ disturbed' = disturbed
           \/ /\ ~Readable(i) /\ UNCHANGED <<loaderVars, promised>>
              /\ disturbed' = disturbed \cup {i}
    BY <1>10 DEF Load, At, LoadScenario
  <2>2. /\ catalogue' \in [Ids -> Packages \cup {None}]
        /\ promised' \in [Ids -> Packages \cup {None}]
        /\ summaries' \in Seq(Ids)
    <3>1. /\ catalogue \in [Ids -> Packages \cup {None}] /\ summaries \in Seq(Ids)
          /\ promised \in [Ids -> Packages \cup {None}]
      BY <1>2 DEF TypeOK
    <3>2. CASE ~Readable(i) /\ UNCHANGED <<loaderVars, promised>>
      BY <3>1, <3>2 DEF loaderVars
    <3>3. CASE Readable(i)
      <4>1. disk[i][Metadata] \in Packages
        BY <3>3 DEF Readable
      <4>2. catalogue' = [catalogue EXCEPT ![i] = disk[i][Metadata]]
        BY <2>1, <3>3
      <4>3. promised' = [promised EXCEPT ![i] = p] /\ summaries' = Append(summaries, i)
        BY <2>1, <3>3
      <4>4. catalogue' \in [Ids -> Packages \cup {None}]
        BY <3>1, <4>1, <4>2
      <4>5. promised' \in [Ids -> Packages \cup {None}]
        BY <1>3, <3>1, <4>3
      <4>6. summaries' \in Seq(Ids)
        BY <1>3, <3>1, <4>3
      <4> QED BY <4>4, <4>5, <4>6
    <3> QED BY <2>1, <3>2, <3>3
  <2>3. TypeOK'
    <3>1. disturbed' \subseteq Ids
      BY <1>2, <1>3, <2>1 DEF TypeOK
    <3>2. disk' \in [Ids -> [AllNames -> Contents] \cup {None}]
      BY <1>2, <2>1 DEF TypeOK
    <3> QED BY <1>1, <1>2, <1>4, <2>2, <3>1, <3>2 DEF TypeOK
  <2>4. \A id \in Ids \ {i} : catalogue'[id] = catalogue[id] /\ promised'[id] = promised[id]
    BY <1>2, <2>1 DEF TypeOK, loaderVars
  <2>5. ASSUME NEW id \in Ids \ disturbed' PROVE Sound(id)'
    <3>0. id \in Ids \ disturbed
      BY <2>1
    <3>1. CASE id # i
      BY <1>1, <1>4, <2>1, <2>4, <3>0, <3>1, Others
    <3>2. CASE id = i
      <4>0. Readable(i) /\ disturbed' = disturbed
        BY <2>1, <3>2
      <4>1. /\ uploads[r].todo = <<>> /\ disk[i] # None
            /\ \A n \in AllNames :
                 n \notin Range(uploads[r].todo) => disk[i][n] = Written(p)[n]
        BY <1>6, <2>1, <3>0, <3>2 DEF Progress
      <4>2. Range(uploads[r].todo) = {}
        BY <4>1 DEF Range
      <4>3. disk[i] = Written(p)
        BY <1>3, <4>1, <4>2, Directories
      <4>4. disk[i][Metadata] = p /\ Metadata \notin FilesOf[p]
        BY <1>3, <4>0, <4>3, Directories, NoneAssumption DEF Readable
      <4>5. catalogue'[i] = p /\ promised'[i] = p
        BY <1>2, <1>3, <2>1, <4>0, <4>4 DEF TypeOK
      <4>6. p # None
        BY <1>3, NoneAssumption
      <4>7. disk'[i] = IF promised'[i] # None THEN Written(promised'[i]) ELSE None
        BY <2>1, <4>3, <4>5, <4>6
      <4> QED BY <1>3, <1>4, <1>6, <3>0, <3>2, <4>4, <4>5, <4>7, ItEnds
    <3> QED BY <3>1, <3>2
  <2> QED BY <1>1, <1>3, <1>5, <2>1, <2>3, <2>5 DEF ScenariosInv
<1> QED BY <1>8, <1>9, <1>10

LEMMA SubmitStep ==
  ASSUME ScenariosInv, NEW r \in Uploads, NEW p \in Packages, Submit(r, p)
  PROVE  ScenariosInv'
<1> DEFINE i == IdOf[p]
<1>1. PICK files \in [1..Cardinality(FilesOf[p]) -> FilesOf[p]] :
        /\ Range(files) = FilesOf[p]
        /\ uploads' = [uploads EXCEPT ![r] =
             [package |-> p, step |-> "mkdir", todo |-> <<Metadata>> \o files]]
  BY DEF Submit
<1>2. /\ up /\ uploads[r] = None /\ catalogue[i] = None
      /\ disturbed' = IF Busy(i) THEN disturbed \cup {i} ELSE disturbed
      /\ UNCHANGED <<disk, up, crashes, loaderVars, promised>>
  BY DEF Submit, Exists
<1>3. TypeOK
  BY DEF ScenariosInv
<1> DEFINE todo == <<Metadata>> \o files
           new == [package |-> p, step |-> "mkdir", todo |-> todo]
<1>4. todo \in Seq(AllNames) /\ todo # <<>> /\ Range(todo) = Names(p)
  BY <1>1, AllFiles
<1> HIDE DEF todo
<1>5. new \in Upload /\ new # None /\ new.package = p /\ new.todo = todo /\ new.step = "mkdir"
  BY <1>4, NoneAssumption DEF Upload, Steps
<1>6. uploads' = [uploads EXCEPT ![r] = new]
  BY <1>1 DEF todo
<1> HIDE DEF new
<1>7. /\ uploads' \in [Uploads -> Upload \cup {None}]
      /\ uploads'[r] = new
      /\ \A q \in Uploads \ {r} : uploads'[q] = uploads[q]
  BY <1>3, <1>5, <1>6 DEF TypeOK
<1>8. i \in Ids
  BY Directories
<1>9. TypeOK'
  BY <1>2, <1>3, <1>7, <1>8 DEF TypeOK, loaderVars
<1>10. \A q \in Uploads : FileLeft(q)'
  BY <1>4, <1>5, <1>7 DEF ScenariosInv, FileLeft
<1>11. ASSUME NEW id \in Ids \ disturbed' PROVE Sound(id)'
  <2>1. Sound(id)
    BY <1>2 DEF ScenariosInv
  <2>2. CASE id # i
    <3>1. \A q \in Uploads : /\ On(q, id)' <=> On(q, id)
                             /\ On(q, id) => uploads'[q] = uploads[q]
      BY <1>2, <1>5, <1>7, <2>2 DEF On
    <3> QED BY <1>2, <2>1, <3>1, OtherId DEF loaderVars
  <2>3. CASE id = i
    <3>1. \A q \in Uploads : ~On(q, id)
      BY <1>2, <2>3 DEF Busy, On
    <3>2. \A q \in Uploads : On(q, id)' => q = r
      BY <1>7, <3>1 DEF On
    <3>3. promised[id] = None /\ disk[id] = None
      BY <1>2, <2>1, <2>3, <3>1 DEF Sound
    <3>4. Progress(r, id)'
      BY <1>2, <1>4, <1>5, <1>7, <3>3 DEF Progress
    <3>5. On(r, id)'
      BY <1>5, <1>7, <2>3 DEF On
    <3>6. up' => catalogue'[id] = promised'[id]
      BY <1>2, <2>1 DEF Sound, loaderVars
    <3>7. promised'[id] = None
      BY <1>2, <3>3
    <3> QED BY <3>2, <3>4, <3>5, <3>6, <3>7 DEF Sound
  <2> QED BY <2>2, <2>3
<1> QED BY <1>2, <1>9, <1>10, <1>11 DEF ScenariosInv

LEMMA CrashStep ==
  ASSUME ScenariosInv, Crash PROVE ScenariosInv'
<1>1. /\ crashes < MaxCrashes /\ crashes' = crashes + 1 /\ up' = FALSE
      /\ catalogue' = [id \in Ids |-> None] /\ summaries' = <<>>
      /\ uploads' = [r \in Uploads |-> None]
      /\ disturbed' = disturbed \cup {id \in Ids : Busy(id)}
      /\ UNCHANGED <<disk, promised>>
  BY DEF Crash
<1>2. TypeOK
  BY DEF ScenariosInv
<1>3. crashes' \in 0..MaxCrashes
  BY <1>1, <1>2, ScenariosAssumption DEF TypeOK
<1>4. TypeOK'
  <2>1. catalogue' \in [Ids -> Packages \cup {None}]
    BY <1>1
  <2>2. uploads' \in [Uploads -> Upload \cup {None}]
    BY <1>1
  <2>3. summaries' \in Seq(Ids)
    BY <1>1
  <2>4. disturbed' \subseteq Ids
    BY <1>1, <1>2 DEF TypeOK
  <2>5. /\ disk' \in [Ids -> [AllNames -> Contents] \cup {None}]
        /\ promised' \in [Ids -> Packages \cup {None}]
    BY <1>1, <1>2 DEF TypeOK
  <2> QED BY <1>1, <1>3, <2>1, <2>2, <2>3, <2>4, <2>5 DEF TypeOK
<1>5. \A r \in Uploads : uploads'[r] = None
  BY <1>1
<1>6. ASSUME NEW id \in Ids \ disturbed' PROVE Sound(id)'
  <2>1. Sound(id) /\ \A r \in Uploads : ~On(r, id)
    BY <1>1 DEF ScenariosInv, Busy, On
  <2>2. \A r \in Uploads : ~On(r, id)'
    BY <1>5 DEF On
  <2>3. disk'[id] = IF promised'[id] # None THEN Written(promised'[id]) ELSE None
    BY <1>1, <2>1 DEF Sound
  <2> QED BY <1>1, <2>1, <2>2, <2>3 DEF Sound
<1> QED BY <1>4, <1>5, <1>6 DEF ScenariosInv, FileLeft

(* The listing of a finite set of ids. *)
LEMMA Listing ==
  ASSUME NEW S, S \subseteq Ids PROVE SetToSeq(S) \in Seq(Ids)
<1> DEFINE f == [p \in Packages |-> IdOf[p]]
           n == Cardinality(S)
<1>1. f \in Surjection(Packages, Ids)
  BY DEF Surjection, Ids
<1>2. IsFiniteSet(S)
  BY <1>1, ScenariosAssumption, FS_Surjection, FS_Subset DEF ExistsSurjection
<1>3. n \in Nat /\ Bijection(1..n, S) # {}
  BY <1>2, FS_CardinalityType DEF ExistsBijection
<1>4. \E g \in [1..n -> S] : IsInjective(g)
  BY <1>3 DEF Bijection, Injection
<1>5. SetToSeq(S) \in [1..n -> S]
  BY <1>4 DEF SetToSeq
<1> QED BY <1>3, <1>5

LEMMA StartStep ==
  ASSUME ScenariosInv, Start PROVE ScenariosInv'
<1>1. /\ ~up /\ up' = TRUE
      /\ catalogue' = [id \in Ids |-> IF Readable(id) THEN disk[id][Metadata] ELSE None]
      /\ summaries' = SetToSeq({id \in Ids : Readable(id)})
      /\ UNCHANGED <<disk, crashes, uploads, promised, disturbed>>
  BY DEF Start
<1>2. TypeOK /\ \A r \in Uploads : uploads[r] = None
  BY <1>1 DEF ScenariosInv
<1>3. summaries' \in Seq(Ids)
  BY <1>1, Listing
<1>4. catalogue' \in [Ids -> Packages \cup {None}]
  BY <1>1 DEF Readable
<1>5. TypeOK'
  BY <1>1, <1>2, <1>3, <1>4 DEF TypeOK
<1>6. ASSUME NEW id \in Ids \ disturbed PROVE Sound(id)'
  <2>1. Sound(id) /\ (\A r \in Uploads : ~On(r, id)) /\ (\A r \in Uploads : ~On(r, id)')
    BY <1>1, <1>2 DEF ScenariosInv, On
  <2>2. disk[id] = IF promised[id] # None THEN Written(promised[id]) ELSE None
    BY <2>1 DEF Sound
  <2>3. /\ promised[id] \in Packages \cup {None}
        /\ promised[id] # None => Metadata \notin FilesOf[promised[id]]
    BY <1>2, <2>1 DEF TypeOK, Sound
  <2>4. catalogue'[id] = promised[id]
    <3>1. CASE promised[id] = None
      BY <1>1, <2>2, <3>1 DEF Readable
    <3>2. CASE promised[id] # None
      <4>1. disk[id] # None /\ disk[id][Metadata] = promised[id]
        BY <2>2, <2>3, <3>2, Directories
      <4> QED BY <1>1, <2>3, <3>2, <4>1 DEF Readable
    <3> QED BY <3>1, <3>2
  <2> QED BY <1>1, <2>1, <2>2, <2>4 DEF Sound
<1> QED BY <1>1, <1>2, <1>5, <1>6 DEF ScenariosInv, FileLeft

LEMMA StutterStep ==
  ASSUME ScenariosInv, UNCHANGED vars PROVE ScenariosInv'
<1>1. /\ TypeOK' /\ UNCHANGED <<disk, up, catalogue, uploads, promised, disturbed>>
  BY DEF ScenariosInv, TypeOK, vars, loaderVars
<1>2. ASSUME NEW id \in Ids \ disturbed PROVE Sound(id)'
  BY <1>1, OtherId DEF ScenariosInv, On
<1> QED BY <1>1, <1>2 DEF ScenariosInv, FileLeft

-----------------------------------------------------------------------------
(* The invariant, and what follows from it. *)

LEMMA ScenariosInit == Init => ScenariosInv
<1> SUFFICES ASSUME Init PROVE ScenariosInv
  OBVIOUS
<1> DEFINE There(id) == \E p \in Shipped : IdOf[p] = id
           First(id) == CHOOSE p \in Shipped : IdOf[p] = id
<1>1. /\ disk = [id \in Ids |-> IF There(id) THEN Written(First(id)) ELSE None]
      /\ promised = [id \in Ids |-> IF There(id) THEN First(id) ELSE None]
      /\ up = FALSE /\ crashes = 0 /\ summaries = <<>> /\ disturbed = {}
      /\ catalogue = [id \in Ids |-> None] /\ uploads = [r \in Uploads |-> None]
  BY DEF Init
<1>2. \A id \in Ids : There(id) =>
        First(id) \in Packages /\ Metadata \notin FilesOf[First(id)]
  BY ScenariosAssumption
<1> HIDE DEF There, First
<1>3. \A id \in Ids : There(id) =>
        Written(First(id)) \in [AllNames -> Contents] /\ First(id) # None
  BY <1>2, Directories, NoneAssumption
<1>4. TypeOK
  <2>1. disk \in [Ids -> [AllNames -> Contents] \cup {None}]
    BY <1>1, <1>3
  <2>2. promised \in [Ids -> Packages \cup {None}]
    BY <1>1, <1>2
  <2>3. catalogue \in [Ids -> Packages \cup {None}]
    BY <1>1
  <2>6. summaries \in Seq(Ids)
    BY <1>1
  <2>4. uploads \in [Uploads -> Upload \cup {None}]
    BY <1>1
  <2>5. crashes \in 0..MaxCrashes
    BY <1>1, ScenariosAssumption
  <2>7. disturbed \subseteq Ids /\ up \in BOOLEAN
    BY <1>1
  <2> QED BY <2>1, <2>2, <2>3, <2>4, <2>5, <2>6, <2>7 DEF TypeOK
<1>5. \A r \in Uploads : uploads[r] = None
  BY <1>1
<1>6. ASSUME NEW id \in Ids PROVE Sound(id)
  <2>1. disk[id] = IF promised[id] # None THEN Written(promised[id]) ELSE None
    BY <1>1, <1>3
  <2>2. promised[id] # None => Metadata \notin FilesOf[promised[id]]
    BY <1>1, <1>2
  <2> QED BY <1>1, <1>5, <2>1, <2>2 DEF Sound, On
<1> QED BY <1>4, <1>5, <1>6 DEF ScenariosInv, FileLeft

LEMMA ScenariosStep == ScenariosInv /\ [Next]_vars => ScenariosInv'
<1> SUFFICES ASSUME ScenariosInv, [Next]_vars PROVE ScenariosInv'
  OBVIOUS
<1>1. CASE UNCHANGED vars
  BY <1>1, StutterStep
<1>2. CASE Start \/ Crash
  BY <1>2, StartStep, CrashStep
<1>3. CASE StartFails \/ \E p \in Packages : Rejected(p)
  BY <1>1, <1>3 DEF StartFails, Rejected
<1>4. ASSUME NEW r \in Uploads, Process(r) \/ Fails(r) \/ \E p \in Packages : Submit(r, p)
      PROVE  ScenariosInv'
  BY <1>4, MakeDirectoryStep, OpenStep, WriteStep, AnswerSteps, FailsStep, SubmitStep
     DEF Process
<1> QED BY <1>1, <1>2, <1>3, <1>4 DEF Next

LEMMA ScenariosInvariant == Spec => []ScenariosInv
BY ScenariosInit, ScenariosStep, PTL DEF Spec

(* The loader keeps its types. *)
THEOREM ScenariosTyped == Spec => []TypeOK
<1>1. ScenariosInv => TypeOK
  BY DEF ScenariosInv
<1> QED BY <1>1, ScenariosInvariant, PTL

(* Of an id to which nothing happened that the code does not handle, the
   directory is there, whole, exactly if sessions can choose it. *)
THEOREM DiskAgrees == Spec => []DiskMatchesCatalogue
<1>1. ScenariosInv => DiskMatchesCatalogue
  BY DEF ScenariosInv, DiskMatchesCatalogue, Sound, Busy, On
<1> QED BY <1>1, ScenariosInvariant, PTL

(* What was acknowledged is what sessions get, for such an id. *)
THEOREM PromisesKept == Spec => []PromiseKept
<1>1. ScenariosInv => PromiseKept
  BY DEF ScenariosInv, PromiseKept, Sound
<1> QED BY <1>1, ScenariosInvariant, PTL
=============================================================================
