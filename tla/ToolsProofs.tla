----------------------------- MODULE ToolsProofs ----------------------------
(***************************************************************************)
(* Proofs about the command line programs: which files they may change,    *)
(* what they have written is readable, and what a batch makes of its       *)
(* inputs, in files of their own or one after another; for all command     *)
(* lines and files, and whatever cannot be written or breaks off.  And     *)
(* about the hex files they exchange: a buffer that is written as one is   *)
(* loaded again, and what was typed into one is loaded where it says.      *)
(***************************************************************************)
EXTENDS Tools, HexFile, FiniteSetTheorems, SequenceTheorems, TLAPS, WellFoundedInduction

AllElseUntouched == \A p : p \in MayChange \/ Untouched(p)

(* What CheckArguments has found out of a command that writes.             *)
OutputsFine ==
  command.prog = "header" /\ command.writeout =>
    /\ ToSet(OutputNames) \cap ToSet(command.inputs) = {}
    /\ OneOrEach(OutputNames)
    /\ command.inputs # <<>>

(* Before the first input is loaded nothing is written but the file that   *)
(* is opened for appending.                                                *)
ScopeInv ==
  /\ command \in Commands
  /\ pc \in {"arguments", "open"} => files = before /\ command.prog = "header"
  /\ pc \in {"open", "load", "write"} => OutputsFine
  /\ pc \in {"load", "write"} \/ (pc = "ended" /\ result # "undefined") => AllElseUntouched

-----------------------------------------------------------------------------
(* The first name of a list of names that is not empty is an output.       *)
LEMMA NameIsOutput ==
  ASSUME NEW k \in DOMAIN OutputNames
  PROVE  OutputNames[k] \in ToSet(OutputNames)
  BY DEF ToSet

LEMMA NamesNotEmpty ==
  ASSUME command \in Commands, command.prog = "header", command.writeout, OutputsFine
  PROVE  1 \in DOMAIN OutputNames
<1>1. OneOrEach(OutputNames) /\ command.inputs # <<>>
  BY DEF OutputsFine
<1>2. command.inputs \in Seq(ToSet(command.inputs)) /\ command.outputs \in Seq(ToSet(command.outputs))
  BY ToolsAssumption
<1>3. Len(command.inputs) \in Nat \ {0}
  BY <1>1, <1>2
<1>4. CASE command.outputs # <<>>
  <2>1. OutputNames = command.outputs
    BY <1>4 DEF OutputNames
  <2> QED  BY <1>2, <1>4, <2>1
<1>5. CASE command.outputs = <<>> /\ command.cat
  BY <1>5 DEF OutputNames
<1>6. CASE command.outputs = <<>> /\ ~ command.cat
  <2>1. OutputNames = [k \in DOMAIN command.inputs |-> StripSuffix(command.inputs[k])]
    BY <1>6 DEF OutputNames
  <2>2. 1 \in DOMAIN command.inputs
    BY <1>2, <1>3
  <2> QED  BY <2>1, <2>2
<1> QED  BY <1>4, <1>5, <1>6

(* A name is one of the command line, or made of an input's.               *)
LEMMA WhereNamesComeFrom ==
  ASSUME command \in Commands, command.writeout, command.inputs # <<>>, NEW p \in ToSet(OutputNames)
  PROVE  p \in ToSet(command.outputs) \cup {StripSuffix(q) : q \in ToSet(command.inputs)}
<1>1. command.inputs \in Seq(ToSet(command.inputs))
  BY ToolsAssumption
<1>2. \A k \in DOMAIN command.inputs : command.inputs[k] \in ToSet(command.inputs)
  BY DEF ToSet
<1>3. CASE command.outputs # <<>>
  BY <1>3 DEF OutputNames
<1>4. CASE command.outputs = <<>> /\ command.cat
  <2>1. OutputNames = <<StripSuffix(command.inputs[1])>>
    BY <1>4 DEF OutputNames
  <2>2. p = StripSuffix(command.inputs[1])
    BY <2>1 DEF ToSet
  <2>3. 1 \in DOMAIN command.inputs
    BY <1>1
  <2> QED  BY <1>2, <2>2, <2>3
<1>5. CASE command.outputs = <<>> /\ ~ command.cat
  <2>1. OutputNames = [k \in DOMAIN command.inputs |-> StripSuffix(command.inputs[k])]
    BY <1>5 DEF OutputNames
  <2>2. PICK k \in DOMAIN command.inputs : p = StripSuffix(command.inputs[k])
    BY <2>1 DEF ToSet
  <2> QED  BY <1>2, <2>2
<1> QED  BY <1>3, <1>4, <1>5

(* An output of xyuv-header, and its description, may change.              *)
LEMMA HeaderMayChange ==
  ASSUME command \in Commands, command.prog = "header", command.writeout, OutputsFine,
         NEW k \in DOMAIN OutputNames
  PROVE  /\ OutputNames[k] \in MayChange
         /\ command.meta => MetaPath(OutputNames[k]) \in MayChange
<1>1. OutputNames[k] \in ToSet(OutputNames) /\ Outputs = ToSet(OutputNames) /\ Inputs = ToSet(command.inputs)
  BY NameIsOutput DEF Outputs, Inputs
<1>2. OutputNames[k] \notin Inputs
  BY <1>1 DEF OutputsFine
<1>3. OutputNames[k] \in ToSet(command.outputs) \cup {StripSuffix(q) : q \in ToSet(command.inputs)}
  BY <1>1, WhereNamesComeFrom DEF OutputsFine
<1>4. MetaPath(OutputNames[k]) \notin Inputs
  BY <1>1, <1>3, ToolsAssumption
<1> QED  BY <1>1, <1>2, <1>4 DEF MayChange

LEMMA OneMayChange ==
  ASSUME command.prog \in {"encode", "decode"}
  PROVE  Out \in MayChange /\ (command.meta => MetaPath(Out) \in MayChange)
  BY DEF MayChange, Outputs, Inputs

-----------------------------------------------------------------------------
(* Do the files now and in the next state differ in p?                     *)
Same(p) == (p \in DOMAIN files' <=> p \in DOMAIN files) /\ (p \in DOMAIN files => files'[p] = files[p])

LEMMA UntouchedStays ==
  ASSUME AllElseUntouched, UNCHANGED <<command, before>>, \A p : p \in MayChange \/ Same(p)
  PROVE  AllElseUntouched'
<1>1. MayChange' = MayChange
  BY DEF MayChange, Outputs, Inputs, OutputNames, Out
<1>2. SUFFICES ASSUME NEW p, p \notin MayChange  PROVE Untouched(p)'
  BY <1>1 DEF AllElseUntouched
<1>3. Untouched(p) /\ Same(p)
  BY <1>2 DEF AllElseUntouched
<1> QED  BY <1>3 DEF Untouched, Same

LEMMA SameIfUnchanged == files' = files => \A p : Same(p)
  BY DEF Same

LEMMA SameIfPut ==
  ASSUME NEW q, NEW content, files' = Put(q, content)
  PROVE  \A p : p = q \/ Same(p)
  BY DEF Same, Put

(* An input is loaded.                                                     *)
LEMMA LoadKeepsScope ==
  ASSUME ScopeInv, NEW loads, Load(loads)
  PROVE  ScopeInv'
<1>1. /\ pc = "load" /\ pc' \in {"write", "ended"} /\ UNCHANGED <<command, before>>
      /\ AllElseUntouched /\ OutputsFine /\ command \in Commands
  BY DEF Load, End, ScopeInv
<1>2. \A p : p \in MayChange \/ Same(p)
  <2>1. CASE files' = files
    BY <2>1, SameIfUnchanged
  <2>2. CASE Appending /\ \E part : files' = Put(OutputNames[1], part)
    <3>1. OutputNames[1] \in MayChange
      BY <1>1, <2>2, NamesNotEmpty, HeaderMayChange DEF Appending
    <3> QED  BY <2>2, <3>1, SameIfPut
  <2> QED  BY <2>1, <2>2 DEF Load
<1>3. AllElseUntouched'
  BY <1>1, <1>2, UntouchedStays
<1>4. OutputsFine'
  BY <1>1 DEF OutputsFine, OutputNames, OneOrEach
<1> QED  BY <1>1, <1>3, <1>4 DEF ScopeInv

(* Something is written to what may change.                                *)
LEMMA WriteKeepsScope ==
  ASSUME ScopeInv, pc = "write", pc' \in {"load", "ended"}, UNCHANGED <<command, before>>,
         \A p : p \in MayChange \/ Same(p)
  PROVE  ScopeInv'
<1>1. AllElseUntouched'
  BY UntouchedStays DEF ScopeInv
<1>2. OutputsFine'
  BY DEF ScopeInv, OutputsFine, OutputNames, OneOrEach
<1> QED  BY <1>1, <1>2 DEF ScopeInv

LEMMA NextOrEnd ==
  (NextInput \/ \E how : End(how)) => pc' \in {"load", "ended"}
  BY DEF NextInput, End

LEMMA AppendKeepsScope ==
  ASSUME ScopeInv, AppendFrame
  PROVE  ScopeInv'
<1>1. /\ pc = "write" /\ Appending /\ UNCHANGED <<command, before>>
      /\ NextInput \/ End("abort")
      /\ files' = files \/ \E part : files' = Put(OutputNames[1], part)
  BY DEF AppendFrame
<1>2. OutputNames[1] \in MayChange
  BY <1>1, NamesNotEmpty, HeaderMayChange DEF Appending, ScopeInv
<1>3. \A p : p \in MayChange \/ Same(p)
  BY <1>1, <1>2, SameIfPut, SameIfUnchanged
<1> QED  BY <1>1, <1>3, NextOrEnd, WriteKeepsScope

(* A file and its description.                                             *)
LEMMA SameButOutput ==
  ASSUME NEW q, q \in MayChange, command.meta => MetaPath(q) \in MayChange,
         \/ files' \in {files, WithMeta(q), WriteFrame(q, files), BreakFrame(q, files)}
         \/ files' \in {WriteFrame(q, WithMeta(q)), BreakFrame(q, WithMeta(q))}
  PROVE  \A p : p \in MayChange \/ Same(p)
<1> SUFFICES ASSUME NEW p, p \notin MayChange  PROVE Same(p)
  OBVIOUS
<1>1. p # q /\ (command.meta => p # MetaPath(q))
  OBVIOUS
<1> DEFINE old == WithMeta(q)
<1>2. (p \in DOMAIN old <=> p \in DOMAIN files) /\ (p \in DOMAIN files => old[p] = files[p])
  BY <1>1 DEF WithMeta, Put
<1> HIDE DEF old
<1>3. \A fs : /\ p \in DOMAIN WriteFrame(q, fs) <=> p \in DOMAIN fs
              /\ p \in DOMAIN BreakFrame(q, fs) <=> p \in DOMAIN fs
              /\ p \in DOMAIN fs => WriteFrame(q, fs)[p] = fs[p] /\ BreakFrame(q, fs)[p] = fs[p]
  BY <1>1 DEF WriteFrame, BreakFrame
<1>4. files' \in {files, old, WriteFrame(q, files), BreakFrame(q, files), WriteFrame(q, old), BreakFrame(q, old)}
  BY DEF old
<1> QED  BY <1>2, <1>3, <1>4 DEF Same

LEMMA OutputKeepsScope ==
  ASSUME ScopeInv, WriteOutput
  PROVE  ScopeInv'
<1>1. /\ pc = "write" /\ command.prog = "header" /\ command.writeout /\ UNCHANGED <<command, before>>
      /\ NextInput \/ \E how : End(how)
  BY DEF WriteOutput
<1>2. CASE files' = files
  BY <1>1, <1>2, SameIfUnchanged, NextOrEnd, WriteKeepsScope
<1>3. CASE files' # files
  <2>1. /\ file \in DOMAIN OutputNames
        /\ files' \in {WithMeta(OutputNames[file]), WriteFrame(OutputNames[file], WithMeta(OutputNames[file])),
                       BreakFrame(OutputNames[file], WithMeta(OutputNames[file]))}
    BY <1>3 DEF WriteOutput
  <2>2. /\ OutputNames[file] \in MayChange
        /\ command.meta => MetaPath(OutputNames[file]) \in MayChange
    BY <1>1, <2>1, HeaderMayChange DEF ScopeInv
  <2>3. \A p : p \in MayChange \/ Same(p)
    BY <2>1, <2>2, SameButOutput
  <2> QED  BY <1>1, <2>3, NextOrEnd, WriteKeepsScope
<1> QED  BY <1>2, <1>3

LEMMA WriteOneKeepsScope ==
  ASSUME ScopeInv, WriteOne
  PROVE  ScopeInv'
<1>1. /\ pc = "write" /\ command.prog \in {"encode", "decode"} /\ UNCHANGED <<command, before>> /\ pc' = "ended"
  BY DEF WriteOne, End
<1>2. files' \in {files, WriteFrame(Out, WithMeta(Out)), WriteFrame(Out, files),
                  BreakFrame(Out, files), BreakFrame(Out, WithMeta(Out))}
  BY DEF WriteOne
<1>3. Out \in MayChange /\ (command.meta => MetaPath(Out) \in MayChange)
  BY <1>1, OneMayChange
<1>4. \A p : p \in MayChange \/ Same(p)
  BY <1>2, <1>3, SameButOutput
<1> QED  BY <1>1, <1>4, WriteKeepsScope

LEMMA OpenKeepsScope ==
  ASSUME ScopeInv, OpenOutput
  PROVE  ScopeInv'
<1>1. pc = "open" /\ files = before /\ OutputsFine /\ command \in Commands /\ UNCHANGED <<command, before>>
  BY DEF OpenOutput, ScopeInv
<1>2. AllElseUntouched
  BY <1>1 DEF AllElseUntouched, Untouched
<1>3. OutputsFine'
  BY <1>1 DEF OutputsFine, OutputNames, OneOrEach
<1>4. CASE files' = files
  <2>1. AllElseUntouched'
    BY <1>1, <1>2, <1>4, SameIfUnchanged, UntouchedStays
  <2> QED  BY <1>1, <1>3, <2>1 DEF ScopeInv, OpenOutput, End
<1>5. CASE files' # files
  <2>1. /\ OutputNames # <<>> /\ pc' = "load"
        /\ files' = Put(OutputNames[1], <<>>)
    BY <1>5 DEF OpenOutput, OpenForAppending
  <2>2. OutputNames[1] \in MayChange
    <3>1. command.prog = "header" /\ command.writeout
      BY <1>1, <2>1 DEF OutputNames, ScopeInv
    <3> QED  BY <1>1, <3>1, NamesNotEmpty, HeaderMayChange
  <2>3. AllElseUntouched'
    BY <1>1, <1>2, <2>1, <2>2, SameIfPut, UntouchedStays
  <2> QED  BY <1>1, <1>3, <2>1, <2>3 DEF ScopeInv
<1> QED  BY <1>4, <1>5

LEMMA CheckKeepsScope ==
  ASSUME ScopeInv, CheckArguments
  PROVE  ScopeInv'
<1>1. /\ pc = "arguments" /\ files = before /\ command \in Commands
      /\ UNCHANGED <<files, command, before>>
      /\ pc' \in {"ended", "open", "load"}
  BY DEF CheckArguments, ScopeInv, End
<1>2. AllElseUntouched'
  BY <1>1 DEF AllElseUntouched, Untouched
<1>3. pc' \in {"open", "load"} => OutputsFine'
  <2>1. SUFFICES ASSUME pc' \in {"open", "load"}  PROVE OutputsFine
    BY <1>1 DEF OutputsFine, OutputNames, OneOrEach
  <2>2. ~ (command.writeout /\ BadOutputs) /\ ~ BadInputs
    BY <2>1 DEF CheckArguments, End
  <2> QED  BY <2>2 DEF BadOutputs, BadInputs, OutputsFine
<1> QED  BY <1>1, <1>2, <1>3 DEF ScopeInv

LEMMA StartKeepsScope ==
  ASSUME ScopeInv, StartCommand
  PROVE  ScopeInv'
<1>1. command' \in Commands /\ files' = before'
      /\ pc' = IF command'.prog = "header" THEN "arguments" ELSE "load"
  BY DEF StartCommand
<1>2. AllElseUntouched'
  BY <1>1 DEF AllElseUntouched, Untouched
<1>3. pc' = "load" => OutputsFine'
  BY <1>1 DEF OutputsFine
<1> QED  BY <1>1, <1>2, <1>3 DEF ScopeInv

LEMMA ScopeKept ==
  ASSUME ScopeInv, [Next]_vars
  PROVE  ScopeInv'
<1>1. CASE UNCHANGED vars \/ Stopped
  <2>1. UNCHANGED <<files, command, pc, result, before>>
    BY <1>1 DEF Stopped, vars
  <2> QED  BY <2>1 DEF ScopeInv, AllElseUntouched, Untouched, MayChange, Outputs, Inputs, OutputNames, Out,
                       OutputsFine, OneOrEach
<1>2. CASE LoadInput \/ EncodeInput \/ DecodeInput
  BY <1>2, LoadKeepsScope DEF LoadInput, EncodeInput, DecodeInput
<1>3. CASE SuppressWriteout
  <2>1. pc = "write" /\ UNCHANGED <<files, command, before>> /\ NextInput
    BY <1>3 DEF SuppressWriteout
  <2> QED  BY <2>1, SameIfUnchanged, NextOrEnd, WriteKeepsScope
<1> QED  BY <1>1, <1>2, <1>3, StartKeepsScope, CheckKeepsScope, OpenKeepsScope, AppendKeepsScope,
            OutputKeepsScope, WriteOneKeepsScope DEF Next

(* Whatever the command lines, the files and the failures, a program       *)
(* changes no file but its outputs and their descriptions, and xyuv-header *)
(* none of its inputs.                                                     *)
THEOREM OnlyOutputs == Spec => []OnlyOutputsChange
<1>1. Init => ScopeInv
  BY DEF Init, ScopeInv
<1>2. ScopeInv /\ [Next]_vars => ScopeInv'
  BY ScopeKept
<1>3. ScopeInv => OnlyOutputsChange
  BY DEF ScopeInv, AllElseUntouched, OnlyOutputsChange
<1> QED  BY <1>1, <1>2, <1>3, PTL DEF Spec

-----------------------------------------------------------------------------
(* What is loaded depends on the one file it is loaded from.               *)
SameIn(fs, gs, p) == (p \in DOMAIN fs <=> p \in DOMAIN gs) /\ (p \in DOMAIN fs => fs[p] = gs[p])

LEMMA LoadsTheSame ==
  ASSUME NEW fs, NEW gs, NEW p, SameIn(fs, gs, p), NEW format
  PROVE  LoadConvertFrame(fs, format, p) = LoadConvertFrame(gs, format, p)
<1>1. (p \in DOMAIN fs <=> p \in DOMAIN gs) /\ (p \in DOMAIN fs => fs[p] = gs[p])
  BY DEF SameIn
<1>2. LoadXYUVFile(fs, p) = LoadXYUVFile(gs, p)
  BY <1>1, Zenon DEF LoadXYUVFile
<1>3. ASSUME NEW kind, NEW how
      PROVE  LoadBytes(fs, format, p, kind, how) = LoadBytes(gs, format, p, kind, how)
  <2>1. CASE p \in DOMAIN fs
    <3>1. Content(fs, p, kind) = Content(gs, p, kind)
      BY <1>1, <2>1, Zenon DEF Content
    <3> QED  BY <1>1, <2>1, <3>1, Zenon DEF LoadBytes
  <2>2. CASE p \notin DOMAIN fs
    BY <1>1, <2>2, Zenon DEF LoadBytes
  <2> QED  BY <2>1, <2>2
<1> QED  BY <1>2, <1>3, Zenon DEF LoadConvertFrame

(* Suffixes decide how a file is read.                                     *)
LEMMA ByTheSuffix ==
  ASSUME NEW fs, NEW format, NEW p
  PROVE  /\ p.suffix = "xyuv" => LoadConvertFrame(fs, format, p) = LoadXYUVFile(fs, p)
         /\ p.suffix \in RawSuffixes => LoadConvertFrame(fs, format, p) = LoadBytes(fs, format, p, "bytes", "abort")
         /\ p.suffix \in HexSuffixesOfInputs
              => LoadConvertFrame(fs, format, p) = LoadBytes(fs, format, p, "hex", "error")
         /\ p.suffix \notin RawSuffixes \cup HexSuffixesOfInputs \cup {"xyuv"}
              => LoadConvertFrame(fs, format, p) = Failed("error")
<1>1. "xyuv" \notin RawSuffixes /\ "xyuv" \notin HexSuffixesOfInputs /\ RawSuffixes \cap HexSuffixesOfInputs = {}
  BY DEF RawSuffixes, HexSuffixesOfInputs
<1>2. CASE p.suffix = "xyuv"
  BY <1>1, <1>2, Zenon DEF LoadConvertFrame
<1>3. CASE p.suffix \in RawSuffixes
  <2>1. p.suffix # "xyuv" /\ p.suffix \notin HexSuffixesOfInputs
    BY <1>1, <1>3
  <2>2. LoadConvertFrame(fs, format, p) = LoadBytes(fs, format, p, "bytes", "abort")
    BY <1>3, <2>1, Zenon DEF LoadConvertFrame
  <2> QED  BY <1>3, <2>1, <2>2
<1>4. CASE p.suffix \in HexSuffixesOfInputs
  <2>1. p.suffix # "xyuv" /\ p.suffix \notin RawSuffixes
    BY <1>1, <1>4
  <2>2. LoadConvertFrame(fs, format, p) = LoadBytes(fs, format, p, "hex", "error")
    BY <1>4, <2>1, Zenon DEF LoadConvertFrame
  <2> QED  BY <1>4, <2>1, <2>2
<1>5. CASE p.suffix # "xyuv" /\ p.suffix \notin RawSuffixes /\ p.suffix \notin HexSuffixesOfInputs
  <2>1. LoadConvertFrame(fs, format, p) = Failed("error")
    BY <1>5, Zenon DEF LoadConvertFrame
  <2> QED  BY <1>5, <2>1
<1> QED  BY <1>2, <1>3, <1>4, <1>5

-----------------------------------------------------------------------------
(* Data: the first n bytes of it.                                          *)
LEMMA DataChanged ==
  ASSUME NEW i, NEW b, NEW z, NEW m, NEW y, NEW d, d = [id |-> i, bytes |-> b, zeros |-> z],
         NEW e, e = [d EXCEPT !.bytes = m, !.zeros = y]
  PROVE  e = [id |-> i, bytes |-> m, zeros |-> y]
  OBVIOUS

LEMMA TakeIs ==
  ASSUME NEW i, NEW b, NEW z, NEW d, d = [id |-> i, bytes |-> b, zeros |-> z], NEW n,
         NEW m, m = AtMost(b, n), NEW y, y = n - m
  PROVE  Take(d, n) = [id |-> i, bytes |-> m, zeros |-> y]
<1>1. d.bytes = b
  OBVIOUS
<1>2. Take(d, n) = [d EXCEPT !.bytes = m, !.zeros = y]
  BY <1>1, Zenon DEF Take
<1> QED  BY <1>2, DataChanged, Zenon

LEMMA Taken ==
  ASSUME NEW d, IsData(d), NEW n \in Nat
  PROVE  IsData(Take(d, n)) /\ Take(d, n).bytes + Take(d, n).zeros = n
<1>1. PICK i, b, z : i = d.id /\ b = d.bytes /\ z = d.zeros
  OBVIOUS
<1>2. d = [id |-> i, bytes |-> b, zeros |-> z] /\ b \in Nat /\ z \in Nat
  BY <1>1 DEF IsData
<1>3. PICK m : m = AtMost(b, n)
  OBVIOUS
<1>4. m \in Nat /\ n - m \in Nat /\ m + (n - m) = n
  BY <1>2, <1>3 DEF AtMost
<1>y. PICK y : y = n - m
  OBVIOUS
<1>5. Take(d, n) = [id |-> i, bytes |-> m, zeros |-> y] /\ y \in Nat /\ m + y = n
  BY <1>2, <1>3, <1>4, <1>y, TakeIs
<1> QED  BY <1>4, <1>5 DEF IsData

LEMMA AllTaken ==
  ASSUME NEW d, IsData(d), NEW n \in Nat, d.bytes + d.zeros = n
  PROVE  Take(d, n) = d
<1>1. PICK i, b, z : i = d.id /\ b = d.bytes /\ z = d.zeros
  OBVIOUS
<1>2. d = [id |-> i, bytes |-> b, zeros |-> z] /\ b \in Nat /\ z \in Nat /\ b + z = n
  BY <1>1 DEF IsData
<1>3. AtMost(b, n) = b /\ n - b = z
  BY <1>2 DEF AtMost
<1>4. Take(d, n) = [id |-> i, bytes |-> b, zeros |-> z]
  BY <1>2, <1>3, TakeIs
<1> QED  BY <1>2, <1>4

(* Zeros that were filled up are cut off again.                            *)
LEMMA TakenBack ==
  ASSUME NEW d, IsData(d), NEW n \in Nat, d.bytes + d.zeros = n, NEW m \in Nat, n <= m
  PROVE  Take(Take(d, m), n) = d
<1>1. PICK i, b, z : i = d.id /\ b = d.bytes /\ z = d.zeros
  OBVIOUS
<1>2. d = [id |-> i, bytes |-> b, zeros |-> z] /\ b \in Nat /\ z \in Nat /\ b + z = n
  BY <1>1 DEF IsData
<1>3. AtMost(b, m) = b /\ AtMost(b, n) = b /\ n - b = z
  BY <1>2 DEF AtMost
<1>4. PICK y : y = m - b
  OBVIOUS
<1>5. Take(d, m) = [id |-> i, bytes |-> b, zeros |-> y]
  BY <1>2, <1>3, <1>4, TakeIs
<1>6. PICK e : e = Take(d, m)
  OBVIOUS
<1>7. Take(e, n) = [id |-> i, bytes |-> b, zeros |-> z]
  BY <1>3, <1>5, <1>6, TakeIs
<1> QED  BY <1>2, <1>6, <1>7

LEMMA WholeWordsAreEnough ==
  ASSUME NEW d, IsData(d), NEW n \in Nat, d.bytes + d.zeros = n
  PROVE  IsData(WholeWords(d)) /\ SizeOf(WholeWords(d)) >= n /\ Take(WholeWords(d), n) = d
<1>1. PICK m : m = 4 * ((n + 3) \div 4)
  OBVIOUS
<1>2. m \in Nat /\ n <= m
  BY <1>1
<1>3. WholeWords(d) = Take(d, m)
  BY <1>1 DEF WholeWords, SizeOf
<1>4. IsData(Take(d, m)) /\ Take(d, m).bytes + Take(d, m).zeros = m
  BY <1>2, Taken
<1> QED  BY <1>2, <1>3, <1>4, TakenBack DEF SizeOf

-----------------------------------------------------------------------------
(* Files are what FilesAssumption says of them, and so are loaded frames.  *)
IsSequence(s) == \E E : s \in Seq(E)
FilesFine(fs) == \A p \in DOMAIN fs : IsSequence(fs[p]) /\ \A k \in 1 .. Len(fs[p]) : IsItem(fs[p][k])
LoadsFine(loads) == loads.result = "ok" => IsFrame(loads.frame)

LEMMA XYUVFilesFine ==
  ASSUME NEW fs, FilesFine(fs), NEW p
  PROVE  LoadsFine(LoadXYUVFile(fs, p))
<1>1. LoadsFine(Failed("error")) /\ LoadsFine(Failed("abort"))
  BY DEF LoadsFine, Failed
<1>2. CASE p \notin DOMAIN fs
  <2>1. LoadXYUVFile(fs, p) = Failed("error")
    BY <1>2, Zenon DEF LoadXYUVFile
  <2> QED  BY <1>1, <2>1
<1>3. CASE p \in DOMAIN fs /\ ~ (fs[p] # <<>> /\ Head(fs[p]).kind = "frame")
  <2>1. LoadXYUVFile(fs, p) = Failed("abort")
    BY <1>3, Zenon DEF LoadXYUVFile
  <2> QED  BY <1>1, <2>1
<1>4. CASE p \in DOMAIN fs /\ fs[p] # <<>> /\ Head(fs[p]).kind = "frame"
  <2>1. LoadXYUVFile(fs, p) = Loaded(Head(fs[p]).frame)
    BY <1>4, Zenon DEF LoadXYUVFile
  <2>2. Head(fs[p]) = fs[p][1] /\ 1 \in 1 .. Len(fs[p])
    <3>1. PICK E : fs[p] \in Seq(E)
      BY <1>4 DEF FilesFine, IsSequence
    <3> QED  BY <1>4, <3>1
  <2>3. IsFrame(Head(fs[p]).frame)
    BY <1>4, <2>2 DEF FilesFine, IsItem
  <2> QED  BY <2>1, <2>3 DEF LoadsFine, Loaded
<1> QED  BY <1>2, <1>3, <1>4

LEMMA BytesFine ==
  ASSUME NEW fs, FilesFine(fs), NEW format, IsFormat(format), NEW p, NEW kind \in {"bytes", "hex"}, NEW how,
         how # "ok"
  PROVE  LoadsFine(LoadBytes(fs, format, p, kind, how))
<1>1. LoadsFine(Failed("error")) /\ LoadsFine(Failed(how))
  BY DEF LoadsFine, Failed
<1>2. PICK d : d = Content(fs, p, kind)
  OBVIOUS
<1>3. CASE p \notin DOMAIN fs
  <2>1. LoadBytes(fs, format, p, kind, how) = Failed("error")
    BY <1>3, Zenon DEF LoadBytes
  <2> QED  BY <1>1, <2>1
<1>4. CASE p \in DOMAIN fs /\ ~ (SizeOf(d) >= format.size)
  <2>1. LoadBytes(fs, format, p, kind, how) = Failed(how)
    BY <1>2, <1>4, Zenon DEF LoadBytes
  <2> QED  BY <1>1, <2>1
<1>5. CASE p \in DOMAIN fs /\ SizeOf(d) >= format.size
  <2>1. LoadBytes(fs, format, p, kind, how) = Loaded([format |-> format, data |-> Take(d, format.size)])
    BY <1>2, <1>5, Zenon DEF LoadBytes
  <2>2. IsData(d)
    <3>1. CASE Len(fs[p]) = 1 /\ fs[p][1].kind = kind
      <4>1. d = fs[p][1].data /\ 1 \in 1 .. Len(fs[p])
        BY <1>2, <3>1 DEF Content
      <4> QED  BY <1>5, <3>1, <4>1 DEF FilesFine, IsItem
    <3>2. CASE ~ (Len(fs[p]) = 1 /\ fs[p][1].kind = kind)
      <4>1. d = [id |-> <<>>, bytes |-> 0, zeros |-> 0]
        BY <1>2, <3>2, Zenon DEF Content
      <4> QED  BY <4>1 DEF IsData
    <3> QED  BY <3>1, <3>2
  <2>3. PICK n, e : n = format.size /\ e = Take(d, format.size)
    OBVIOUS
  <2>4. n \in Nat
    BY <2>3 DEF IsFormat
  <2>5. IsData(e) /\ e.bytes + e.zeros = n
    BY <2>2, <2>3, <2>4, Taken
  <2>6. PICK frm : frm = [format |-> format, data |-> e]
    OBVIOUS
  <2>7. frm.format = format /\ frm.data = e /\ frm = [format |-> frm.format, data |-> frm.data]
    BY <2>6
  <2>8. IsFrame(frm)
    BY <2>3, <2>5, <2>7 DEF IsFrame
  <2> QED  BY <2>1, <2>3, <2>6, <2>8 DEF LoadsFine, Loaded
<1> QED  BY <1>3, <1>4, <1>5

LEMMA ConvertFine ==
  ASSUME NEW fs, FilesFine(fs), NEW format, IsFormat(format), NEW p
  PROVE  LoadsFine(LoadConvertFrame(fs, format, p))
<1>1. LoadsFine(Failed("error"))
  BY DEF LoadsFine, Failed
<1>2. "abort" # "ok" /\ "error" # "ok"
  OBVIOUS
<1>3. CASE p.suffix = "xyuv"
  BY <1>3, ByTheSuffix, XYUVFilesFine
<1>4. CASE p.suffix \in RawSuffixes
  BY <1>2, <1>4, ByTheSuffix, BytesFine
<1>5. CASE p.suffix \in HexSuffixesOfInputs
  BY <1>2, <1>5, ByTheSuffix, BytesFine
<1>6. CASE p.suffix \notin RawSuffixes \cup HexSuffixesOfInputs \cup {"xyuv"}
  BY <1>1, <1>6, ByTheSuffix
<1> QED  BY <1>3, <1>4, <1>5, <1>6

LEMMA FlippedFine ==
  ASSUME NEW flip, NEW frm, IsFrame(frm)
  PROVE  IsFrame(FlippedIf(flip, frm))
<1>1. PICK f, d : f = frm.format /\ d = frm.data
  OBVIOUS
<1>2. frm = [format |-> f, data |-> d] /\ IsFormat(f) /\ IsData(d) /\ d.bytes + d.zeros = f.size
  BY <1>1 DEF IsFrame
<1>3. CASE ~ flip
  BY <1>3 DEF FlippedIf
<1>4. CASE flip
  <2>1. PICK o, g, new : /\ o = (IF f.origin = "upper_left" THEN "lower_left" ELSE "upper_left")
                         /\ g = [f EXCEPT !.origin = o] /\ new = [format |-> g, data |-> d]
    OBVIOUS
  <2>2. FlippedIf(flip, frm) = [frm EXCEPT !.format.origin = o]
    BY <1>1, <1>4, <2>1, Zenon DEF FlippedIf
  <2>3. [frm EXCEPT !.format.origin = o] = new
    BY <1>2, <2>1
  <2>4. IsFormat(g) /\ g.size = f.size
    BY <1>2, <2>1 DEF IsFormat
  <2>5. new.format = g /\ new.data = d /\ new = [format |-> new.format, data |-> new.data]
    BY <2>1
  <2>6. IsFrame(new)
    BY <1>2, <2>4, <2>5 DEF IsFrame
  <2> QED  BY <2>2, <2>3, <2>6
<1> QED  BY <1>3, <1>4

-----------------------------------------------------------------------------
(* What is written is fine, too.                                           *)
ContentFine(c) == IsSequence(c) /\ \A k \in 1 .. Len(c) : IsItem(c[k])

LEMMA SequenceFacts ==
  ASSUME NEW s, IsSequence(s)
  PROVE  /\ Len(s) \in Nat /\ DOMAIN s = 1 .. Len(s)
         /\ \A e : /\ IsSequence(Append(s, e)) /\ Len(Append(s, e)) = Len(s) + 1
                   /\ Append(s, e)[Len(s) + 1] = e
                   /\ \A k \in 1 .. Len(s) : Append(s, e)[k] = s[k]
         /\ \A n \in 0 .. Len(s) : /\ IsSequence(SubSeq(s, 1, n)) /\ Len(SubSeq(s, 1, n)) = n
                                   /\ \A k \in 1 .. n : SubSeq(s, 1, n)[k] = s[k]
<1>1. PICK E : s \in Seq(E)
  BY DEF IsSequence
<1>2. Len(s) \in Nat /\ DOMAIN s = 1 .. Len(s)
  BY <1>1
<1>3. ASSUME NEW e
      PROVE  /\ IsSequence(Append(s, e)) /\ Len(Append(s, e)) = Len(s) + 1
             /\ Append(s, e)[Len(s) + 1] = e
             /\ \A k \in 1 .. Len(s) : Append(s, e)[k] = s[k]
  <2>1. s \in Seq(E \cup {e}) /\ e \in E \cup {e}
    BY <1>1
  <2>2. Append(s, e) \in Seq(E \cup {e})
    BY <2>1
  <2> QED  BY <2>1, <2>2 DEF IsSequence
<1>4. ASSUME NEW n \in 0 .. Len(s)
      PROVE  /\ IsSequence(SubSeq(s, 1, n)) /\ Len(SubSeq(s, 1, n)) = n
             /\ \A k \in 1 .. n : SubSeq(s, 1, n)[k] = s[k]
  <2>1. SubSeq(s, 1, n) \in Seq(E)
    BY <1>1
  <2> QED  BY <1>1, <2>1 DEF IsSequence
<1> QED  BY <1>2, <1>3, <1>4

LEMMA OneItem ==
  ASSUME NEW e
  PROVE  IsSequence(<<e>>) /\ Len(<<e>>) = 1 /\ <<e>>[1] = e
<1>1. <<e>> \in Seq({e})
  OBVIOUS
<1> QED  BY <1>1 DEF IsSequence

LEMMA EmptyFine == ContentFine(<<>>)
<1>1. <<>> \in Seq({}) /\ Len(<<>>) = 0
  OBVIOUS
<1> QED  BY <1>1 DEF ContentFine, IsSequence

LEMMA OneFine ==
  ASSUME NEW e, IsItem(e)
  PROVE  ContentFine(<<e>>)
<1>1. PICK c : c = <<e>>
  OBVIOUS
<1>2. IsSequence(c) /\ Len(c) = 1 /\ c[1] = e
  BY <1>1, OneItem
<1>3. \A k \in 1 .. 1 : k = 1
  OBVIOUS
<1> QED  BY <1>1, <1>2, <1>3 DEF ContentFine

LEMMA AppendFine ==
  ASSUME NEW c, ContentFine(c), NEW e, IsItem(e)
  PROVE  ContentFine(Append(c, e))
<1>1. PICK d, n : d = Append(c, e) /\ n = Len(c)
  OBVIOUS
<1>2. IsSequence(c) /\ \A k \in 1 .. n : IsItem(c[k])
  BY <1>1 DEF ContentFine
<1>3. /\ n \in Nat /\ IsSequence(d) /\ Len(d) = n + 1 /\ d[n + 1] = e
      /\ \A k \in 1 .. n : d[k] = c[k]
  BY <1>1, <1>2, SequenceFacts
<1>4. ASSUME NEW k \in 1 .. n + 1
      PROVE  IsItem(d[k])
  <2>1. CASE k = n + 1
    BY <1>3, <2>1
  <2>2. CASE k # n + 1
    <3>1. k \in 1 .. n
      BY <1>3, <2>2
    <3> QED  BY <1>2, <1>3, <3>1
  <2> QED  BY <2>1, <2>2
<1> QED  BY <1>1, <1>3, <1>4 DEF ContentFine

LEMMA StartFine ==
  ASSUME NEW c, ContentFine(c), NEW n \in 0 .. Len(c)
  PROVE  ContentFine(SubSeq(c, 1, n))
<1>1. PICK d : d = SubSeq(c, 1, n)
  OBVIOUS
<1>2. IsSequence(c) /\ \A k \in 1 .. Len(c) : IsItem(c[k])
  BY DEF ContentFine
<1>3. IsSequence(d) /\ Len(d) = n /\ Len(c) \in Nat /\ \A k \in 1 .. n : d[k] = c[k]
  BY <1>1, <1>2, SequenceFacts
<1>4. \A k \in 1 .. n : k \in 1 .. Len(c)
  BY <1>3
<1> QED  BY <1>1, <1>2, <1>3, <1>4 DEF ContentFine

LEMMA BrokenFine == IsItem(Broken)
  BY DEF IsItem, Broken

LEMMA InFileNatural ==
  ASSUME NEW p, FilesFine(before)
  PROVE  InFileAtLeast(p) \in Nat
<1>1. CASE p \in DOMAIN before
  <2>1. IsSequence(before[p])
    BY <1>1 DEF FilesFine
  <2> QED  BY <1>1, <2>1, SequenceFacts DEF InFileAtLeast
<1>2. CASE p \notin DOMAIN before
  BY <1>2 DEF InFileAtLeast
<1> QED  BY <1>1, <1>2

LEMMA PartsFine ==
  ASSUME NEW p, FilesFine(before), NEW c, ContentFine(c), NEW part \in PartsOf(p, c)
  PROVE  ContentFine(part)
<1>1. PICK a, n : a = InFileAtLeast(p) /\ n = Len(c)
  OBVIOUS
<1>2. a \in Nat /\ n \in Nat
  <2>1. IsSequence(c)
    BY DEF ContentFine
  <2> QED  BY <1>1, <2>1, InFileNatural, SequenceFacts
<1>3. \/ \E k \in a .. n : part = SubSeq(c, 1, k)
      \/ \E k \in a .. n - 1 : part = Append(SubSeq(c, 1, k), Broken)
  BY <1>1 DEF PartsOf
<1>4. CASE \E k \in a .. n : part = SubSeq(c, 1, k)
  <2>1. PICK k \in a .. n : part = SubSeq(c, 1, k)
    BY <1>4
  <2>2. k \in 0 .. Len(c)
    BY <1>1, <1>2
  <2> QED  BY <2>1, <2>2, StartFine
<1>5. CASE \E k \in a .. n - 1 : part = Append(SubSeq(c, 1, k), Broken)
  <2>1. PICK k \in a .. n - 1 : part = Append(SubSeq(c, 1, k), Broken)
    BY <1>5
  <2>2. k \in 0 .. Len(c)
    BY <1>1, <1>2
  <2>3. ContentFine(SubSeq(c, 1, k))
    BY <2>2, StartFine
  <2> QED  BY <2>1, <2>3, AppendFine, BrokenFine
<1> QED  BY <1>3, <1>4, <1>5

(* A frame without its siting is a frame.                                  *)
LEMMA StreamFine ==
  ASSUME NEW frm, IsFrame(frm)
  PROVE  /\ InStream(frm) = [kind |-> "frame", frame |-> SitingLost(frm)]
         /\ IsFrame(SitingLost(frm)) /\ IsItem(InStream(frm))
<1>1. PICK f, d : f = frm.format /\ d = frm.data /\ frm = [format |-> f, data |-> d] /\ IsFormat(f) /\ IsData(d)
                  /\ d.bytes + d.zeros = f.size
  BY DEF IsFrame
<1>2. PICK st, g : st = [u |-> f.siting.v, v |-> Unset] /\ g = [f EXCEPT !.siting = st]
  OBVIOUS
<1>3. /\ f = [template |-> f.template, siting |-> f.siting, matrix |-> f.matrix, w |-> f.w, h |-> f.h,
              origin |-> f.origin, size |-> f.size]
      /\ f.w \in Nat /\ f.h \in Nat /\ f.size \in Nat
  BY <1>1 DEF IsFormat
<1>4. g = [template |-> f.template, siting |-> st, matrix |-> f.matrix, w |-> f.w, h |-> f.h,
              origin |-> f.origin, size |-> f.size]
  BY <1>2, <1>3
<1>5. IsFormat(g) /\ g.size = f.size
  BY <1>2, <1>3, <1>4 DEF IsFormat
<1>6. SitingLost(frm) = [format |-> g, data |-> d]
  BY <1>1, <1>2 DEF SitingLost
<1>7. IsFrame(SitingLost(frm))
  BY <1>1, <1>5, <1>6 DEF IsFrame
<1> QED  BY <1>7 DEF InStream, IsItem

LEMMA WrittenFine ==
  ASSUME NEW frm, IsFrame(frm), NEW p, CanWrite(p)
  PROVE  IsItem(Written(frm, p))
<1>1. "xyuv" \notin RawSuffixes /\ "hex" \notin RawSuffixes /\ "xyuv" # "hex"
  BY DEF RawSuffixes
<1>2. IsData(frm.data)
  BY DEF IsFrame
<1>3. CASE p.suffix = "xyuv"
  <2>1. Written(frm, p) = InStream(frm)
    BY <1>1, <1>3, Zenon DEF Written
  <2> QED  BY <2>1, StreamFine
<1>4. CASE p.suffix = "hex"
  <2>1. Written(frm, p) = [kind |-> "hex", data |-> WholeWords(frm.data)]
    BY <1>1, <1>4, Zenon DEF Written
  <2>2. PICK n : n = frm.data.bytes + frm.data.zeros
    OBVIOUS
  <2>3. n \in Nat
    BY <1>2, <2>2 DEF IsData
  <2>4. IsData(WholeWords(frm.data))
    BY <1>2, <2>2, <2>3, WholeWordsAreEnough
  <2> QED  BY <2>1, <2>4 DEF IsItem
<1>5. CASE p.suffix \in RawSuffixes
  <2>1. p.suffix # "xyuv" /\ p.suffix # "hex"
    BY <1>1, <1>5
  <2>2. Written(frm, p) = [kind |-> "bytes", data |-> frm.data]
    BY <1>5, <2>1, Zenon DEF Written
  <2> QED  BY <1>2, <2>2 DEF IsItem
<1> QED  BY <1>3, <1>4, <1>5 DEF CanWrite

LEMMA FinePut ==
  ASSUME FilesFine(files), NEW p, NEW c, ContentFine(c)
  PROVE  FilesFine(Put(p, c))
  BY DEF FilesFine, ContentFine, Put

LEMMA FineMeta ==
  ASSUME FilesFine(files), NEW p
  PROVE  FilesFine(WithMeta(p))
<1>1. IsItem([kind |-> "json", frame |-> frame.frame])
  BY DEF IsItem
<1>2. ContentFine(<<[kind |-> "json", frame |-> frame.frame]>>)
  BY <1>1, OneFine
<1> QED  BY <1>2, FinePut DEF WithMeta

LEMMA FineWritten ==
  ASSUME NEW old, FilesFine(old), NEW p, CanWrite(p), IsFrame(frame.frame)
  PROVE  FilesFine(WriteFrame(p, old)) /\ FilesFine(BreakFrame(p, old))
<1>1. ContentFine(<<Written(frame.frame, p)>>)
  BY WrittenFine, OneFine
<1>2. ContentFine(<<Broken>>)
  BY BrokenFine, OneFine
<1> QED  BY <1>1, <1>2 DEF FilesFine, ContentFine, WriteFrame, BreakFrame

-----------------------------------------------------------------------------
(* What holds of the program whatever its files are: what CheckArguments   *)
(* has found out, and what there is to be written.                         *)
Ready == command.prog = "header" => ~ BadFormats /\ command.inputs # <<>>
InPlace ==
  /\ pc \in {"arguments", "open"} => file = 1 /\ result = "none" /\ good
  /\ pc \in {"load", "write"} => result = "none"
  /\ pc \in {"open", "load", "write"} => Ready
  /\ pc \in {"load", "write"} /\ command.prog = "header" => file \in 1 .. Len(command.inputs)
  /\ pc \in {"load", "write"} /\ Appending => OutputNames[1] \in DOMAIN files
FineInv ==
  /\ FilesFine(files) /\ FilesFine(before)
  /\ InPlace
  /\ pc = "write" => frame = Loaded(frame.frame) /\ IsFrame(frame.frame)

LEMMA FormatFine ==
  ASSUME NEW t \in DOMAIN TemplateStore, NEW name, NEW m, NEW w \in Nat, NEW h \in Nat
  PROVE  IsFormat(FormatOf(t, name, m, w, h))
<1>1. PICK d : d = TemplateStore[t].depth
  OBVIOUS
<1>2. d \in Nat
  BY <1>1, FilesAssumption
<1>3. PICK n : n = d * w * h
  OBVIOUS
<1>4. n \in Nat
  BY <1>2, <1>3
<1>5. PICK f, o, st : /\ o = TemplateStore[t].origin /\ st = PointsOf(name)
                  /\ f = [template |-> t, siting |-> st, matrix |-> m, w |-> w, h |-> h, origin |-> o, size |-> n]
  OBVIOUS
<1>6. FormatOf(t, name, m, w, h) = f
  BY <1>1, <1>3, <1>5, Zenon DEF FormatOf
<1>7. /\ f = [template |-> f.template, siting |-> f.siting, matrix |-> f.matrix, w |-> f.w, h |-> f.h,
              origin |-> f.origin, size |-> f.size]
      /\ f.siting = [u |-> f.siting.u, v |-> f.siting.v]
      /\ f.w \in Nat /\ f.h \in Nat /\ f.size \in Nat
  <2>1. f.siting = [u |-> <<name, "u">>, v |-> <<name, "v">>]
    BY <1>5 DEF PointsOf
  <2> QED  BY <1>4, <1>5, <2>1
<1> QED  BY <1>6, <1>7 DEF IsFormat

LEMMA KnownTemplate ==
  ASSUME command \in Commands, command.prog = "header", Ready, NEW k \in 1 .. Len(command.inputs)
  PROVE  Pick(command.templates, k) \in DOMAIN TemplateStore
<1>1. /\ \A j \in DOMAIN command.templates : command.templates[j] \in DOMAIN TemplateStore
      /\ Len(command.templates) \in {1, Len(command.inputs)}
  BY DEF Ready, BadFormats, OneOrEach
<1>2. PICK E : command.templates \in Seq(E)
  BY FilesAssumption
<1>3. DOMAIN command.templates = 1 .. Len(command.templates)
  BY <1>2
<1> QED  BY <1>1, <1>3 DEF Pick

LEMMA HeaderLoadsFine ==
  ASSUME command \in Commands, command.prog = "header", Ready, NEW k \in 1 .. Len(command.inputs),
         NEW fs, FilesFine(fs)
  PROVE  LoadsFine(HeaderLoads(fs, k))
<1>1. PICK t, st, m, w, h, p : /\ t = Pick(command.templates, k) /\ st = Pick(command.sitings, k)
                               /\ m = Pick(command.matrices, k) /\ w = command.w /\ h = command.h
                               /\ p = command.inputs[k]
  OBVIOUS
<1>2. t \in DOMAIN TemplateStore /\ w \in Nat /\ h \in Nat
  BY <1>1, KnownTemplate, FilesAssumption
<1>3. HeaderLoads(fs, k) = IF ~ Accepted(t, st) THEN Failed("error")
                           ELSE LoadConvertFrame(fs, FormatOf(t, st, m, w, h), p)
  BY <1>1, Zenon DEF HeaderLoads
<1>4. LoadsFine(Failed("error"))
  BY DEF LoadsFine, Failed
<1>5. LoadsFine(LoadConvertFrame(fs, FormatOf(t, st, m, w, h), p))
  BY <1>2, FormatFine, ConvertFine
<1> QED  BY <1>3, <1>4, <1>5

LEMMA ConvertedFine ==
  ASSUME NEW frm, NEW format, IsFormat(format)
  PROVE  IsFrame(ConvertFrame(frm, format))
<1>1. PICK i, n : i = Append(frm.data.id, <<frm.format, format>>) /\ n = format.size
  OBVIOUS
<1>2. PICK d, new : d = [id |-> i, bytes |-> n, zeros |-> 0] /\ new = [format |-> format, data |-> d]
  OBVIOUS
<1>3. ConvertFrame(frm, format) = new
  BY <1>1, <1>2, Zenon DEF ConvertFrame
<1>4. n \in Nat
  BY <1>1 DEF IsFormat
<1>5. d.id = i /\ d.bytes = n /\ d.zeros = 0
  BY <1>2
<1>6. IsData(d) /\ d.bytes + d.zeros = n
  BY <1>2, <1>4, <1>5 DEF IsData
<1>7. new.format = format /\ new.data = d /\ new = [format |-> new.format, data |-> new.data]
  BY <1>2
<1> QED  BY <1>1, <1>3, <1>6, <1>7 DEF IsFrame

LEMMA EncodeLoadsFine ==
  ASSUME FilesFine(files)
  PROVE  LoadsFine(EncodeLoads)
<1>1. PICK old : old = LoadXYUVFile(files, In)
  OBVIOUS
<1>2. LoadsFine(old) /\ LoadsFine(Failed("error"))
  BY <1>1, XYUVFilesFine DEF LoadsFine, Failed
<1>3. CASE ~ Found \/ In.suffix # "xyuv"
  <2>1. EncodeLoads = Failed("error")
    BY <1>3, Zenon DEF EncodeLoads
  <2> QED  BY <1>2, <2>1
<1>4. CASE Found /\ In.suffix = "xyuv" /\ old.result # "ok"
  <2>1. EncodeLoads = old
    BY <1>1, <1>4, Zenon DEF EncodeLoads
  <2> QED  BY <1>2, <2>1
<1>5. CASE Found /\ In.suffix = "xyuv" /\ old.result = "ok"
  <2>1. PICK f : f = FormatOf(T, S, command.matrices[1], old.frame.format.w, old.frame.format.h)
    OBVIOUS
  <2>2. EncodeLoads = IF ~ Accepted(T, S) THEN Failed("error") ELSE Loaded(ConvertFrame(old.frame, f))
    BY <1>1, <1>5, <2>1, Zenon DEF EncodeLoads
  <2>3. PICK w, h : w = old.frame.format.w /\ h = old.frame.format.h
    OBVIOUS
  <2>4. w \in Nat /\ h \in Nat
    BY <1>2, <1>5, <2>3 DEF LoadsFine, IsFrame, IsFormat
  <2>5. T \in DOMAIN TemplateStore
    BY <1>5 DEF Found
  <2>6. IsFormat(f)
    BY <2>1, <2>3, <2>4, <2>5, FormatFine
  <2>7. IsFrame(ConvertFrame(old.frame, f))
    BY <2>6, ConvertedFine
  <2>8. LoadsFine(Loaded(ConvertFrame(old.frame, f)))
    BY <2>7 DEF LoadsFine, Loaded
  <2> QED  BY <1>2, <2>2, <2>8
<1> QED  BY <1>3, <1>4, <1>5

LEMMA DecodeLoadsFine ==
  ASSUME command \in Commands, FilesFine(files)
  PROVE  LoadsFine(DecodeLoads)
<1>1. LoadsFine(Failed("error")) /\ LoadsFine(LoadXYUVFile(files, In))
  BY XYUVFilesFine DEF LoadsFine, Failed
<1>2. CASE (In.suffix = "xyuv" /\ Given) \/ (In.suffix # "xyuv" /\ ~ AllGiven)
  <2>1. DecodeLoads = Failed("error")
    BY <1>2, Zenon DEF DecodeLoads
  <2> QED  BY <1>1, <2>1
<1>3. CASE In.suffix = "xyuv" /\ ~ Given
  <2>1. DecodeLoads = LoadXYUVFile(files, In)
    BY <1>3, Zenon DEF DecodeLoads
  <2> QED  BY <1>1, <2>1
<1>4. CASE In.suffix # "xyuv" /\ AllGiven
  <2>1. PICK f : f = FormatOf(T, S, command.matrices[1], command.w, command.h)
    OBVIOUS
  <2>2. DecodeLoads = IF ~ Found \/ ~ Accepted(T, S) THEN Failed("error") ELSE LoadConvertFrame(files, f, In)
    BY <1>4, <2>1, Zenon DEF DecodeLoads
  <2>3. Found => IsFormat(f)
    <3>1. PICK w, h : w = command.w /\ h = command.h
      OBVIOUS
    <3>2. w \in Nat /\ h \in Nat
      BY <3>1, FilesAssumption
    <3>3. Found => T \in DOMAIN TemplateStore
      BY DEF Found
    <3>4. Found => IsFormat(FormatOf(T, S, command.matrices[1], w, h))
      BY <3>2, <3>3, FormatFine
    <3> QED  BY <2>1, <3>1, <3>4
  <2>4. Found => LoadsFine(LoadConvertFrame(files, f, In))
    BY <2>3, ConvertFine
  <2> QED  BY <1>1, <2>2, <2>4
<1> QED  BY <1>2, <1>3, <1>4

-----------------------------------------------------------------------------
(* Every step keeps it so.                                                 *)
LEMMA ReadyStays ==
  ASSUME UNCHANGED command
  PROVE  Ready' = Ready /\ Appending' = Appending /\ OutputNames' = OutputNames
  BY DEF Ready, BadFormats, OneOrEach, Appending, OutputNames

LEMMA PlaceKept ==
  ASSUME InPlace, pc \in {"load", "write"}, pc' \in {"load", "write"}, UNCHANGED <<command, result>>,
         \A p \in DOMAIN files : p \in DOMAIN files',
         command.prog = "header" => file' \in 1 .. Len(command.inputs)
  PROVE  InPlace'
  BY ReadyStays DEF InPlace

LEMMA PlaceAtTheEnd == pc' = "ended" => InPlace'
  BY DEF InPlace

LEMMA NextPlace ==
  ASSUME InPlace, pc = "write", NextInput, command \in Commands, UNCHANGED command,
         \A p \in DOMAIN files : p \in DOMAIN files'
  PROVE  InPlace'
<1>1. CASE MoreInputs
  <2>1. pc' = "load" /\ UNCHANGED result /\ file' = file + 1
    BY <1>1 DEF NextInput
  <2>2. command.prog = "header" => file' \in 1 .. Len(command.inputs)
    <3>1. SUFFICES ASSUME command.prog = "header"  PROVE file' \in 1 .. Len(command.inputs)
      OBVIOUS
    <3>2. file \in 1 .. Len(command.inputs) /\ file < Len(command.inputs)
      BY <1>1, <3>1 DEF MoreInputs, InPlace
    <3>3. command.inputs \in Seq(ToSet(command.inputs))
      BY ToolsAssumption
    <3>4. Len(command.inputs) \in Nat
      BY <3>3
    <3> QED  BY <2>1, <3>2, <3>4
  <2> QED  BY <2>1, <2>2, PlaceKept
<1>2. CASE ~ MoreInputs
  BY <1>2, PlaceAtTheEnd DEF NextInput, End
<1> QED  BY <1>1, <1>2

LEMMA LoadKeepsFine ==
  ASSUME command \in Commands, FineInv, NEW loads, Load(loads), LoadsFine(loads)
  PROVE  FineInv'
<1>1. pc = "load" /\ UNCHANGED <<command, file, good, before>>
  BY DEF Load
<1>2. InPlace /\ FilesFine(files) /\ FilesFine(before)
  BY DEF FineInv
<1>3. CASE loads.result = "ok"
  <2>1. pc' = "write" /\ UNCHANGED <<result, files>> /\ frame' = Loaded(FlippedIf(command.flip, loads.frame))
    BY <1>3 DEF Load
  <2>2. IsFrame(FlippedIf(command.flip, loads.frame))
    BY <1>3, FlippedFine DEF LoadsFine
  <2>3. frame' = Loaded(frame'.frame) /\ IsFrame(frame'.frame)
    BY <2>1, <2>2 DEF Loaded
  <2>4. InPlace'
    BY <1>1, <1>2, <2>1, PlaceKept DEF InPlace
  <2> QED  BY <1>1, <1>2, <2>1, <2>3, <2>4 DEF FineInv
<1>4. CASE loads.result # "ok"
  <2>1. pc' = "ended"
    BY <1>4 DEF Load, End
  <2>2. FilesFine(files')
    <3>1. CASE files' = files
      BY <1>2, <3>1
    <3>2. CASE Appending /\ \E part \in PartsOf(OutputNames[1], files[OutputNames[1]]) :
                              files' = Put(OutputNames[1], part)
      <4>1. PICK part \in PartsOf(OutputNames[1], files[OutputNames[1]]) : files' = Put(OutputNames[1], part)
        BY <3>2
      <4>2. OutputNames[1] \in DOMAIN files
        BY <1>1, <1>2, <3>2 DEF InPlace
      <4>3. ContentFine(files[OutputNames[1]])
        BY <1>2, <4>2 DEF FilesFine, ContentFine
      <4> QED  BY <1>2, <4>1, <4>3, PartsFine, FinePut
    <3> QED  BY <1>4, <3>1, <3>2 DEF Load
  <2> QED  BY <1>1, <1>2, <2>1, <2>2, PlaceAtTheEnd DEF FineInv
<1> QED  BY <1>3, <1>4

(* After a write there is something to load or the end.                    *)
LEMMA WriteKeepsFine ==
  ASSUME command \in Commands, FineInv, pc = "write", UNCHANGED <<command, before>>,
         NextInput \/ \E how : End(how), FilesFine(files'), \A p \in DOMAIN files : p \in DOMAIN files'
  PROVE  FineInv'
<1>1. pc' \in {"load", "ended"}
  BY NextOrEnd
<1>2. InPlace'
  BY NextPlace, PlaceAtTheEnd DEF FineInv, End
<1> QED  BY <1>1, <1>2 DEF FineInv

LEMMA InPut ==
  ASSUME NEW q, NEW c
  PROVE  \A p \in DOMAIN files : p \in DOMAIN Put(q, c)
  BY DEF Put

LEMMA AppendKeepsFine ==
  ASSUME command \in Commands, FineInv, AppendFrame
  PROVE  FineInv'
<1>1. /\ pc = "write" /\ Appending /\ UNCHANGED <<command, before>>
      /\ NextInput \/ \E how : End(how)
  BY DEF AppendFrame
<1>2. PICK out, item, all : out = OutputNames[1] /\ item = InStream(frame.frame)
                            /\ all = Append(files[out], item)
  OBVIOUS
<1>3. /\ files' = files \/ files' = Put(out, all) \/ \E part \in PartsOf(out, all) : files' = Put(out, part)
  BY <1>2 DEF AppendFrame
<1>4. ContentFine(all)
  <2>1. IsItem(item)
    BY <1>1, <1>2, StreamFine DEF FineInv
  <2>2. out \in DOMAIN files
    BY <1>1, <1>2 DEF FineInv, InPlace
  <2>3. ContentFine(files[out])
    BY <2>2 DEF FineInv, FilesFine, ContentFine
  <2> QED  BY <1>2, <2>1, <2>3, AppendFine
<1>5. FilesFine(files) /\ FilesFine(before)
  BY DEF FineInv
<1>6. FilesFine(files') /\ \A p \in DOMAIN files : p \in DOMAIN files'
  BY <1>3, <1>4, <1>5, PartsFine, FinePut, InPut
<1> QED  BY <1>1, <1>6, WriteKeepsFine

LEMMA InWritten ==
  ASSUME NEW q
  PROVE  /\ \A p \in DOMAIN files : p \in DOMAIN WithMeta(q)
         /\ \A old : DOMAIN WriteFrame(q, old) = DOMAIN old \cup {q}
         /\ \A old : DOMAIN BreakFrame(q, old) = DOMAIN old \cup {q}
  BY InPut DEF WithMeta, WriteFrame, BreakFrame

LEMMA OutputKeepsFine ==
  ASSUME command \in Commands, FineInv, WriteOutput
  PROVE  FineInv'
<1>1. /\ pc = "write" /\ UNCHANGED <<command, before>>
      /\ NextInput \/ \E how : End(how)
  BY DEF WriteOutput
<1>2. PICK out, old : out = OutputNames[file] /\ old = WithMeta(out)
  OBVIOUS
<1>3. \/ files' = files \/ files' = old
      \/ CanWrite(out) /\ (files' = WriteFrame(out, old) \/ files' = BreakFrame(out, old))
  BY <1>2 DEF WriteOutput
<1>4. FilesFine(files) /\ IsFrame(frame.frame) /\ FilesFine(old)
  BY <1>1, <1>2, FineMeta DEF FineInv
<1>5. FilesFine(files')
  BY <1>3, <1>4, FineWritten
<1>6. \A p \in DOMAIN files : p \in DOMAIN files'
  <2>1. \A p \in DOMAIN files : p \in DOMAIN old
    BY <1>2, InWritten
  <2>2. DOMAIN files' \in {DOMAIN files, DOMAIN old, DOMAIN old \cup {out}}
    BY <1>3, InWritten
  <2> QED  BY <2>1, <2>2
<1> QED  BY <1>1, <1>5, <1>6, WriteKeepsFine

LEMMA WriteOneKeepsFine ==
  ASSUME FineInv, WriteOne
  PROVE  FineInv'
<1>1. pc = "write" /\ UNCHANGED <<command, before>> /\ pc' = "ended"
  BY DEF WriteOne, End
<1>2. PICK out, old : out = Out /\ old = WithMeta(out)
  OBVIOUS
<1>3. \/ files' = files
      \/ CanWrite(out) /\ \/ files' = WriteFrame(out, old) \/ files' = BreakFrame(out, old)
                          \/ files' = WriteFrame(out, files) \/ files' = BreakFrame(out, files)
  BY <1>2 DEF WriteOne
<1>4. FilesFine(files) /\ IsFrame(frame.frame) /\ FilesFine(old)
  BY <1>1, <1>2, FineMeta DEF FineInv
<1>5. FilesFine(files')
  BY <1>3, <1>4, FineWritten
<1> QED  BY <1>1, <1>5, PlaceAtTheEnd DEF FineInv

LEMMA SuppressKeepsFine ==
  ASSUME command \in Commands, FineInv, SuppressWriteout
  PROVE  FineInv'
<1>1. pc = "write" /\ UNCHANGED <<files, command, before>> /\ NextInput
  BY DEF SuppressWriteout
<1> QED  BY <1>1, WriteKeepsFine DEF FineInv

LEMMA StartKeepsFine ==
  ASSUME FineInv, StartCommand
  PROVE  FineInv'
<1>1. /\ command' \in Commands /\ UNCHANGED files /\ before' = files /\ file' = 1 /\ good' /\ result' = "none"
      /\ pc' = IF command'.prog = "header" THEN "arguments" ELSE "load"
  BY DEF StartCommand
<1>2. FilesFine(files') /\ FilesFine(before')
  BY <1>1 DEF FineInv
<1>3. InPlace'
  <2>1. CASE command'.prog = "header"
    <3>1. pc' = "arguments"
      BY <1>1, <2>1
    <3> QED  BY <1>1, <3>1 DEF InPlace
  <2>2. CASE command'.prog # "header"
    <3>1. pc' = "load" /\ Ready' /\ ~ Appending'
      BY <1>1, <2>2 DEF Ready, Appending
    <3> QED  BY <1>1, <2>2, <3>1 DEF InPlace
  <2> QED  BY <2>1, <2>2
<1> QED  BY <1>1, <1>2, <1>3 DEF FineInv

LEMMA CheckKeepsFine ==
  ASSUME command \in Commands, FineInv, CheckArguments
  PROVE  FineInv'
<1>1. pc = "arguments" /\ UNCHANGED <<files, command, file, good, before>>
  BY DEF CheckArguments
<1>2. FilesFine(files') /\ FilesFine(before')
  BY <1>1 DEF FineInv
<1>3. CASE pc' = "ended"
  BY <1>2, <1>3, PlaceAtTheEnd DEF FineInv
<1>4. CASE pc' # "ended"
  <2>1. /\ ~ BadFormats /\ ~ BadInputs /\ UNCHANGED result
        /\ pc' = IF Concatenates THEN "open" ELSE "load"
    BY <1>4 DEF CheckArguments, End
  <2>2. Ready /\ file = 1 /\ result = "none" /\ good
    BY <1>1, <2>1 DEF Ready, BadInputs, FineInv, InPlace
  <2>3. 1 \in 1 .. Len(command.inputs)
    <3>1. command.inputs \in Seq(ToSet(command.inputs)) /\ command.inputs # <<>>
      BY <2>1, ToolsAssumption DEF BadInputs
    <3>2. Len(command.inputs) \in Nat \ {0}
      BY <3>1
    <3> QED  BY <3>2
  <2>4. Appending => Concatenates
    BY DEF Appending, Concatenates
  <2>5. InPlace'
    BY <1>1, <2>1, <2>2, <2>3, <2>4, ReadyStays DEF InPlace
  <2> QED  BY <1>2, <2>1, <2>5 DEF FineInv
<1> QED  BY <1>3, <1>4

LEMMA OpenKeepsFine ==
  ASSUME command \in Commands, FineInv, ScopeInv, OpenOutput
  PROVE  FineInv'
<1>1. pc = "open" /\ UNCHANGED <<command, file, good, before>>
  BY DEF OpenOutput
<1>2. FilesFine(files) /\ FilesFine(before) /\ Ready /\ file = 1 /\ result = "none" /\ good
      /\ command.prog = "header"
  BY <1>1 DEF FineInv, InPlace, ScopeInv
<1>3. CASE pc' = "ended"
  <2>1. files' = files
    BY <1>3 DEF OpenOutput
  <2> QED  BY <1>1, <1>2, <1>3, <2>1, PlaceAtTheEnd DEF FineInv
<1>4. CASE pc' # "ended"
  <2>1. files' = OpenForAppending(OutputNames[1]) /\ pc' = "load" /\ UNCHANGED result
    BY <1>4 DEF OpenOutput, End
  <2>2. FilesFine(files')
    BY <1>2, <2>1, EmptyFine, FinePut DEF OpenForAppending
  <2>3. OutputNames[1] \in DOMAIN files'
    BY <2>1 DEF OpenForAppending, Put
  <2>4. 1 \in 1 .. Len(command.inputs)
    <3>1. command.inputs \in Seq(ToSet(command.inputs)) /\ command.inputs # <<>>
      BY <1>2, ToolsAssumption DEF Ready
    <3>2. Len(command.inputs) \in Nat \ {0}
      BY <3>1
    <3> QED  BY <3>2
  <2>5. InPlace'
    BY <1>1, <1>2, <2>1, <2>3, <2>4, ReadyStays DEF InPlace
  <2> QED  BY <1>1, <1>2, <2>1, <2>2, <2>5 DEF FineInv
<1> QED  BY <1>3, <1>4

LEMMA FineKept ==
  ASSUME ScopeInv, FineInv, [Next]_vars
  PROVE  FineInv'
<1>1. command \in Commands
  BY DEF ScopeInv
<1>2. CASE UNCHANGED vars \/ Stopped
  <2>1. UNCHANGED vars
    BY <1>2 DEF Stopped
  <2> QED  BY <2>1, ReadyStays DEF vars, FineInv, InPlace, FilesFine
<1>3. CASE LoadInput
  <2>1. command.prog = "header" /\ Load(HeaderLoads(files, file))
    BY <1>3 DEF LoadInput
  <2>2. file \in 1 .. Len(command.inputs) /\ Ready /\ FilesFine(files)
    BY <2>1 DEF Load, FineInv, InPlace
  <2>3. LoadsFine(HeaderLoads(files, file))
    BY <1>1, <2>1, <2>2, HeaderLoadsFine
  <2> QED  BY <1>1, <2>1, <2>3, LoadKeepsFine
<1>4. CASE EncodeInput
  BY <1>1, <1>4, EncodeLoadsFine, LoadKeepsFine DEF EncodeInput, FineInv
<1>5. CASE DecodeInput
  BY <1>1, <1>5, DecodeLoadsFine, LoadKeepsFine DEF DecodeInput, FineInv
<1> QED  BY <1>1, <1>2, <1>3, <1>4, <1>5, StartKeepsFine, CheckKeepsFine, OpenKeepsFine, AppendKeepsFine,
            OutputKeepsFine, WriteOneKeepsFine, SuppressKeepsFine DEF Next

LEMMA FineAtFirst == Init => FineInv
<1> SUFFICES ASSUME Init  PROVE FineInv
  OBVIOUS
<1>1. files = Files /\ before = files /\ pc = "idle"
  BY DEF Init
<1>2. ASSUME NEW p \in DOMAIN Files
      PROVE  IsSequence(Files[p]) /\ \A k \in 1 .. Len(Files[p]) : IsItem(Files[p][k])
  <2>1. Files[p] \in Seq(ToSet(Files[p])) /\ \A k \in DOMAIN Files[p] : IsItem(Files[p][k])
    BY FilesAssumption
  <2>2. IsSequence(Files[p])
    BY <2>1 DEF IsSequence
  <2>3. DOMAIN Files[p] = 1 .. Len(Files[p])
    BY <2>2, SequenceFacts
  <2> QED  BY <2>1, <2>2, <2>3
<1>3. FilesFine(Files)
  BY <1>2 DEF FilesFine
<1> QED  BY <1>1, <1>3 DEF FineInv, InPlace

-----------------------------------------------------------------------------
(* What was written is read as it was: whole frames and bytes as they are, *)
(* hex files without the zeros that filled up their last word.             *)
LEMMA DataReadBack ==
  ASSUME NEW fs, NEW p, p \in DOMAIN fs, NEW frm, IsFrame(frm), NEW kind, NEW how, NEW d,
         fs[p] = <<[kind |-> kind, data |-> d]>>,
         SizeOf(d) >= frm.format.size, Take(d, frm.format.size) = frm.data
  PROVE  LoadBytes(fs, frm.format, p, kind, how) = Loaded(frm)
<1>1. PICK item, c : item = [kind |-> kind, data |-> d] /\ c = fs[p]
  OBVIOUS
<1>2. Len(c) = 1 /\ c[1] = item /\ item.kind = kind /\ item.data = d
  BY <1>1, OneItem
<1>3. Content(fs, p, kind) = d
  BY <1>1, <1>2, Zenon DEF Content
<1>4. frm = [format |-> frm.format, data |-> frm.data]
  BY DEF IsFrame
<1>5. LoadBytes(fs, frm.format, p, kind, how) = Loaded([format |-> frm.format, data |-> Take(d, frm.format.size)])
  BY <1>3, Zenon DEF LoadBytes
<1> QED  BY <1>4, <1>5

LEMMA ReadBack ==
  ASSUME NEW fs, NEW p, p \in DOMAIN fs, NEW frm, IsFrame(frm), CanWrite(p), fs[p] = <<Written(frm, p)>>
  PROVE  LoadConvertFrame(fs, frm.format, p) = Loaded(AsKept(frm, p))
<1>1. "xyuv" \notin RawSuffixes /\ "hex" \notin RawSuffixes /\ "xyuv" # "hex" /\ "hex" \in HexSuffixesOfInputs
  BY DEF RawSuffixes, HexSuffixesOfInputs
<1>2. PICK d, n : d = frm.data /\ n = frm.format.size
  OBVIOUS
<1>3. IsData(d) /\ d.bytes + d.zeros = n /\ n \in Nat
  BY <1>2 DEF IsFrame, IsFormat
<1>4. CASE p.suffix = "xyuv"
  <2>1. PICK item, c, kept : item = InStream(frm) /\ c = fs[p] /\ kept = SitingLost(frm)
    OBVIOUS
  <2>2. Written(frm, p) = item
    BY <1>1, <1>4, <2>1, Zenon DEF Written
  <2>3. c = <<item>> /\ item.kind = "frame" /\ item.frame = kept
    BY <2>1, <2>2 DEF InStream
  <2>4. c # <<>> /\ Head(c) = item
    BY <2>3
  <2>5. LoadXYUVFile(fs, p) = Loaded(Head(fs[p]).frame)
    BY <2>1, <2>3, <2>4, Zenon DEF LoadXYUVFile
  <2>6. AsKept(frm, p) = kept
    BY <1>4, <2>1 DEF AsKept
  <2> QED  BY <1>4, <2>1, <2>3, <2>4, <2>5, <2>6, ByTheSuffix
<1>5. CASE p.suffix = "hex"
  <2>1. Written(frm, p) = [kind |-> "hex", data |-> WholeWords(frm.data)]
    BY <1>1, <1>5, Zenon DEF Written
  <2>2. SizeOf(WholeWords(d)) >= n /\ Take(WholeWords(d), n) = d
    BY <1>3, WholeWordsAreEnough
  <2>3. LoadBytes(fs, frm.format, p, "hex", "error") = Loaded(frm)
    BY <1>2, <2>1, <2>2, DataReadBack
  <2> QED  BY <1>1, <1>5, <2>3, ByTheSuffix DEF AsKept
<1>6. CASE p.suffix \in RawSuffixes
  <2>1. p.suffix # "xyuv" /\ p.suffix # "hex"
    BY <1>1, <1>6
  <2>2. Written(frm, p) = [kind |-> "bytes", data |-> frm.data]
    BY <1>6, <2>1, Zenon DEF Written
  <2>3. SizeOf(d) >= n /\ Take(d, n) = d
    <3>1. SizeOf(d) = n
      BY <1>3 DEF SizeOf
    <3> QED  BY <1>3, <3>1, AllTaken
  <2>4. LoadBytes(fs, frm.format, p, "bytes", "abort") = Loaded(frm)
    BY <1>2, <2>2, <2>3, DataReadBack
  <2> QED  BY <1>6, <2>1, <2>4, ByTheSuffix DEF AsKept
<1> QED  BY <1>4, <1>5, <1>6 DEF CanWrite

(* Only a write ends a command that writes well.                           *)
LEMMA LoadEndsBadly ==
  ASSUME NEW loads, Load(loads)
  PROVE  ~ (pc' = "ended" /\ result' = "ok")
  BY DEF Load, End

LEMMA WrittenLoads ==
  ASSUME NEW out, NEW old, CanWrite(out), IsFrame(frame.frame), frame = Loaded(frame.frame), UNCHANGED frame,
         files' \in {WriteFrame(out, old), BreakFrame(out, old)}
  PROVE  files'[out] = <<Broken>> \/ LoadConvertFrame(files', frame'.frame.format, out) = Loaded(AsKept(frame'.frame, out))
<1>1. CASE files' = BreakFrame(out, old)
  BY <1>1 DEF BreakFrame
<1>2. CASE files' = WriteFrame(out, old)
  <2>1. PICK fs, frm : fs = files' /\ frm = frame.frame
    OBVIOUS
  <2>2. out \in DOMAIN fs /\ fs[out] = <<Written(frm, out)>>
    BY <1>2, <2>1 DEF WriteFrame
  <2>3. LoadConvertFrame(fs, frm.format, out) = Loaded(AsKept(frm, out))
    BY <2>1, <2>2, ReadBack
  <2> QED  BY <2>1, <2>3
<1> QED  BY <1>1, <1>2

LEMMA LoadableKept ==
  ASSUME FineInv, WrittenCanBeLoaded, [Next]_vars
  PROVE  WrittenCanBeLoaded'
<1>1. CASE UNCHANGED vars \/ Stopped
  <2>1. UNCHANGED vars
    BY <1>1 DEF Stopped
  <2>2. /\ OutputNames' = OutputNames /\ Out' = Out
        /\ \A p : CanWrite(p)' = CanWrite(p) /\ MetaFails(p)' = MetaFails(p)
        /\ \A format, p : LoadConvertFrame(files', format, p) = LoadConvertFrame(files, format, p)
    BY <2>1 DEF vars, OutputNames, Out, CanWrite, MetaFails
  <2> QED  BY <2>1, <2>2 DEF vars, WrittenCanBeLoaded
<1>2. CASE LoadInput \/ EncodeInput \/ DecodeInput
  <2>1. ~ (pc' = "ended" /\ result' = "ok")
    BY <1>2, LoadEndsBadly DEF LoadInput, EncodeInput, DecodeInput
  <2> QED  BY <2>1 DEF WrittenCanBeLoaded
<1>3. CASE StartCommand \/ CheckArguments \/ OpenOutput
  <2>1. ~ (pc' = "ended" /\ result' = "ok")
    BY <1>3 DEF StartCommand, CheckArguments, OpenOutput, End
  <2> QED  BY <2>1 DEF WrittenCanBeLoaded
<1>4. CASE AppendFrame \/ SuppressWriteout
  <2>1. ~ (command'.writeout /\ ~ command'.cat)
    BY <1>4 DEF AppendFrame, SuppressWriteout, Appending
  <2> QED  BY <2>1 DEF WrittenCanBeLoaded
<1>5. CASE WriteOutput
  <2>1. /\ pc = "write" /\ command.prog = "header" /\ UNCHANGED <<command, frame>>
        /\ OutputNames' = OutputNames
    BY <1>5, ReadyStays DEF WriteOutput
  <2>2. PICK out, old : out = OutputNames[file] /\ old = WithMeta(out)
    OBVIOUS
  <2>3. SUFFICES ASSUME pc' = "ended", result' = "ok", CanWrite(out), ~ MetaFails(out)
        PROVE  files'[out] = <<Broken>> \/ LoadConvertFrame(files', frame'.frame.format, out) = Loaded(AsKept(frame'.frame, out))
    <3>1. CASE pc' = "ended" /\ result' = "ok"
      <4>1. file' = file
        BY <1>5, <3>1 DEF WriteOutput, NextInput, End
      <4>2. out = OutputNames'[file']
        BY <2>1, <2>2, <4>1
      <4> QED  BY <2>1, <2>3, <3>1, <4>2 DEF WrittenCanBeLoaded, CanWrite, MetaFails
    <3>2. CASE ~ (pc' = "ended" /\ result' = "ok")
      BY <3>2 DEF WrittenCanBeLoaded
    <3> QED  BY <3>1, <3>2
  <2>4. CanWrite(out) /\ files' \in {WriteFrame(out, old), BreakFrame(out, old)}
    BY <1>5, <2>2, <2>3 DEF WriteOutput, End
  <2>5. frame = Loaded(frame.frame) /\ IsFrame(frame.frame)
    BY <2>1 DEF FineInv
  <2> QED  BY <2>1, <2>4, <2>5, WrittenLoads
<1>6. CASE WriteOne
  <2>1. pc = "write" /\ command.prog \in {"encode", "decode"} /\ UNCHANGED <<command, frame>> /\ Out' = Out
    BY <1>6 DEF WriteOne, Out
  <2>2. SUFFICES ASSUME pc' = "ended", result' = "ok", CanWrite(Out), ~ MetaFails(Out)'
        PROVE  files'[Out] = <<Broken>> \/ LoadConvertFrame(files', frame'.frame.format, Out) = Loaded(AsKept(frame'.frame, Out))
    BY <2>1 DEF WrittenCanBeLoaded, CanWrite
  <2>3. PICK out, old : out = Out /\ old = WithMeta(out)
    OBVIOUS
  <2>4. files' \in {WriteFrame(out, old), BreakFrame(out, old)}
    BY <1>6, <2>2, <2>3 DEF WriteOne, End
  <2>5. frame = Loaded(frame.frame) /\ IsFrame(frame.frame)
    BY <2>1 DEF FineInv
  <2> QED  BY <2>1, <2>2, <2>3, <2>4, <2>5, WrittenLoads
<1> QED  BY <1>1, <1>2, <1>3, <1>4, <1>5, <1>6 DEF Next

(* Whatever was given to the programs: a frame that was written without an *)
(* error is loaded again from a file of any suffix, as the very frame from *)
(* bytes and words, and all but its siting from an .xyuv file.             *)
THEOREM WrittenIsReadable == Spec => []WrittenCanBeLoaded
<1>1. Init => ScopeInv /\ FineInv /\ WrittenCanBeLoaded
  BY FineAtFirst DEF Init, ScopeInv, WrittenCanBeLoaded
<1>2. ScopeInv /\ FineInv /\ WrittenCanBeLoaded /\ [Next]_vars => (ScopeInv /\ FineInv /\ WrittenCanBeLoaded)'
  BY ScopeKept, FineKept, LoadableKept
<1> QED  BY <1>1, <1>2, PTL DEF Spec

-----------------------------------------------------------------------------
(* A batch whose outputs are files of their own.                           *)
OneByOne == command.prog = "header" /\ command.writeout /\ ~ Concatenates

Writes(k) == CanWrite(OutputNames[k]) /\ ~ MetaFails(OutputNames[k])
AsAlone(k) ==
  {<<Written(Alone(k), OutputNames[k])>>} \cup (IF MayBreak(OutputNames[k]) THEN {<<Broken>>} ELSE {})
Settled(k) == OutputNames[k] \in DOMAIN files /\ files[OutputNames[k]] \in AsAlone(k)

(* The outputs before the current one are settled, the others untouched.   *)
BatchInv ==
  /\ pc \in {"open", "load", "write"} /\ command.prog = "header" /\ command.writeout => IsInjective(OutputNames)
  /\ pc = "open" => Concatenates
  /\ pc = "write" /\ command.prog = "header" => frame.frame = Alone(file)
  /\ pc \in {"load", "write"} /\ OneByOne =>
       \A k \in DOMAIN OutputNames : IF k < file /\ Writes(k) THEN Settled(k) ELSE Untouched(OutputNames[k])

LEMMA NamesInOrder ==
  ASSUME command \in Commands, OneByOne, OutputsFine
  PROVE  DOMAIN OutputNames = 1 .. Len(command.inputs) /\ Len(command.inputs) \in Nat \ {0}
<1>1. PICK n : n = Len(command.inputs)
  OBVIOUS
<1>2. command.inputs \in Seq(ToSet(command.inputs)) /\ command.outputs \in Seq(ToSet(command.outputs))
  BY ToolsAssumption
<1>3. n \in Nat \ {0} /\ DOMAIN command.inputs = 1 .. n
  BY <1>1, <1>2 DEF OutputsFine, OneByOne
<1>4. Len(OutputNames) \in {1, n} /\ ~ (Len(OutputNames) = 1 /\ n > 1) /\ ~ command.cat /\ command.writeout
  BY <1>1, Zenon DEF OutputsFine, OneOrEach, OneByOne, Concatenates
<1>5. Len(OutputNames) = n
  <2>1. PICK m : m = Len(OutputNames)
    OBVIOUS
  <2>2. m \in {1, n} /\ ~ (m = 1 /\ n > 1)
    BY <1>4, <2>1
  <2> QED  BY <1>3, <2>1, <2>2
<1>6. CASE command.outputs # <<>>
  <2>1. OutputNames = command.outputs
    BY <1>4, <1>6 DEF OutputNames
  <2> QED  BY <1>1, <1>2, <1>3, <1>5, <2>1
<1>7. CASE command.outputs = <<>>
  <2>1. OutputNames = [k \in DOMAIN command.inputs |-> StripSuffix(command.inputs[k])]
    BY <1>4, <1>7 DEF OutputNames
  <2> QED  BY <1>1, <1>3, <2>1
<1> QED  BY <1>6, <1>7

(* An output is neither another one nor the description of one.            *)
LEMMA OutputsApart ==
  ASSUME command \in Commands, OneByOne, OutputsFine, IsInjective(OutputNames),
         NEW j \in DOMAIN OutputNames, NEW k \in DOMAIN OutputNames
  PROVE  /\ j # k => OutputNames[j] # OutputNames[k]
         /\ MetaPath(OutputNames[j]) # OutputNames[k]
<1>1. j # k => OutputNames[j] # OutputNames[k]
  BY DEF IsInjective
<1>2. command.prog = "header" /\ command.writeout /\ command.inputs # <<>>
  BY DEF OneByOne, OutputsFine
<1>3. /\ OutputNames[j] \in ToSet(command.outputs) \cup {StripSuffix(q) : q \in ToSet(command.inputs)}
      /\ OutputNames[k] \in ToSet(command.outputs) \cup {StripSuffix(q) : q \in ToSet(command.inputs)}
  BY <1>2, NameIsOutput, WhereNamesComeFrom
<1> QED  BY <1>1, <1>2, <1>3, DescriptionsAssumption

LEMMA AsAloneStays ==
  ASSUME UNCHANGED <<command, before>>, NEW k
  PROVE  AsAlone(k)' = AsAlone(k) /\ Writes(k)' = Writes(k) /\ Alone(k)' = Alone(k) /\ OneByOne' = OneByOne
<1>1. OutputNames' = OutputNames
  BY ReadyStays
<1>2. Alone(k)' = Alone(k)
  BY DEF Alone, HeaderLoads
<1> QED  BY <1>1, <1>2 DEF AsAlone, Writes, OneByOne, Concatenates, CanWrite, MetaFails, MayBreak

LEMMA SettledStays ==
  ASSUME UNCHANGED <<command, before>>, NEW k, Same(OutputNames[k])
  PROVE  (Settled(k) => Settled(k)') /\ (Untouched(OutputNames[k]) => Untouched(OutputNames[k])')
<1>1. OutputNames' = OutputNames /\ AsAlone(k)' = AsAlone(k)
  BY ReadyStays, AsAloneStays
<1> QED  BY <1>1 DEF Settled, Untouched, Same

(* An input is what it was when the batch began.                           *)
LEMMA InputsKept ==
  ASSUME ScopeInv, pc = "load", command.prog = "header", NEW k \in DOMAIN command.inputs
  PROVE  HeaderLoads(files, k) = HeaderLoads(before, k)
<1>1. command.inputs[k] \notin MayChange
  <2>1. command.inputs[k] \in ToSet(command.inputs)
    BY DEF ToSet
  <2> QED  BY <2>1 DEF MayChange, Inputs
<1>2. SameIn(files, before, command.inputs[k])
  BY <1>1 DEF ScopeInv, AllElseUntouched, Untouched, SameIn
<1>3. PICK t, st, f, p : /\ t = Pick(command.templates, k) /\ st = Pick(command.sitings, k)
                         /\ f = FormatOf(t, st, Pick(command.matrices, k), command.w, command.h)
                         /\ p = command.inputs[k]
  OBVIOUS
<1>4. \A fs : HeaderLoads(fs, k) = IF ~ Accepted(t, st) THEN Failed("error") ELSE LoadConvertFrame(fs, f, p)
  BY <1>3, Zenon DEF HeaderLoads
<1>5. LoadConvertFrame(files, f, p) = LoadConvertFrame(before, f, p)
  BY <1>2, <1>3, LoadsTheSame
<1> QED  BY <1>4, <1>5

(* What has been settled after a step decides the property.                *)
LEMMA FatesDecide ==
  ASSUME \/ pc' \in {"load", "write"} /\ result' = "none"
         \/ pc' = "ended" /\ result' # "ok",
         \A k \in DOMAIN OutputNames' : k \in Nat \ {0}, file' \in Nat,
         \A k \in DOMAIN OutputNames' :
           (IF k < file /\ Writes(k) THEN Settled(k)
            ELSE \/ Untouched(OutputNames[k])
                 \/ k = file /\ result = "abort" /\ files[OutputNames[k]] = <<Broken>>)'
  PROVE  OutputsMatchInputs'
<1>1. Handled' = 1 .. file' - 1
  BY DEF Handled
<1>2. \A k \in DOMAIN OutputNames' : k \in Handled' <=> k < file'
  BY <1>1
<1>3. \A k \in DOMAIN OutputNames' : Settled(k)' => files'[OutputNames'[k]] \in AsAlone(k)'
  BY DEF Settled
<1> QED  BY <1>2, <1>3 DEF OutputsMatchInputs, AsAlone, Writes

LEMMA AllSettled ==
  ASSUME DOMAIN OutputNames' = DOMAIN command'.inputs, result' = "ok",
         \A k \in DOMAIN OutputNames' : (IF Writes(k) THEN Settled(k) ELSE Untouched(OutputNames[k]))'
  PROVE  OutputsMatchInputs'
<1>1. \A k \in DOMAIN OutputNames' : k \in Handled'
  BY DEF Handled
<1>2. \A k \in DOMAIN OutputNames' : Settled(k)' => files'[OutputNames'[k]] \in AsAlone(k)'
  BY DEF Settled
<1> QED  BY <1>1, <1>2 DEF OutputsMatchInputs, AsAlone, Writes

(* Loading an input leaves the outputs alone.                              *)
LEMMA LoadKeepsBatch ==
  ASSUME ScopeInv, FineInv, BatchInv, OutputsMatchInputs, LoadInput
  PROVE  BatchInv' /\ OutputsMatchInputs'
<1>1. PICK loads : loads = HeaderLoads(files, file)
  OBVIOUS
<1>2. /\ Load(loads) /\ pc = "load" /\ command.prog = "header" /\ UNCHANGED <<command, file, before>>
      /\ command \in Commands
  BY <1>1 DEF LoadInput, Load, ScopeInv
<1>3. file \in 1 .. Len(command.inputs) /\ result = "none"
  BY <1>2 DEF FineInv, InPlace
<1>4. OutputNames' = OutputNames /\ OneByOne' = OneByOne
  BY <1>2, ReadyStays, AsAloneStays
<1>5. ASSUME pc' = "write"
      PROVE  frame'.frame = Alone(file)'
  <2>1. loads = HeaderLoads(before, file)
    <3>1. command.inputs \in Seq(ToSet(command.inputs))
      BY <1>2, ToolsAssumption
    <3>2. file \in DOMAIN command.inputs
      BY <1>3, <3>1
    <3> QED  BY <1>1, <1>2, <3>2, InputsKept
  <2>2. frame' = Loaded(FlippedIf(command.flip, loads.frame))
    BY <1>2, <1>5 DEF Load, End
  <2>3. Alone(file)' = FlippedIf(command.flip, HeaderLoads(before, file).frame)
    BY <1>2 DEF Alone, HeaderLoads
  <2>4. frame'.frame = FlippedIf(command.flip, loads.frame)
    BY <2>2 DEF Loaded
  <2> QED  BY <2>1, <2>3, <2>4
<1>6. ASSUME OneByOne
      PROVE  /\ UNCHANGED files /\ OutputsMatchInputs'
             /\ \A k \in DOMAIN OutputNames :
                  (IF k < file /\ Writes(k) THEN Settled(k) ELSE Untouched(OutputNames[k]))'
  <2>1. UNCHANGED files
    BY <1>2, <1>6 DEF Load, Appending, OneByOne, Concatenates
  <2>2. \A k \in DOMAIN OutputNames : IF k < file /\ Writes(k) THEN Settled(k) ELSE Untouched(OutputNames[k])
    BY <1>2, <1>6 DEF BatchInv
  <2>3. \A k \in DOMAIN OutputNames : (IF k < file /\ Writes(k) THEN Settled(k) ELSE Untouched(OutputNames[k]))'
    <3>1. \A k : AsAlone(k)' = AsAlone(k) /\ Writes(k)' = Writes(k)
      BY <1>2, AsAloneStays
    <3>2. \A k : Settled(k)' = Settled(k)
      BY <1>4, <2>1, <3>1 DEF Settled
    <3>3. \A k : Untouched(OutputNames[k])' = Untouched(OutputNames[k])
      BY <1>2, <1>4, <2>1 DEF Untouched
    <3> QED  BY <1>2, <2>2, <3>1, <3>2, <3>3
  <2>4. \/ pc' \in {"load", "write"} /\ result' = "none"
        \/ pc' = "ended" /\ result' # "ok"
    BY <1>2, <1>3 DEF Load, End
  <2>5. \A k \in DOMAIN OutputNames : k \in Nat \ {0}
    <3>1. OutputsFine
      BY <1>2 DEF ScopeInv
    <3> QED  BY <1>2, <1>6, <3>1, NamesInOrder
  <2>6. file' \in Nat
    BY <1>2, <1>3
  <2>7. OutputsMatchInputs'
    BY <1>4, <2>3, <2>4, <2>5, <2>6, FatesDecide
  <2> QED  BY <2>1, <2>3, <2>7
<1>7. OutputsMatchInputs'
  <2>1. CASE OneByOne
    BY <1>6, <2>1
  <2>2. CASE ~ OneByOne
    BY <1>4, <2>2 DEF OutputsMatchInputs, InBatch, OneByOne
  <2> QED  BY <2>1, <2>2
<1>8. pc' \in {"write", "ended"}
  BY <1>2 DEF Load, End
<1>9. IsInjective(OutputNames)' = IsInjective(OutputNames)
  BY <1>4
<1> QED  BY <1>2, <1>4, <1>5, <1>6, <1>7, <1>8, <1>9 DEF BatchInv

(* What one write does to all the outputs.                                 *)
LEMMA OneIsWritten ==
  ASSUME ScopeInv, FineInv, BatchInv, WriteOutput, OneByOne, NEW i \in DOMAIN OutputNames, i = file
  PROVE  /\ \A k \in DOMAIN OutputNames : k # i \/ ~ Writes(i) => Same(OutputNames[k])
         /\ End("abort") => Writes(i) /\ files'[OutputNames[i]] = <<Broken>> /\ UNCHANGED file
         /\ ~ End("abort") => NextInput /\ (Writes(i) => Settled(i)')
<1>1. PICK out, old : out = OutputNames[i] /\ old = WithMeta(out)
  OBVIOUS
<1>2. /\ pc = "write" /\ command.prog = "header" /\ UNCHANGED <<command, before>> /\ command \in Commands
      /\ IsInjective(OutputNames) /\ OutputsFine /\ OutputNames' = OutputNames
  BY ReadyStays DEF WriteOutput, ScopeInv, BatchInv, OneByOne
<1>3. Writes(i) <=> CanWrite(out) /\ ~ MetaFails(out)
  BY <1>1 DEF Writes
<1>4. ASSUME NEW k \in DOMAIN OutputNames
      PROVE  /\ OutputNames[k] \in DOMAIN old <=> OutputNames[k] \in DOMAIN files
             /\ OutputNames[k] \in DOMAIN files => old[OutputNames[k]] = files[OutputNames[k]]
  <2>1. MetaPath(out) # OutputNames[k]
    BY <1>1, <1>2, OutputsApart
  <2> QED  BY <1>1, <2>1 DEF WithMeta, Put
<1>5. ASSUME NEW k \in DOMAIN OutputNames, k # i \/ ~ Writes(i)
      PROVE  Same(OutputNames[k])
  <2>1. \/ files' = files \/ files' = old
        \/ Writes(i) /\ (files' = WriteFrame(out, old) \/ files' = BreakFrame(out, old))
    BY <1>1, <1>3 DEF WriteOutput
  <2>2. CASE files' = files
    BY <2>2 DEF Same
  <2>3. CASE files' = old
    BY <1>4, <2>3 DEF Same
  <2>4. CASE Writes(i) /\ (files' = WriteFrame(out, old) \/ files' = BreakFrame(out, old))
    <3>1. OutputNames[k] # out
      BY <1>1, <1>2, <1>5, <2>4, OutputsApart
    <3> QED  BY <1>4, <2>4, <3>1 DEF Same, WriteFrame, BreakFrame
  <2> QED  BY <2>1, <2>2, <2>3, <2>4
<1>6. /\ NextInput => ~ End("abort")
      /\ NextInput \/ End("abort")
  <2>1. result = "none"
    BY <1>2 DEF FineInv, InPlace
  <2>2. NextInput => ~ End("abort")
    BY <2>1 DEF NextInput, End
  <2> QED  BY <2>2 DEF WriteOutput
<1>7. ASSUME End("abort")
      PROVE  Writes(i) /\ files'[OutputNames[i]] = <<Broken>> /\ UNCHANGED file
  <2>1. Writes(i) /\ files' = BreakFrame(out, old) /\ UNCHANGED file
    BY <1>1, <1>3, <1>6, <1>7 DEF WriteOutput
  <2> QED  BY <1>1, <2>1 DEF BreakFrame
<1>8. ASSUME ~ End("abort"), Writes(i)
      PROVE  Settled(i)'
  <2>1. \/ files' = WriteFrame(out, old)
        \/ MayBreak(out) /\ files' = BreakFrame(out, old)
    BY <1>1, <1>3, <1>8 DEF WriteOutput
  <2>2. Settled(i)' <=> out \in DOMAIN files' /\ files'[out] \in AsAlone(i)
    <3>1. AsAlone(i)' = AsAlone(i)
      BY <1>2, AsAloneStays
    <3> QED  BY <1>1, <1>2, <3>1 DEF Settled
  <2>3. CASE files' = WriteFrame(out, old)
    <3>1. frame.frame = Alone(i)
      BY <1>2 DEF BatchInv
    <3>2. out \in DOMAIN files' /\ files'[out] = <<Written(frame.frame, out)>>
      BY <2>3 DEF WriteFrame
    <3> QED  BY <1>1, <2>2, <3>1, <3>2 DEF AsAlone
  <2>4. CASE MayBreak(out) /\ files' = BreakFrame(out, old)
    <3>1. out \in DOMAIN files' /\ files'[out] = <<Broken>>
      BY <2>4 DEF BreakFrame
    <3> QED  BY <1>1, <2>2, <2>4, <3>1 DEF AsAlone
  <2> QED  BY <2>1, <2>3, <2>4
<1> QED  BY <1>5, <1>6, <1>7, <1>8

LEMMA OutputKeepsBatch ==
  ASSUME ScopeInv, FineInv, BatchInv, OutputsMatchInputs, WriteOutput
  PROVE  BatchInv' /\ OutputsMatchInputs'
<1>1. /\ pc = "write" /\ command.prog = "header" /\ command.writeout /\ UNCHANGED <<command, before>>
      /\ command \in Commands /\ OutputsFine /\ OutputNames' = OutputNames /\ OneByOne' = OneByOne
      /\ IsInjective(OutputNames)
  BY ReadyStays, AsAloneStays DEF WriteOutput, ScopeInv, BatchInv
<1>2. /\ file \in 1 .. Len(command.inputs) /\ result = "none"
  BY <1>1 DEF FineInv, InPlace
<1>3. CASE file \notin DOMAIN OutputNames
  <2>1. pc' = "ended" /\ result' = "undefined"
    BY <1>3 DEF WriteOutput, End
  <2> QED  BY <2>1 DEF BatchInv, OutputsMatchInputs, InBatch
<1>4. CASE ~ OneByOne
  <2>1. OutputsMatchInputs'
    BY <1>1, <1>4 DEF OutputsMatchInputs, InBatch, OneByOne
  <2>2. pc' \in {"load", "ended"}
    BY NextOrEnd DEF WriteOutput
  <2> QED  BY <1>1, <1>4, <2>1, <2>2 DEF BatchInv
<1>5. CASE file \in DOMAIN OutputNames /\ OneByOne
  <2>1. PICK i : i = file
    OBVIOUS
  <2>2. PICK n : n = Len(command.inputs)
    OBVIOUS
  <2>3. DOMAIN OutputNames = 1 .. n /\ n \in Nat \ {0} /\ i \in 1 .. n
    BY <1>1, <1>2, <1>5, <2>1, <2>2, NamesInOrder
  <2>4. /\ \A k \in DOMAIN OutputNames : k # i \/ ~ Writes(i) => Same(OutputNames[k])
        /\ End("abort") => Writes(i) /\ files'[OutputNames[i]] = <<Broken>> /\ UNCHANGED file
        /\ ~ End("abort") => NextInput /\ (Writes(i) => Settled(i)')
    BY <1>5, <2>1, OneIsWritten
  <2>5. \A k \in DOMAIN OutputNames : IF k < i /\ Writes(k) THEN Settled(k) ELSE Untouched(OutputNames[k])
    BY <1>1, <1>5, <2>1 DEF BatchInv
  <2>6. \A k : Writes(k)' = Writes(k)
    BY <1>1, AsAloneStays
  <2>7. ASSUME NEW k \in DOMAIN OutputNames, k # i \/ ~ Writes(i)
        PROVE  IF k < i /\ Writes(k) THEN Settled(k)' ELSE Untouched(OutputNames[k])'
    <3>1. Same(OutputNames[k])
      BY <2>4, <2>7
    <3>2. (Settled(k) => Settled(k)') /\ (Untouched(OutputNames[k]) => Untouched(OutputNames[k])')
      BY <1>1, <3>1, SettledStays
    <3> QED  BY <2>5, <3>2
  <2>8. \A k \in DOMAIN OutputNames : k \in Nat \ {0}
    BY <2>3
  <2>9. CASE End("abort")
    <3>1. ASSUME NEW k \in DOMAIN OutputNames
          PROVE  IF k < i /\ Writes(k) THEN Settled(k)'
                 ELSE Untouched(OutputNames[k])' \/ (k = i /\ files'[OutputNames[k]] = <<Broken>>)
      <4>1. CASE k # i \/ ~ Writes(i)
        BY <2>7, <4>1
      <4>2. CASE k = i
        BY <2>3, <2>4, <2>9, <4>2
      <4> QED  BY <4>1, <4>2
    <3>2. pc' = "ended" /\ result' = "abort" /\ file' = i
      BY <2>1, <2>4, <2>9 DEF End
    <3>3. \A k \in DOMAIN OutputNames :
            (IF k < file /\ Writes(k) THEN Settled(k)
             ELSE \/ Untouched(OutputNames[k])
                  \/ k = file /\ result = "abort" /\ files[OutputNames[k]] = <<Broken>>)'
      BY <1>1, <2>6, <3>1, <3>2
    <3>4. file' \in Nat
      BY <2>3, <3>2
    <3>5. OutputsMatchInputs'
      BY <1>1, <2>8, <3>2, <3>3, <3>4, FatesDecide
    <3> QED  BY <3>2, <3>5 DEF BatchInv
  <2>10. CASE ~ End("abort")
    <3>1. ASSUME NEW k \in DOMAIN OutputNames
          PROVE  IF k < i + 1 /\ Writes(k) THEN Settled(k)' ELSE Untouched(OutputNames[k])'
      <4>1. CASE k = i /\ Writes(i)
        BY <2>3, <2>4, <2>10, <4>1
      <4>2. CASE k # i \/ ~ Writes(i)
        <5>1. k < i + 1 /\ Writes(k) <=> k < i /\ Writes(k)
          BY <2>3, <4>2
        <5> QED  BY <2>7, <4>2, <5>1
      <4> QED  BY <4>1, <4>2
    <3>2. NextInput
      BY <2>4, <2>10
    <3>3. CASE MoreInputs
      <4>1. pc' = "load" /\ result' = "none" /\ file' = i + 1
        BY <1>2, <2>1, <3>2, <3>3 DEF NextInput
      <4>2. \A k \in DOMAIN OutputNames : (IF k < file /\ Writes(k) THEN Settled(k) ELSE Untouched(OutputNames[k]))'
        BY <1>1, <2>6, <3>1, <4>1
      <4>3. file' \in Nat
        BY <2>3, <4>1
      <4>4. OutputsMatchInputs'
        BY <1>1, <2>8, <4>1, <4>2, <4>3, FatesDecide
      <4> QED  BY <1>1, <4>1, <4>2, <4>4 DEF BatchInv
    <3>4. CASE ~ MoreInputs
      <4>1. pc' = "ended" /\ result' = "ok"
        BY <3>2, <3>4 DEF NextInput, End
      <4>2. i = n
        BY <2>1, <2>2, <2>3, <3>4 DEF MoreInputs
      <4>3. \A k \in DOMAIN OutputNames : k < i + 1
        BY <2>3, <4>2
      <4>4. \A k \in DOMAIN OutputNames : (IF Writes(k) THEN Settled(k) ELSE Untouched(OutputNames[k]))'
        BY <1>1, <2>6, <3>1, <4>3
      <4>5. DOMAIN OutputNames = DOMAIN command.inputs
        <5>1. command.inputs \in Seq(ToSet(command.inputs))
          BY <1>1, ToolsAssumption
        <5> QED  BY <2>2, <2>3, <5>1
      <4>6. OutputsMatchInputs'
        BY <1>1, <4>1, <4>4, <4>5, AllSettled
      <4> QED  BY <4>1, <4>6 DEF BatchInv
    <3> QED  BY <3>3, <3>4
  <2> QED  BY <2>9, <2>10
<1> QED  BY <1>3, <1>4, <1>5

(* Steps that leave every output of a batch as it was.                     *)
LEMMA OthersKeepBatch ==
  ASSUME BatchInv, UNCHANGED <<command, before>>, pc' \in {"load", "write", "ended"}, ~ OneByOne,
         command.prog = "header" => pc = "write" /\ pc' # "write"
  PROVE  BatchInv' /\ OutputsMatchInputs'
<1>1. OutputNames' = OutputNames /\ OneByOne' = OneByOne
  BY ReadyStays, AsAloneStays
<1>2. OutputsMatchInputs'
  BY <1>1 DEF OutputsMatchInputs, InBatch, OneByOne
<1>3. pc' # "open" /\ command' = command
  OBVIOUS
<1>4. IsInjective(OutputNames)' = IsInjective(OutputNames)
  BY <1>1
<1> QED  BY <1>1, <1>2, <1>3, <1>4 DEF BatchInv

(* Nothing has been written when the first input is about to be loaded.    *)
LEMMA UntouchedAtFirst ==
  ASSUME files' = before', file' = 1, result' # "ok",
         pc' \in {"arguments", "load", "ended"}, OneByOne' => DOMAIN OutputNames' \subseteq Nat \ {0}
  PROVE  /\ OutputsMatchInputs'
         /\ OneByOne' => \A k \in DOMAIN OutputNames' :
                           (IF k < file /\ Writes(k) THEN Settled(k) ELSE Untouched(OutputNames[k]))'
<1>1. \A p : Untouched(p)'
  BY DEF Untouched
<1>2. \A k \in Nat \ {0} : ~ k < file'
  OBVIOUS
<1>3. Handled' = 1 .. 0
  BY DEF Handled
<1>4. \A k : k \notin Handled'
  BY <1>3
<1> QED  BY <1>1, <1>2, <1>4 DEF OutputsMatchInputs

LEMMA CheckKeepsBatch ==
  ASSUME ScopeInv, FineInv, ScopeInv', CheckArguments
  PROVE  BatchInv' /\ OutputsMatchInputs'
<1>1. /\ pc = "arguments" /\ UNCHANGED <<files, command, file, before>> /\ files = before /\ file = 1
      /\ result = "none" /\ command \in Commands /\ command.prog = "header"
  BY DEF CheckArguments, ScopeInv, FineInv, InPlace
<1>2. OutputNames' = OutputNames /\ OneByOne' = OneByOne /\ Concatenates' = Concatenates
  BY <1>1, ReadyStays, AsAloneStays DEF Concatenates
<1>3. CASE pc' = "ended"
  <2>1. result' \in {"undefined", "error"}
    BY <1>3 DEF CheckArguments, End
  <2>2. Handled' = 1 .. 0
    BY <1>1, <2>1 DEF Handled
  <2>3. \A k : k \notin Handled'
    BY <2>2
  <2>4. \A p : Untouched(p)'
    BY <1>1 DEF Untouched
  <2> QED  BY <1>3, <2>3, <2>4 DEF BatchInv, OutputsMatchInputs
<1>4. CASE pc' # "ended"
  <2>1. /\ UNCHANGED result /\ pc' = (IF Concatenates THEN "open" ELSE "load")
        /\ ~ (command.writeout /\ BadOutputs)
    BY <1>4 DEF CheckArguments, End
  <2>2. command.writeout => IsInjective(OutputNames)
    BY <2>1 DEF BadOutputs
  <2>3. CASE Concatenates
    <3>1. pc' = "open" /\ ~ OneByOne'
      BY <1>2, <2>1, <2>3 DEF OneByOne
    <3> QED  BY <1>1, <1>2, <2>2, <2>3, <3>1 DEF BatchInv, OutputsMatchInputs, InBatch
  <2>4. CASE ~ Concatenates
    <3>1. pc' = "load" /\ result' = "none" /\ file' = 1 /\ files' = before'
      BY <1>1, <2>1, <2>4
    <3>2. OneByOne' => DOMAIN OutputNames' \subseteq Nat \ {0}
      <4>1. SUFFICES ASSUME OneByOne  PROVE DOMAIN OutputNames \subseteq Nat \ {0}
        BY <1>2
      <4>2. OutputsFine'
        BY <3>1 DEF ScopeInv
      <4>3. OutputsFine
        BY <1>1, <1>2, <4>2 DEF OutputsFine, OneOrEach
      <4> QED  BY <1>1, <4>1, <4>3, NamesInOrder
    <3>3. /\ OutputsMatchInputs'
          /\ OneByOne' => \A k \in DOMAIN OutputNames' :
                            (IF k < file /\ Writes(k) THEN Settled(k) ELSE Untouched(OutputNames[k]))'
      BY <3>1, <3>2, UntouchedAtFirst
    <3> QED  BY <1>1, <1>2, <2>2, <3>1, <3>3 DEF BatchInv
  <2> QED  BY <2>3, <2>4
<1> QED  BY <1>3, <1>4

LEMMA OpenKeepsBatch ==
  ASSUME ScopeInv, FineInv, BatchInv, OpenOutput
  PROVE  BatchInv' /\ OutputsMatchInputs'
<1>1. /\ pc = "open" /\ UNCHANGED <<command, file, before>> /\ files = before /\ command.prog = "header"
      /\ Concatenates
  BY DEF OpenOutput, ScopeInv, BatchInv
<1>2. OutputNames' = OutputNames /\ ~ OneByOne'
  <2>1. OutputNames' = OutputNames /\ OneByOne' = OneByOne
    BY <1>1, ReadyStays, AsAloneStays
  <2> QED  BY <1>1, <2>1 DEF OneByOne
<1>3. OutputsMatchInputs'
  BY <1>2 DEF OutputsMatchInputs, InBatch, OneByOne
<1>4. pc' \in {"ended", "load"}
  BY DEF OpenOutput, End
<1>5. IsInjective(OutputNames)' = IsInjective(OutputNames)
  BY <1>2
<1> QED  BY <1>1, <1>2, <1>3, <1>4, <1>5 DEF BatchInv

LEMMA BatchKept ==
  ASSUME ScopeInv, FineInv, BatchInv, OutputsMatchInputs, [Next]_vars
  PROVE  BatchInv' /\ OutputsMatchInputs'
<1>1. CASE UNCHANGED vars \/ Stopped
  <2>1. UNCHANGED vars
    BY <1>1 DEF Stopped
  <2>2. /\ OutputNames' = OutputNames /\ OneByOne' = OneByOne /\ Concatenates' = Concatenates /\ Handled' = Handled
        /\ \A k : AsAlone(k)' = AsAlone(k) /\ Writes(k)' = Writes(k) /\ Alone(k)' = Alone(k)
        /\ \A k : Settled(k)' = Settled(k) /\ Untouched(OutputNames[k])' = Untouched(OutputNames[k])
    <3>1. OutputNames' = OutputNames
      BY <2>1, ReadyStays DEF vars
    <3>2. \A k : AsAlone(k)' = AsAlone(k) /\ Writes(k)' = Writes(k) /\ Alone(k)' = Alone(k) /\ OneByOne' = OneByOne
      BY <2>1, AsAloneStays DEF vars
    <3> QED  BY <2>1, <3>1, <3>2 DEF vars, Concatenates, Handled, Settled, Untouched
  <2>3. BatchInv'
    BY <2>1, <2>2 DEF vars, BatchInv
  <2>4. OutputsMatchInputs'
    BY <2>1, <2>2 DEF vars, OutputsMatchInputs, AsAlone, Writes, InBatch
  <2> QED  BY <2>3, <2>4
<1>2. CASE LoadInput
  BY <1>2, LoadKeepsBatch
<1>3. CASE WriteOutput
  BY <1>3, OutputKeepsBatch
<1>4. CASE EncodeInput \/ DecodeInput \/ WriteOne
  <2>1. /\ command.prog # "header" /\ UNCHANGED <<command, before>> /\ pc' \in {"write", "ended"}
        /\ ~ OneByOne
    BY <1>4 DEF EncodeInput, DecodeInput, WriteOne, Load, End, OneByOne
  <2> QED  BY <2>1, OthersKeepBatch
<1>5. CASE AppendFrame \/ SuppressWriteout
  <2>1. ~ OneByOne
    BY <1>5 DEF AppendFrame, SuppressWriteout, Appending, OneByOne, Concatenates
  <2>2. pc = "write" /\ UNCHANGED <<command, before>> /\ (NextInput \/ \E how : End(how))
    BY <1>5 DEF AppendFrame, SuppressWriteout
  <2> QED  BY <2>1, <2>2, NextOrEnd, OthersKeepBatch
<1>6. CASE StartCommand
  <2>1. pc' = IF command'.prog = "header" THEN "arguments" ELSE "load"
    BY <1>6 DEF StartCommand
  <2> QED  BY <2>1 DEF BatchInv, OutputsMatchInputs, InBatch, OneByOne
<1>7. CASE CheckArguments
  BY <1>7, ScopeKept, CheckKeepsBatch
<1>8. CASE OpenOutput
  BY <1>8, OpenKeepsBatch
<1> QED  BY <1>1, <1>2, <1>3, <1>4, <1>5, <1>6, <1>7, <1>8 DEF Next

(* In a batch of any length, whatever fails: every input's output is what  *)
(* comes of that input alone, and outputs not written are as they were.    *)
THEOREM BatchIsOneByOne == Spec => []OutputsMatchInputs
<1>1. Init => ScopeInv /\ FineInv /\ BatchInv /\ OutputsMatchInputs
  BY FineAtFirst DEF Init, ScopeInv, BatchInv, OutputsMatchInputs, InBatch
<1>2. /\ ScopeInv /\ FineInv /\ BatchInv /\ OutputsMatchInputs /\ [Next]_vars
      => (ScopeInv /\ FineInv /\ BatchInv /\ OutputsMatchInputs)'
  BY ScopeKept, FineKept, BatchKept
<1> QED  BY <1>1, <1>2, PTL DEF Spec

-----------------------------------------------------------------------------
(* The concatenated file: what there was, and then one item after another. *)
Grown(s, F, m) == s \o [k \in 1 .. m |-> F[k]]

LEMMA SequencesEqual ==
  ASSUME NEW s, IsSequence(s), NEW t, IsSequence(t), NEW n, Len(s) = n, Len(t) = n,
         \A k \in 1 .. n : s[k] = t[k]
  PROVE  s = t
<1>1. PICK D, E : s \in Seq(D) /\ t \in Seq(E)
  BY DEF IsSequence
<1>2. s \in [1 .. n -> D] /\ t \in [1 .. n -> E]
  BY <1>1
<1> QED  BY <1>2

IsGrown(g, s, F, m) ==
  LET n == Len(s)
  IN  /\ n \in Nat /\ IsSequence(g) /\ Len(g) = n + m
      /\ \A k \in 1 .. n : g[k] = s[k]
      /\ \A k \in 1 .. m : g[n + k] = F[k]

LEMMA GrownIs ==
  ASSUME NEW s, IsSequence(s), NEW F, NEW m \in Nat
  PROVE  IsGrown(Grown(s, F, m), s, F, m)
<1>1. PICK E : s \in Seq(E)
  BY DEF IsSequence
<1>2. PICK n, t : n = Len(s) /\ t = [k \in 1 .. m |-> F[k]]
  OBVIOUS
<1>3. PICK D : D = E \cup {F[k] : k \in 1 .. m}
  OBVIOUS
<1>4. t \in [1 .. m -> D]
  BY <1>2, <1>3
<1>5. t \in Seq(D) /\ Len(t) = m
  BY <1>4
<1>6. s \in Seq(D)
  BY <1>1, <1>3
<1>7. s \o t \in Seq(D) /\ Len(s \o t) = n + m
  BY <1>2, <1>5, <1>6
<1>8. \A k \in 1 .. n : (s \o t)[k] = s[k]
  BY <1>2, <1>5, <1>6
<1>9. \A k \in 1 .. m : (s \o t)[n + k] = t[k]
  BY <1>2, <1>5, <1>6
<1>10. n \in Nat /\ Grown(s, F, m) = s \o t /\ \A k \in 1 .. m : t[k] = F[k]
  BY <1>1, <1>2 DEF Grown
<1>11. IsSequence(s \o t)
  BY <1>7 DEF IsSequence
<1> QED  BY <1>2, <1>7, <1>8, <1>9, <1>10, <1>11 DEF IsGrown

(* Where an item of it comes from.                                         *)
LEMMA GrownOrGiven ==
  ASSUME NEW n \in Nat, NEW m \in Nat, NEW k \in 1 .. n + m
  PROVE  k \in 1 .. n \/ \E j \in 1 .. m : k = n + j
<1>1. CASE k > n
  <2>1. k - n \in 1 .. m /\ k = n + (k - n)
    BY <1>1
  <2> QED  BY <2>1
<1> QED  BY <1>1

LEMMA GrownByNone ==
  ASSUME NEW s, IsSequence(s), NEW F
  PROVE  Grown(s, F, 0) = s
<1>1. PICK n, t : n = Len(s) /\ t = Grown(s, F, 0)
  OBVIOUS
<1>2. IsGrown(t, s, F, 0)
  BY <1>1, GrownIs
<1>3. n \in Nat /\ IsSequence(t) /\ Len(t) = n /\ \A k \in 1 .. n : t[k] = s[k]
  BY <1>1, <1>2 DEF IsGrown
<1> QED  BY <1>1, <1>3, SequencesEqual

LEMMA GrownByOne ==
  ASSUME NEW s, IsSequence(s), NEW F, NEW m \in Nat
  PROVE  Append(Grown(s, F, m), F[m + 1]) = Grown(s, F, m + 1)
<1>1. PICK n, t, u, v : /\ n = Len(s) /\ t = Grown(s, F, m) /\ u = Append(t, F[m + 1]) /\ v = Grown(s, F, m + 1)
  OBVIOUS
<1>2. /\ n \in Nat /\ IsSequence(t) /\ Len(t) = n + m
      /\ \A k \in 1 .. n : t[k] = s[k]
      /\ \A k \in 1 .. m : t[n + k] = F[k]
  <2>1. IsGrown(t, s, F, m)
    BY <1>1, GrownIs
  <2> QED  BY <1>1, <2>1 DEF IsGrown
<1>3. /\ IsSequence(u) /\ Len(u) = n + m + 1 /\ u[n + m + 1] = F[m + 1]
      /\ \A k \in 1 .. n + m : u[k] = t[k]
  BY <1>1, <1>2, SequenceFacts, SMTT(40)
<1>4. PICK q, r : q = m + 1 /\ r = n + q
  OBVIOUS
<1>5. /\ IsSequence(v) /\ Len(v) = r /\ q \in Nat
      /\ \A k \in 1 .. n : v[k] = s[k]
      /\ \A k \in 1 .. q : v[n + k] = F[k]
  <2>1. q \in Nat /\ v = Grown(s, F, q)
    BY <1>1, <1>4
  <2>2. IsGrown(v, s, F, q)
    BY <2>1, GrownIs
  <2> QED  BY <1>1, <1>4, <2>1, <2>2 DEF IsGrown
<1>6. ASSUME NEW k \in 1 .. r
      PROVE  u[k] = v[k]
  <2>1. CASE k \in 1 .. n
    <3>1. k \in 1 .. n + m
      BY <1>2, <2>1
    <3> QED  BY <1>2, <1>3, <1>5, <2>1, <3>1
  <2>2. CASE \E j \in 1 .. q : k = n + j
    <3>1. PICK j \in 1 .. q : k = n + j
      BY <2>2
    <3>2. CASE j = q
      <4>1. k = n + m + 1
        BY <1>2, <1>4, <3>1, <3>2
      <4> QED  BY <1>3, <1>4, <1>5, <3>1, <3>2, <4>1
    <3>3. CASE j # q
      <4>1. j \in 1 .. m /\ k \in 1 .. n + m
        BY <1>2, <1>4, <3>1, <3>3
      <4> QED  BY <1>2, <1>3, <1>5, <3>1, <4>1
    <3> QED  BY <3>2, <3>3
  <2> QED  BY <1>2, <1>4, <1>5, <2>1, <2>2, GrownOrGiven
<1>7. Len(u) = r
  BY <1>2, <1>3, <1>4
<1>8. u = v
  BY <1>3, <1>5, <1>6, <1>7, SequencesEqual
<1> QED  BY <1>1, <1>4, <1>8

LEMMA GrownLess ==
  ASSUME NEW s, IsSequence(s), NEW F, NEW m \in Nat, NEW j \in 0 .. m, NEW n, n = Len(s) + j
  PROVE  SubSeq(Grown(s, F, m), 1, n) = Grown(s, F, j)
<1>1. PICK l, t, v : l = Len(s) /\ t = Grown(s, F, m) /\ v = Grown(s, F, j)
  OBVIOUS
<1>2. /\ l \in Nat /\ IsSequence(t) /\ Len(t) = l + m
      /\ \A k \in 1 .. l : t[k] = s[k]
      /\ \A k \in 1 .. m : t[l + k] = F[k]
  <2>1. IsGrown(t, s, F, m)
    BY <1>1, GrownIs
  <2> QED  BY <1>1, <2>1 DEF IsGrown
<1>3. j \in Nat /\ n \in 0 .. Len(t) /\ n = l + j
  BY <1>1, <1>2
<1>4. PICK u : u = SubSeq(t, 1, n)
  OBVIOUS
<1>5. IsSequence(u) /\ Len(u) = n /\ \A k \in 1 .. n : u[k] = t[k]
  BY <1>2, <1>3, <1>4, SequenceFacts
<1>6. /\ IsSequence(v) /\ Len(v) = n
      /\ \A k \in 1 .. l : v[k] = s[k]
      /\ \A k \in 1 .. j : v[l + k] = F[k]
  <2>1. IsGrown(v, s, F, j)
    BY <1>1, <1>3, GrownIs
  <2> QED  BY <1>1, <1>3, <2>1 DEF IsGrown
<1>7. ASSUME NEW k \in 1 .. n
      PROVE  u[k] = v[k]
  <2>1. CASE k \in 1 .. l
    BY <1>2, <1>5, <1>6, <2>1
  <2>2. CASE \E i \in 1 .. j : k = l + i
    <3>1. PICK i \in 1 .. j : k = l + i
      BY <2>2
    <3>2. i \in 1 .. m
      OBVIOUS
    <3> QED  BY <1>2, <1>5, <1>6, <3>1, <3>2
  <2>3. k \in 1 .. l + j
    BY <1>3
  <2> QED  BY <1>2, <1>3, <2>1, <2>2, <2>3, GrownOrGiven
<1>8. u = v
  BY <1>5, <1>6, <1>7, SequencesEqual
<1> QED  BY <1>1, <1>4, <1>8

(* What a failure may leave of it: one item after another, up to some n,   *)
(* and then perhaps one that broke off.                                    *)
Remains(c, s, F, n) == \E m \in 0 .. n : c = Grown(s, F, m) \/ c = Append(Grown(s, F, m), Broken)

LEMMA StartOfAppend ==
  ASSUME NEW s, IsSequence(s), NEW e, NEW n \in 0 .. Len(s)
  PROVE  SubSeq(Append(s, e), 1, n) = SubSeq(s, 1, n)
<1>1. PICK l, t, u : l = Len(s) /\ t = Append(s, e) /\ u = SubSeq(s, 1, n)
  OBVIOUS
<1>2. /\ l \in Nat /\ IsSequence(t) /\ Len(t) = l + 1 /\ \A k \in 1 .. l : t[k] = s[k]
      /\ IsSequence(u) /\ Len(u) = n /\ \A k \in 1 .. n : u[k] = s[k]
  BY <1>1, SequenceFacts, SMTT(40)
<1>3. PICK v : v = SubSeq(t, 1, n)
  OBVIOUS
<1>4. n \in 0 .. Len(t)
  BY <1>1, <1>2
<1>5. IsSequence(v) /\ Len(v) = n /\ \A k \in 1 .. n : v[k] = t[k]
  BY <1>2, <1>3, <1>4, SequenceFacts
<1>6. \A k \in 1 .. n : k \in 1 .. l
  BY <1>1, <1>2
<1>7. u = v
  BY <1>2, <1>5, <1>6, SequencesEqual
<1> QED  BY <1>1, <1>3, <1>7

LEMMA PartsOfGrown ==
  ASSUME NEW s, IsSequence(s), NEW F, NEW n \in Nat, NEW p, InFileAtLeast(p) = Len(s),
         NEW g, g = Grown(s, F, n), NEW part \in PartsOf(p, g)
  PROVE  part = g \/ (n - 1 \in Nat /\ Remains(part, s, F, n - 1))
<1>1. PICK l : l = Len(s)
  OBVIOUS
<1>2. l \in Nat /\ Len(g) = l + n
  <2>1. IsGrown(g, s, F, n)
    BY GrownIs
  <2> QED  BY <1>1, <2>1 DEF IsGrown
<1>3. ASSUME NEW k \in l .. l + n
      PROVE  k - l \in 0 .. n /\ SubSeq(g, 1, k) = Grown(s, F, k - l)
  <2>1. PICK j : j = k - l
    OBVIOUS
  <2>2. j \in 0 .. n /\ k = Len(s) + j
    BY <1>1, <1>2, <2>1
  <2>3. SubSeq(g, 1, k) = Grown(s, F, j)
    BY <2>2, GrownLess
  <2> QED  BY <2>1, <2>2, <2>3
<1>4. \/ \E k \in l .. l + n : part = SubSeq(g, 1, k)
      \/ \E k \in l .. l + n - 1 : part = Append(SubSeq(g, 1, k), Broken)
  BY <1>1, <1>2 DEF PartsOf
<1>5. CASE \E k \in l .. l + n : part = SubSeq(g, 1, k)
  <2>1. PICK k \in l .. l + n : part = SubSeq(g, 1, k)
    BY <1>5
  <2>2. PICK j : j = k - l
    OBVIOUS
  <2>3. j \in 0 .. n /\ part = Grown(s, F, j)
    BY <1>3, <2>1, <2>2
  <2>4. CASE j = n
    BY <2>3, <2>4
  <2>5. CASE j # n
    <3>1. j \in 0 .. n - 1 /\ n - 1 \in Nat
      BY <2>3, <2>5
    <3> QED  BY <2>3, <3>1 DEF Remains
  <2> QED  BY <2>4, <2>5
<1>6. CASE \E k \in l .. l + n - 1 : part = Append(SubSeq(g, 1, k), Broken)
  <2>1. PICK k \in l .. l + n - 1 : part = Append(SubSeq(g, 1, k), Broken)
    BY <1>6
  <2>2. PICK j : j = k - l
    OBVIOUS
  <2>3. j \in 0 .. n - 1 /\ n - 1 \in Nat /\ k \in l .. l + n
    BY <1>2, <2>1, <2>2
  <2>4. part = Append(Grown(s, F, j), Broken)
    BY <1>3, <2>1, <2>2, <2>3
  <2> QED  BY <2>3, <2>4 DEF Remains
<1> QED  BY <1>4, <1>5, <1>6

LEMMA WholeStart ==
  ASSUME NEW s, IsSequence(s)
  PROVE  SubSeq(s, 1, Len(s)) = s
<1>1. PICK E : s \in Seq(E)
  BY DEF IsSequence
<1>2. PICK n : n = Len(s)
  OBVIOUS
<1>3. n \in Nat /\ s \in [1 .. n -> E]
  BY <1>1, <1>2
<1>4. PICK t : t = SubSeq(s, 1, n)
  OBVIOUS
<1>5. IsSequence(t) /\ Len(t) = n /\ \A k \in 1 .. n : t[k] = s[k]
  BY <1>2, <1>3, <1>4, SequenceFacts
<1>6. t = s
  BY <1>2, <1>5, SequencesEqual
<1> QED  BY <1>2, <1>4, <1>6

LEMMA PartsOfBroken ==
  ASSUME NEW s, IsSequence(s), NEW F, NEW n \in Nat, NEW p, InFileAtLeast(p) = Len(s),
         NEW g, g = Append(Grown(s, F, n), Broken), NEW part \in PartsOf(p, g)
  PROVE  Remains(part, s, F, n)
<1>1. PICK l, h : l = Len(s) /\ h = Grown(s, F, n)
  OBVIOUS
<1>2. l \in Nat /\ IsSequence(h) /\ Len(h) = l + n
  <2>1. IsGrown(h, s, F, n)
    BY <1>1, GrownIs
  <2> QED  BY <1>1, <2>1 DEF IsGrown
<1>3. g = Append(h, Broken) /\ IsSequence(g) /\ Len(g) = l + n + 1
  BY <1>1, <1>2, SequenceFacts, SMTT(40)
<1>4. ASSUME NEW k \in l .. l + n
      PROVE  \E j \in 0 .. n : SubSeq(g, 1, k) = Grown(s, F, j)
  <2>1. PICK j : j = k - l
    OBVIOUS
  <2>2. j \in 0 .. n /\ k = Len(s) + j /\ k \in 0 .. Len(h)
    BY <1>1, <1>2, <2>1
  <2>3. SubSeq(h, 1, k) = Grown(s, F, j)
    BY <1>1, <2>2, GrownLess
  <2>4. SubSeq(g, 1, k) = SubSeq(h, 1, k)
    BY <1>2, <1>3, <2>2, StartOfAppend
  <2> QED  BY <2>2, <2>3, <2>4
<1>5. \/ \E k \in l .. l + n + 1 : part = SubSeq(g, 1, k)
      \/ \E k \in l .. l + n : part = Append(SubSeq(g, 1, k), Broken)
  <2>1. PICK a, b : a = Len(g) /\ b = Len(g) - 1
    OBVIOUS
  <2>2. a = l + n + 1 /\ b = l + n
    BY <1>2, <1>3, <2>1
  <2>3. \/ \E k \in l .. a : part = SubSeq(g, 1, k)
        \/ \E k \in l .. b : part = Append(SubSeq(g, 1, k), Broken)
    BY <1>1, <2>1 DEF PartsOf
  <2> QED  BY <2>2, <2>3
<1>6. CASE \E k \in l .. l + n + 1 : part = SubSeq(g, 1, k)
  <2>1. PICK k \in l .. l + n + 1 : part = SubSeq(g, 1, k)
    BY <1>6
  <2>2. CASE k \in l .. l + n
    BY <1>4, <2>1, <2>2 DEF Remains
  <2>3. CASE k = l + n + 1
    <3>1. k = Len(g)
      BY <1>2, <1>3, <2>3
    <3>2. SubSeq(g, 1, Len(g)) = g
      BY <1>3, WholeStart
    <3>3. part = g
      BY <2>1, <3>1, <3>2
    <3>4. n \in 0 .. n
      OBVIOUS
    <3> QED  BY <1>1, <1>3, <3>3, <3>4 DEF Remains
  <2>4. k \in l .. l + n \/ k = l + n + 1
    BY <1>2
  <2> QED  BY <2>2, <2>3, <2>4
<1>7. CASE \E k \in l .. l + n : part = Append(SubSeq(g, 1, k), Broken)
  <2>1. PICK k \in l .. l + n : part = Append(SubSeq(g, 1, k), Broken)
    BY <1>7
  <2>2. PICK j \in 0 .. n : SubSeq(g, 1, k) = Grown(s, F, j)
    BY <1>4
  <2> QED  BY <2>1, <2>2 DEF Remains
<1> QED  BY <1>5, <1>6, <1>7

(* Parts of what remained remain.                                          *)
LEMMA PartsRemain ==
  ASSUME NEW s, IsSequence(s), NEW F, NEW n \in Nat, NEW p, InFileAtLeast(p) = Len(s),
         NEW c, Remains(c, s, F, n), NEW part \in PartsOf(p, c)
  PROVE  Remains(part, s, F, n)
<1>1. PICK m \in 0 .. n : c = Grown(s, F, m) \/ c = Append(Grown(s, F, m), Broken)
  BY DEF Remains
<1>2. m \in Nat
  OBVIOUS
<1>3. CASE c = Grown(s, F, m)
  <2>1. part = c \/ (m - 1 \in Nat /\ Remains(part, s, F, m - 1))
    BY <1>2, <1>3, PartsOfGrown
  <2>2. CASE part = c
    BY <2>2
  <2>3. CASE m - 1 \in Nat /\ Remains(part, s, F, m - 1)
    <3>1. \A i \in 0 .. m - 1 : i \in 0 .. n
      BY <1>2
    <3> QED  BY <2>3, <3>1 DEF Remains
  <2> QED  BY <2>1, <2>2, <2>3
<1>4. CASE c = Append(Grown(s, F, m), Broken)
  <2>1. Remains(part, s, F, m)
    BY <1>2, <1>4, PartsOfBroken
  <2>2. \A i \in 0 .. m : i \in 0 .. n
    BY <1>2
  <2> QED  BY <2>1, <2>2 DEF Remains
<1> QED  BY <1>1, <1>3, <1>4

-----------------------------------------------------------------------------
(* What was in the concatenated file, and the items that come after it.    *)
Old == IF OutputNames[1] \in DOMAIN before THEN before[OutputNames[1]] ELSE <<>>
Frames == [k \in Nat |-> InStream(Alone(k))]

CatInv ==
  pc \in {"load", "write"} /\ Appending =>
    IF good THEN files[OutputNames[1]] = Grown(Old, Frames, file - 1)
    ELSE MayBreak(OutputNames[1]) /\ Remains(files[OutputNames[1]], Old, Frames, file - 1)

LEMMA OldFine ==
  ASSUME FilesFine(before)
  PROVE  IsSequence(Old) /\ InFileAtLeast(OutputNames[1]) = Len(Old)
<1>1. IsSequence(<<>>) /\ Len(<<>>) = 0
  BY EmptyFine DEF ContentFine
<1> QED  BY <1>1 DEF Old, InFileAtLeast, FilesFine

LEMMA OldStays ==
  ASSUME UNCHANGED <<command, before>>
  PROVE  Old' = Old /\ Frames' = Frames /\ Appending' = Appending /\ OutputNames' = OutputNames
<1>1. OutputNames' = OutputNames /\ Appending' = Appending
  BY ReadyStays
<1>2. \A k : Alone(k)' = Alone(k)
  BY AsAloneStays
<1> QED  BY <1>1, <1>2 DEF Old, Frames, InStream, SitingLost

(* What is in the file after a step decides the property.                  *)
LEMMA FileDecides ==
  ASSUME NEW n \in Nat, Handled' = 1 .. n, NEW c, c = files'[OutputNames'[1]],
         \/ c = Grown(Old', Frames', n)
         \/ (result' = "abort" \/ MayBreak(OutputNames'[1])) /\ Remains(c, Old', Frames', n)
  PROVE  CatAppends'
<1>1. \A m \in 0 .. n :
        Grown(Old', Frames', m) = Old' \o [k \in 1 .. m |-> InStream(Alone(k))']
  <2>1. SUFFICES ASSUME NEW m \in 0 .. n
        PROVE  [k \in 1 .. m |-> Frames'[k]] = [k \in 1 .. m |-> InStream(Alone(k))']
    BY DEF Grown
  <2>2. \A k \in 1 .. m : Frames'[k] = InStream(Alone(k))'
    BY DEF Frames
  <2> QED  BY <2>2, Zenon
<1>2. Cardinality(1 .. n) = n
  BY FS_Interval
<1>3. n \in 0 .. n
  OBVIOUS
<1>4. CASE c = Grown(Old', Frames', n)
  BY <1>1, <1>2, <1>3, <1>4, Zenon DEF CatAppends, Old
<1>5. CASE (result' = "abort" \/ MayBreak(OutputNames'[1])) /\ Remains(c, Old', Frames', n)
  <2>1. PICK m \in 0 .. n : c = Grown(Old', Frames', m) \/ c = Append(Grown(Old', Frames', m), Broken)
    BY <1>5 DEF Remains
  <2> QED  BY <1>1, <1>2, <1>5, <2>1, Zenon DEF CatAppends, Old, MayBreak
<1> QED  BY <1>4, <1>5

LEMMA LoadKeepsCat ==
  ASSUME ScopeInv, FineInv, CatInv, LoadInput
  PROVE  CatInv' /\ CatAppends'
<1>1. PICK loads : loads = HeaderLoads(files, file)
  OBVIOUS
<1>2. Load(loads) /\ pc = "load" /\ command.prog = "header" /\ UNCHANGED <<command, file, good, before>>
  BY <1>1 DEF LoadInput, Load
<1>3. Old' = Old /\ Frames' = Frames /\ Appending' = Appending /\ OutputNames' = OutputNames
  BY <1>2, OldStays
<1>4. CASE ~ Appending
  BY <1>3, <1>4 DEF CatInv, CatAppends
<1>5. CASE Appending
  <2>1. PICK n, out, c, s, F : n = file - 1 /\ out = OutputNames[1] /\ c = files[out] /\ s = Old /\ F = Frames
    OBVIOUS
  <2>2. n \in Nat /\ result = "none" /\ Handled = 1 .. n /\ out \in DOMAIN files
    BY <1>2, <1>5, <2>1 DEF FineInv, InPlace, Handled
  <2>3. IsSequence(s) /\ InFileAtLeast(out) = Len(s)
    BY <2>1, OldFine DEF FineInv
  <2>4. IF good THEN c = Grown(s, F, n) ELSE MayBreak(out) /\ Remains(c, s, F, n)
    BY <1>2, <1>5, <2>1 DEF CatInv
  <2>5. CASE loads.result = "ok"
    <3>1. pc' = "write" /\ UNCHANGED <<result, files>>
      BY <1>2, <2>5 DEF Load, End
    <3>2. CatInv'
      BY <1>2, <1>3, <2>1, <2>4, <3>1 DEF CatInv
    <3>3. Handled' = 1 .. n
      BY <1>2, <2>1, <2>2, <3>1 DEF Handled
    <3>4. CatAppends'
      BY <1>3, <2>1, <2>2, <2>4, <3>1, <3>3, FileDecides
    <3> QED  BY <3>2, <3>4
  <2>6. CASE loads.result # "ok"
    <3>1. pc' = "ended" /\ result' = loads.result
      BY <1>2, <2>6 DEF Load, End
    <3>2. CatInv'
      BY <3>1 DEF CatInv
    <3>3. Handled' = 1 .. n
      BY <1>2, <2>1, <2>6, <3>1 DEF Handled
    <3>4. CASE files' = files
      BY <1>3, <2>1, <2>2, <2>4, <3>2, <3>3, <3>4, FileDecides
    <3>5. CASE loads.result = "abort" /\ \E part \in PartsOf(out, c) : files' = Put(out, part)
      <4>1. PICK part \in PartsOf(out, c) : files' = Put(out, part)
        BY <3>5
      <4>2. files'[out] = part
        BY <4>1 DEF Put
      <4>3. Remains(c, s, F, n)
        <5>1. n \in 0 .. n
          BY <2>2
        <5> QED  BY <2>4, <5>1 DEF Remains
      <4>4. Remains(part, s, F, n)
        BY <2>2, <2>3, <4>3, PartsRemain
      <4>5. CatAppends'
        BY <1>3, <2>1, <2>2, <3>1, <3>3, <3>5, <4>2, <4>4, FileDecides
      <4> QED  BY <3>2, <4>5
    <3> QED  BY <1>2, <2>1, <2>6, <3>4, <3>5 DEF Load
  <2> QED  BY <2>5, <2>6
<1> QED  BY <1>4, <1>5

LEMMA AppendKeepsCat ==
  ASSUME ScopeInv, FineInv, BatchInv, CatInv, AppendFrame
  PROVE  CatInv' /\ CatAppends'
<1>1. /\ pc = "write" /\ command.prog = "header" /\ Appending /\ UNCHANGED <<command, before>>
      /\ command \in Commands
  BY DEF AppendFrame, Appending, ScopeInv
<1>2. Old' = Old /\ Frames' = Frames /\ Appending' = Appending /\ OutputNames' = OutputNames
  BY <1>1, OldStays
<1>3. PICK n, i, out, c, s, F : /\ n = file - 1 /\ i = file /\ out = OutputNames[1] /\ c = files[out]
                                /\ s = Old /\ F = Frames
  OBVIOUS
<1>4. PICK all : all = Append(c, InStream(frame.frame))
  OBVIOUS
<1>5. PICK l : l = Len(command.inputs)
  OBVIOUS
<1>6. /\ n \in Nat /\ i = n + 1 /\ i \in 1 .. l /\ result = "none" /\ l \in Nat
      /\ DOMAIN command.inputs = 1 .. l
  <2>1. command.inputs \in Seq(ToSet(command.inputs))
    BY <1>1, ToolsAssumption
  <2> QED  BY <1>1, <1>3, <1>5, <2>1 DEF FineInv, InPlace
<1>7. IsSequence(s) /\ InFileAtLeast(out) = Len(s)
  BY <1>3, OldFine DEF FineInv
<1>8. IF good THEN c = Grown(s, F, n) ELSE MayBreak(out) /\ Remains(c, s, F, n)
  BY <1>1, <1>3 DEF CatInv
<1>9. good => all = Grown(s, F, i)
  <2>1. F[n + 1] = InStream(frame.frame)
    BY <1>1, <1>3, <1>6 DEF Frames, BatchInv
  <2>2. Append(Grown(s, F, n), F[n + 1]) = Grown(s, F, n + 1)
    BY <1>6, <1>7, GrownByOne
  <2> QED  BY <1>4, <1>6, <1>8, <2>1, <2>2
<1>10. ASSUME NextInput, NEW new, files'[out] = new,
              IF good' THEN new = Grown(s, F, i) ELSE MayBreak(out) /\ Remains(new, s, F, i)
       PROVE  CatInv' /\ CatAppends'
  <2>1. CASE MoreInputs
    <3>1. pc' = "load" /\ result' = "none" /\ file' = i + 1 /\ file' - 1 = i
      <4>1. pc' = "load" /\ result' = result /\ file' = file + 1
        BY <1>10, <2>1 DEF NextInput
      <4>2. file' = i + 1
        BY <1>3, <4>1
      <4>3. i + 1 - 1 = i
        BY <1>6
      <4> QED  BY <1>6, <4>1, <4>2, <4>3
    <3>2. CatInv'
      BY <1>2, <1>3, <1>10, <3>1 DEF CatInv
    <3>3. Handled' = 1 .. i
      BY <3>1 DEF Handled
    <3>4. CatAppends'
      BY <1>2, <1>3, <1>6, <1>10, <3>3, FileDecides
    <3> QED  BY <3>2, <3>4
  <2>2. CASE ~ MoreInputs
    <3>1. pc' = "ended" /\ result' = "ok"
      BY <1>10, <2>2 DEF NextInput, End
    <3>2. CatInv'
      BY <3>1 DEF CatInv
    <3>3. i = l
      BY <1>3, <1>5, <1>6, <2>2 DEF MoreInputs
    <3>4. Handled' = 1 .. i
      BY <1>1, <1>6, <3>1, <3>3 DEF Handled
    <3>5. CatAppends'
      BY <1>2, <1>3, <1>6, <1>10, <3>4, FileDecides
    <3> QED  BY <3>2, <3>5
  <2> QED  BY <2>1, <2>2
<1>11. ASSUME End("abort"), UNCHANGED file, NEW new, files'[out] = new, Remains(new, s, F, n)
       PROVE  CatInv' /\ CatAppends'
  <2>1. pc' = "ended" /\ result' = "abort"
    BY <1>11 DEF End
  <2>2. CatInv'
    BY <2>1 DEF CatInv
  <2>3. Handled' = 1 .. n
    BY <1>3, <1>11, <2>1 DEF Handled
  <2>4. CatAppends'
    BY <1>2, <1>3, <1>6, <1>11, <2>1, <2>3, FileDecides
  <2> QED  BY <2>2, <2>4
<1>12. CASE good /\ files' = Put(out, all) /\ NextInput /\ UNCHANGED good
  <2>1. files'[out] = all
    BY <1>12 DEF Put
  <2> QED  BY <1>9, <1>10, <1>12, <2>1
<1>13. CASE /\ good /\ MayBreak(out) /\ \E part \in PartsOf(out, all) \ {all} : files' = Put(out, part)
            /\ good' = FALSE
            /\ NextInput \/ (End("abort") /\ UNCHANGED file)
  <2>1. PICK part \in PartsOf(out, all) \ {all} : files' = Put(out, part)
    BY <1>13
  <2>2. files'[out] = part
    BY <2>1 DEF Put
  <2>3. Remains(part, s, F, n)
    <3>1. i \in Nat /\ i - 1 = n /\ all = Grown(s, F, i) /\ part \in PartsOf(out, all) /\ part # all
      BY <1>6, <1>9, <1>13, <2>1
    <3>2. part = all \/ (i - 1 \in Nat /\ Remains(part, s, F, i - 1))
      BY <1>7, <3>1, PartsOfGrown
    <3> QED  BY <3>1, <3>2
  <2>4. Remains(part, s, F, i)
    <3>1. \A m \in 0 .. n : m \in 0 .. i
      BY <1>6
    <3> QED  BY <2>3, <3>1 DEF Remains
  <2> QED  BY <1>10, <1>11, <1>13, <2>2, <2>3, <2>4
<1>14. CASE ~ good /\ End("abort") /\ UNCHANGED <<files, good, file>>
  BY <1>3, <1>8, <1>11, <1>14
<1> QED  BY <1>3, <1>4, <1>12, <1>13, <1>14 DEF AppendFrame

LEMMA OpenKeepsCat ==
  ASSUME ScopeInv, FineInv, OpenOutput
  PROVE  CatInv' /\ CatAppends'
<1>1. /\ pc = "open" /\ UNCHANGED <<command, file, good, before>> /\ files = before
      /\ file = 1 /\ good /\ result = "none"
  BY DEF OpenOutput, ScopeInv, FineInv, InPlace
<1>2. CASE pc' = "ended"
  <2>1. files' = files /\ result' # "ok"
    BY <1>2 DEF OpenOutput, End
  <2>2. Handled' = 1 .. 0
    BY <1>1, <2>1 DEF Handled
  <2>3. Handled' = {}
    BY <2>2
  <2>4. \A p : Untouched(p)'
    BY <1>1, <2>1 DEF Untouched
  <2> QED  BY <1>2, <2>3, <2>4 DEF CatInv, CatAppends
<1>3. CASE pc' # "ended"
  <2>1. files' = OpenForAppending(OutputNames[1]) /\ pc' = "load" /\ UNCHANGED result
    BY <1>3 DEF OpenOutput, End
  <2>2. PICK out, s, F : out = OutputNames[1] /\ s = Old /\ F = Frames
    OBVIOUS
  <2>3. Old' = s /\ Frames' = F /\ OutputNames'[1] = out
    BY <1>1, <2>2, OldStays
  <2>4. files'[out] = s
    BY <1>1, <2>1, <2>2 DEF OpenForAppending, Put, Old
  <2>5. Grown(s, F, 0) = s
    <3>1. IsSequence(s)
      BY <2>2, OldFine DEF FineInv
    <3> QED  BY <3>1, GrownByNone
  <2>6. file' - 1 = 0
    BY <1>1
  <2>7. CatInv'
    BY <1>1, <2>3, <2>4, <2>5, <2>6 DEF CatInv
  <2>8. Handled' = 1 .. 0
    BY <1>1, <2>1 DEF Handled
  <2>9. CatAppends'
    BY <2>3, <2>4, <2>5, <2>8, FileDecides
  <2> QED  BY <2>7, <2>9
<1> QED  BY <1>2, <1>3

LEMMA CheckKeepsCat ==
  ASSUME ScopeInv, FineInv, CheckArguments
  PROVE  CatInv' /\ CatAppends'
<1>1. /\ pc = "arguments" /\ UNCHANGED <<files, command, file, before>> /\ files = before /\ file = 1
      /\ result = "none"
  BY DEF CheckArguments, ScopeInv, FineInv, InPlace
<1>2. CASE pc' = "ended"
  <2>1. result' # "ok"
    BY <1>2 DEF CheckArguments, End
  <2>2. Handled' = 1 .. 0
    BY <1>1, <2>1 DEF Handled
  <2>3. Handled' = {}
    BY <2>2
  <2>4. \A p : Untouched(p)'
    BY <1>1 DEF Untouched
  <2> QED  BY <1>2, <2>3, <2>4 DEF CatInv, CatAppends
<1>3. CASE pc' # "ended"
  <2>1. pc' = IF Concatenates THEN "open" ELSE "load"
    BY <1>3 DEF CheckArguments, End
  <2>2. Appending' => pc' = "open"
    BY <1>1, <2>1, ReadyStays DEF Appending, Concatenates
  <2> QED  BY <2>1, <2>2 DEF CatInv, CatAppends, InBatch
<1> QED  BY <1>2, <1>3

LEMMA CatKept ==
  ASSUME ScopeInv, FineInv, BatchInv, CatInv, CatAppends, [Next]_vars
  PROVE  CatInv' /\ CatAppends'
<1>1. CASE UNCHANGED vars \/ Stopped
  <2>1. UNCHANGED vars
    BY <1>1 DEF Stopped
  <2>2. /\ Old' = Old /\ Frames' = Frames /\ Appending' = Appending /\ OutputNames' = OutputNames
        /\ Handled' = Handled /\ \A k : Alone(k)' = Alone(k)
    BY <2>1, OldStays, AsAloneStays DEF vars, Handled
  <2>3. CatInv'
    BY <2>1, <2>2 DEF vars, CatInv
  <2>4. CatAppends'
    <3>1. UNCHANGED <<files, before, pc, result, command>>
      BY <2>1 DEF vars
    <3>2. /\ MayBreak(OutputNames[1])' = MayBreak(OutputNames[1])
          /\ Untouched(OutputNames[1])' = Untouched(OutputNames[1])
          /\ InBatch' = InBatch
      BY <2>2, <3>1 DEF MayBreak, Untouched, InBatch
    <3> QED  BY <2>2, <3>1, <3>2, Zenon DEF CatAppends
  <2> QED  BY <2>3, <2>4
<1>2. CASE LoadInput
  BY <1>2, LoadKeepsCat
<1>3. CASE AppendFrame
  BY <1>3, AppendKeepsCat
<1>4. CASE EncodeInput \/ DecodeInput \/ WriteOne \/ WriteOutput \/ SuppressWriteout
  <2>1. ~ Appending /\ UNCHANGED command
    BY <1>4 DEF EncodeInput, DecodeInput, WriteOne, WriteOutput, SuppressWriteout, Load, Appending
  <2>2. ~ Appending'
    BY <2>1, ReadyStays
  <2> QED  BY <2>2 DEF CatInv, CatAppends
<1>5. CASE StartCommand
  <2>1. pc' = IF command'.prog = "header" THEN "arguments" ELSE "load"
    BY <1>5 DEF StartCommand
  <2> QED  BY <2>1 DEF CatInv, CatAppends, InBatch, Appending
<1>6. CASE CheckArguments
  BY <1>6, CheckKeepsCat
<1>7. CASE OpenOutput
  BY <1>7, OpenKeepsCat
<1> QED  BY <1>1, <1>2, <1>3, <1>4, <1>5, <1>6, <1>7 DEF Next

(* For every batch that is concatenated, whatever fails: the file keeps    *)
(* what was in it, whole frames come after that in the order of the inputs *)
(* and nothing after one that broke off.                                   *)
THEOREM ConcatenationAppends == Spec => []CatAppends
<1>1. Init => ScopeInv /\ FineInv /\ BatchInv /\ OutputsMatchInputs /\ CatInv /\ CatAppends
  BY FineAtFirst DEF Init, ScopeInv, BatchInv, OutputsMatchInputs, InBatch, CatInv, CatAppends
<1>2. /\ ScopeInv /\ FineInv /\ BatchInv /\ OutputsMatchInputs /\ CatInv /\ CatAppends /\ [Next]_vars
      => (ScopeInv /\ FineInv /\ BatchInv /\ OutputsMatchInputs /\ CatInv /\ CatAppends)'
  BY ScopeKept, FineKept, BatchKept, CatKept
<1> QED  BY <1>1, <1>2, PTL DEF Spec

-----------------------------------------------------------------------------
(* Functions defined by recursion over numbers.                            *)

(* Of some numbers of an interval one is the least.                        *)
LEMMA LeastOne ==
  ASSUME NEW m \in Int, NEW n \in Int, NEW A, A \subseteq m .. n, A # {}
  PROVE  \E e \in A : \A d \in A : d >= e
<1> DEFINE U == {m .. d : d \in A}
<1>1. IsWellFoundedOn(StrictSubsetOrdering(m .. n), SUBSET (m .. n))
  BY FS_Interval, FS_FiniteSubsetsOfFinite, FS_StrictSubsetOrderingWellFounded
<1>2. U \subseteq SUBSET (m .. n) /\ U # {}
  <2>1. ASSUME NEW d \in A
        PROVE  m .. d \subseteq m .. n
    BY <2>1
  <2> QED  BY <2>1
<1>3. PICK u \in U : \A v \in U : ~ (<<v, u>> \in StrictSubsetOrdering(m .. n))
  <2> HIDE DEF U
  <2> QED  BY <1>1, <1>2, WFMin
<1>4. PICK e \in A : u = m .. e
  OBVIOUS
<1>5. ASSUME NEW d \in A, ~ (d >= e)
      PROVE  FALSE
  <2>1. (m .. d) \subseteq (m .. e) /\ e \in m .. e /\ e \notin m .. d
    BY <1>5
  <2>2. m .. d \in U
    OBVIOUS
  <2>3. <<m .. d, m .. e>> \in StrictSubsetOrdering(m .. n)
    BY <1>2, <1>4, <2>1, <2>2 DEF StrictSubsetOrdering
  <2> QED  BY <1>3, <1>4, <2>2, <2>3
<1> QED  BY <1>5

(* Induction from m to n, for a set of numbers in place of a predicate.    *)
LEMMA Climb ==
  ASSUME NEW m \in Int, NEW n \in Int, NEW G, m <= n => m \in G,
         \A k \in m .. n - 1 : k \in G => k + 1 \in G
  PROVE  \A k \in m .. n : k \in G
<1> SUFFICES ASSUME NEW x \in m .. n, x \notin G PROVE FALSE
  OBVIOUS
<1> DEFINE A == {k \in m .. n : k \notin G}
<1>1. PICK e \in A : \A d \in A : d >= e
  <2>1. A \subseteq m .. n /\ A # {}
    OBVIOUS
  <2> HIDE DEF A
  <2> QED  BY <2>1, LeastOne
<1>2. e \in m .. n /\ e # m
  OBVIOUS
<1>3. e - 1 \in m .. n - 1 /\ e - 1 \in m .. n /\ ~ (e - 1 >= e)
  BY <1>2
<1>4. e - 1 \in G
  BY <1>1, <1>3
<1>5. (e - 1) + 1 \in G /\ (e - 1) + 1 = e
  BY <1>2, <1>3, <1>4
<1> QED  BY <1>5

(* A value to begin with and a step from each number to the next make a    *)
(* function.                                                               *)
Follows(f, n, first, step) ==
  f[0] = first /\ \A k \in 1 .. n : f[k] = step[<<k, f[k - 1]>>]
LEMMA Recursion ==
  ASSUME NEW n \in Nat, NEW Values, NEW first \in Values, NEW step \in [(1 .. n) \X Values -> Values]
  PROVE  \E f \in [0 .. n -> Values] : Follows(f, n, first, step)
<1> DEFINE G == {m \in 0 .. n : \E f \in [0 .. m -> Values] : Follows(f, m, first, step)}
<1>1. 0 \in G
  <2>1. [i \in 0 .. 0 |-> first] \in [0 .. 0 -> Values] /\ Follows([i \in 0 .. 0 |-> first], 0, first, step)
    BY DEF Follows
  <2> QED  BY <2>1
<1>2. ASSUME NEW m \in 0 .. n - 1, m \in G
      PROVE  m + 1 \in G
  <2>1. PICK f \in [0 .. m -> Values] : Follows(f, m, first, step)
    BY <1>2
  <2> DEFINE g == [k \in 0 .. m + 1 |-> IF k = m + 1 THEN step[<<m + 1, f[m]>>] ELSE f[k]]
  <2>2. step[<<m + 1, f[m]>>] \in Values
    <3>1. <<m + 1, f[m]>> \in (1 .. n) \X Values
      OBVIOUS
    <3> QED  BY <3>1
  <2>3. g \in [0 .. m + 1 -> Values]
    <3>1. \A k \in 0 .. m + 1 : k = m + 1 \/ k \in 0 .. m
      OBVIOUS
    <3> QED  BY <2>2, <3>1
  <2>4. \A k \in 0 .. m : g[k] = f[k]
    OBVIOUS
  <2>5. g[0] = first
    BY <2>1, <2>4 DEF Follows
  <2>6. ASSUME NEW k \in 1 .. m + 1
        PROVE  g[k] = step[<<k, g[k - 1]>>]
    <3>1. CASE k = m + 1
      <4>1. k - 1 = m /\ m \in 0 .. m /\ k \in 0 .. m + 1
        BY <3>1
      <4> QED  BY <2>4, <3>1, <4>1
    <3>2. CASE k # m + 1
      <4>1. k \in 1 .. m /\ k \in 0 .. m /\ k - 1 \in 0 .. m
        BY <3>2
      <4> QED  BY <2>1, <2>4, <4>1 DEF Follows
    <3> QED  BY <3>1, <3>2
  <2>7. Follows(g, m + 1, first, step)
    BY <2>5, <2>6 DEF Follows
  <2> QED  BY <2>3, <2>7
<1>3. \A m \in 0 .. n : m \in G
  <2> HIDE DEF G
  <2>1. 0 \in Int /\ n \in Int
    OBVIOUS
  <2> QED  BY <1>1, <1>2, <2>1, Climb
<1>4. n \in G
  BY <1>3
<1> QED  BY <1>4

-----------------------------------------------------------------------------
(* How long the words of a line are.                                       *)
AWord == [value : Nat, size : Nat, colon : BOOLEAN]

LEMMA BytesOfType ==
  ASSUME NEW w \in AWord
  PROVE  BytesOf(w) \in Nat
<1>1. w.size \in Nat
  BY DEF AWord
<1> QED  BY <1>1 DEF BytesOf

LEMMA LengthsDefined ==
  ASSUME NEW words, NEW n \in Nat, DOMAIN words = 1 .. n, Len(words) = n,
         \A k \in 1 .. n : words[k] \in AWord
  PROVE  /\ Lengths(words) \in [0 .. n -> Nat]
         /\ Lengths(words)[0] = 0
         /\ \A k \in 1 .. n : Lengths(words)[k] = Lengths(words)[k - 1] + BytesOf(words[k])
<1> DEFINE step == [p \in (1 .. n) \X Nat |-> p[2] + BytesOf(words[p[1]])]
           F(f) == [k \in 0 .. n |-> IF k = 0 THEN 0 ELSE f[k - 1] + BytesOf(words[k])]
<1>1. \A k \in 1 .. n : BytesOf(words[k]) \in Nat
  BY BytesOfType
<1>2. step \in [(1 .. n) \X Nat -> Nat]
  BY <1>1
<1>3. PICK f \in [0 .. n -> Nat] : Follows(f, n, 0, step)
  <2> HIDE DEF step
  <2> QED  BY <1>2, Recursion
<1>4. f[0] = 0 /\ \A k \in 1 .. n : f[k] = f[k - 1] + BytesOf(words[k])
  <2>1. ASSUME NEW k \in 1 .. n
        PROVE  f[k] = f[k - 1] + BytesOf(words[k])
    <3>1. <<k, f[k - 1]>> \in (1 .. n) \X Nat
      OBVIOUS
    <3>2. step[<<k, f[k - 1]>>] = f[k - 1] + BytesOf(words[k])
      BY <3>1
    <3> QED  BY <1>3, <3>2 DEF Follows
  <2> QED  BY <1>3, <2>1 DEF Follows
<1>5. f = F(f)
  <2>1. \A k \in 0 .. n : f[k] = F(f)[k]
    BY <1>4
  <2> QED  BY <2>1
<1> DEFINE g == Lengths(words)
<1>6. g = F(g)
  <2>1. Lengths(words) = CHOOSE h : h = F(h)
    BY DEF Lengths
  <2> HIDE DEF F
  <2> QED  BY <1>5, <2>1
<1>7. g[0] = 0 /\ \A k \in 1 .. n : g[k] = g[k - 1] + BytesOf(words[k])
  <2> HIDE DEF g
  <2>1. \A k \in 0 .. n : g[k] = F(g)[k]
    BY <1>6
  <2> QED  BY <2>1
<1>8. \A k \in 0 .. n : g[k] \in Nat
  <2> HIDE DEF g
  <2> DEFINE G == {k \in 0 .. n : g[k] \in Nat}
  <2>1. 0 \in G
    BY <1>7
  <2>2. ASSUME NEW k \in 0 .. n - 1, k \in G
        PROVE  k + 1 \in G
    <3>1. k + 1 \in 1 .. n /\ (k + 1) - 1 = k
      OBVIOUS
    <3> QED  BY <1>1, <1>7, <2>2, <3>1
  <2>3. \A k \in 0 .. n : k \in G
    <3> HIDE DEF G
    <3>1. 0 \in Int /\ n \in Int
      OBVIOUS
    <3> QED  BY <2>1, <2>2, <3>1, Climb
  <2> QED  BY <2>3
<1>9. g \in [0 .. n -> Nat]
  <2> HIDE DEF g
  <2> QED  BY <1>6, <1>8
<1> QED  BY <1>7, <1>9

(* The length of a line is a number.                                       *)
LEMMA LengthOfType ==
  ASSUME NEW words \in Seq(AWord)
  PROVE  /\ Lengths(words) \in [0 .. Len(words) -> Nat]
         /\ Lengths(words)[0] = 0
         /\ \A k \in 1 .. Len(words) : Lengths(words)[k] = Lengths(words)[k - 1] + BytesOf(words[k])
         /\ LengthOf(words) \in Nat
<1>1. Len(words) \in Nat /\ DOMAIN words = 1 .. Len(words)
  OBVIOUS
<1>2. \A k \in 1 .. Len(words) : words[k] \in AWord
  OBVIOUS
<1>3. PICK n \in Nat : n = Len(words)
  BY <1>1
<1>4. /\ Lengths(words) \in [0 .. n -> Nat]
      /\ Lengths(words)[0] = 0
      /\ \A k \in 1 .. n : Lengths(words)[k] = Lengths(words)[k - 1] + BytesOf(words[k])
  BY <1>1, <1>2, <1>3, LengthsDefined
<1>5. LengthOf(words) \in Nat
  BY <1>3, <1>4 DEF LengthOf
<1> QED  BY <1>3, <1>4, <1>5

(* The addresses of lines that are not empty.                              *)
IsText == hex_file \in Seq(Seq(AWord))
LEMMA AddressesDefined ==
  ASSUME IsText, \A l \in DOMAIN hex_file : hex_file[l] # <<>>
  PROVE  /\ LineAddresses \in [DOMAIN hex_file -> Nat]
         /\ \A l \in DOMAIN hex_file :
              LineAddresses[l] = IF hex_file[l][1].colon THEN hex_file[l][1].value
                                 ELSE IF l = 1 THEN 0 ELSE LineAddresses[l - 1] + LengthOf(hex_file[l - 1])
<1>1. PICK n \in Nat : n = Len(hex_file) /\ DOMAIN hex_file = 1 .. n
  BY DEF IsText
<1> DEFINE value(l, earlier) == IF hex_file[l][1].colon THEN hex_file[l][1].value
                               ELSE IF l = 1 THEN 0 ELSE earlier + LengthOf(hex_file[l - 1])
           step == [p \in (1 .. n) \X Nat |-> value(p[1], p[2])]
           F(f) == [l \in DOMAIN hex_file |->
                      CASE hex_file[l][1].colon -> hex_file[l][1].value
                        [] ~ hex_file[l][1].colon /\ l = 1 -> 0
                        [] OTHER -> f[l - 1] + LengthOf(hex_file[l - 1])]
           g == LineAddresses
<1>2. ASSUME NEW l \in 1 .. n
      PROVE  /\ hex_file[l] \in Seq(AWord) /\ LengthOf(hex_file[l]) \in Nat
             /\ hex_file[l][1].colon \in BOOLEAN /\ hex_file[l][1].value \in Nat
  <2>1. hex_file[l] \in Seq(AWord) /\ hex_file[l] # <<>>
    BY <1>1 DEF IsText
  <2>2. hex_file[l][1] \in AWord
    BY <2>1
  <2> QED  BY <2>1, <2>2, LengthOfType DEF AWord
<1>3. ASSUME NEW l \in 1 .. n, NEW a \in Nat
      PROVE  value(l, a) \in Nat
  <2>1. CASE l = 1
    BY <1>2, <2>1
  <2>2. CASE l # 1
    <3>1. l - 1 \in 1 .. n
      BY <2>2
    <3>2. LengthOf(hex_file[l - 1]) \in Nat
      BY <1>2, <3>1
    <3> QED  BY <1>2, <2>2, <3>2
  <2> QED  BY <2>1, <2>2
<1>4. step \in [(1 .. n) \X Nat -> Nat]
  <2> HIDE DEF value
  <2> QED  BY <1>3
<1>5. PICK f \in [0 .. n -> Nat] : Follows(f, n, 0, step)
  <2> HIDE DEF step
  <2>1. 0 \in Nat
    OBVIOUS
  <2> QED  BY <1>4, <2>1, Recursion
<1>6. ASSUME NEW l \in 1 .. n
      PROVE  f[l] = value(l, f[l - 1])
  <2> HIDE DEF value
  <2>1. <<l, f[l - 1]>> \in (1 .. n) \X Nat
    OBVIOUS
  <2>2. step[<<l, f[l - 1]>>] = value(l, f[l - 1])
    BY <2>1
  <2> QED  BY <1>5, <2>2 DEF Follows
<1>7. \A h : \A l \in 1 .. n : F(h)[l] = value(l, h[l - 1])
  <2>1. ASSUME NEW h, NEW l \in 1 .. n
        PROVE  F(h)[l] = value(l, h[l - 1])
    <3>1. hex_file[l][1].colon \in BOOLEAN
      BY <1>2
    <3>2. l \in DOMAIN hex_file
      BY <1>1
    <3>3. CASE hex_file[l][1].colon
      BY <3>2, <3>3
    <3>4. CASE ~ hex_file[l][1].colon /\ l = 1
      BY <3>2, <3>4
    <3>5. CASE ~ hex_file[l][1].colon /\ l # 1
      BY <3>2, <3>5
    <3> QED  BY <3>1, <3>3, <3>4, <3>5
  <2> QED  BY <2>1
<1> DEFINE e == [l \in 1 .. n |-> f[l]]
<1>8. e = F(e)
  <2>1. ASSUME NEW l \in 1 .. n
        PROVE  e[l] = F(e)[l]
    <3>1. F(e)[l] = value(l, e[l - 1])
      BY <1>7
    <3>2. value(l, e[l - 1]) = value(l, f[l - 1])
      <4>1. CASE l = 1
        BY <4>1
      <4>2. CASE l # 1
        <5>1. l - 1 \in 1 .. n
          BY <4>2
        <5>2. e[l - 1] = f[l - 1]
          BY <5>1
        <5> QED  BY <5>2
      <4> QED  BY <4>1, <4>2
    <3> QED  BY <1>6, <3>1, <3>2
  <2>2. DOMAIN F(e) = 1 .. n /\ DOMAIN e = 1 .. n
    BY <1>1
  <2>3. F(e) = [l \in 1 .. n |-> F(e)[l]]
    BY <1>1
  <2> HIDE DEF F
  <2> QED  BY <2>1, <2>3
<1>9. g = F(g)
  <2>1. LineAddresses = CHOOSE h : h = F(h)
    BY DEF LineAddresses
  <2> HIDE DEF F, e
  <2> QED  BY <1>8, <2>1
<1>10. \A l \in 1 .. n : g[l] = value(l, g[l - 1])
  <2> HIDE DEF g, F, value
  <2> QED  BY <1>7, <1>9
<1>11. \A l \in 1 .. n : g[l] \in Nat
  <2> DEFINE G == {l \in 1 .. n : g[l] \in Nat}
  <2>1. 1 <= n => 1 \in G
    <3>1. ASSUME 1 <= n
          PROVE  g[1] \in Nat
      <4>1. 1 \in 1 .. n
        BY <3>1
      <4>2. g[1] = value(1, g[1 - 1]) /\ value(1, g[1 - 1]) = value(1, 0)
        BY <1>10, <4>1
      <4>3. value(1, 0) \in Nat
        BY <1>3, <4>1
      <4> QED  BY <4>2, <4>3
    <3> QED  BY <3>1
  <2>2. ASSUME NEW l \in 1 .. n - 1, l \in G
        PROVE  l + 1 \in G
    <3>1. l + 1 \in 1 .. n /\ (l + 1) - 1 = l
      OBVIOUS
    <3>2. g[l + 1] = value(l + 1, g[l])
      BY <1>10, <3>1
    <3>3. value(l + 1, g[l]) \in Nat
      <4> HIDE DEF value, g
      <4> QED  BY <1>3, <2>2, <3>1
    <3> HIDE DEF value, g
    <3> QED  BY <3>1, <3>2, <3>3
  <2>3. \A l \in 1 .. n : l \in G
    <3> HIDE DEF G
    <3>1. 1 \in Int /\ n \in Int
      OBVIOUS
    <3> QED  BY <2>1, <2>2, <3>1, Climb
  <2> QED  BY <2>3
<1>12. g \in [DOMAIN hex_file -> Nat]
  <2>1. DOMAIN F(g) = DOMAIN hex_file /\ F(g) = [l \in DOMAIN hex_file |-> F(g)[l]]
    OBVIOUS
  <2> HIDE DEF g, F
  <2> QED  BY <1>1, <1>9, <1>11, <2>1
<1> QED  BY <1>1, <1>10, <1>12

-----------------------------------------------------------------------------
(* The bytes of a number.                                                  *)

(* Taking one byte off a number, and putting one before it.                *)
LEMMA TakeByte ==
  ASSUME NEW v \in Nat, NEW b \in 0 .. 255
  PROVE  /\ (256 * v + b) % 256 = b /\ (256 * v + b) \div 256 = v
         /\ v % 256 \in 0 .. 255 /\ v \div 256 \in Nat
BY Z3

(* What is left of a number after some of its bytes.                       *)
Rest(value, n, r) ==
  /\ r \in [1 .. n -> Nat]
  /\ n >= 1 => r[1] = value
  /\ \A k \in 2 .. n : r[k] = r[k - 1] \div 256
LEMMA BytesDefined ==
  ASSUME NEW value \in Nat, NEW n \in Nat
  PROVE  \E r : Rest(value, n, r) /\ Bytes(value, n) = [i \in 1 .. n |-> r[i] % 256]
<1> DEFINE F(f) == [i \in 1 .. n |-> IF i = 1 THEN value ELSE f[i - 1] \div 256]
           step == [p \in (1 .. n) \X Nat |-> IF p[1] = 1 THEN value ELSE p[2] \div 256]
           r == CHOOSE f : f = F(f)
<1>1. \A v \in Nat : v \div 256 \in Nat
  BY Z3
<1>2. step \in [(1 .. n) \X Nat -> Nat]
  BY <1>1
<1>3. PICK f \in [0 .. n -> Nat] : Follows(f, n, 0, step)
  <2> HIDE DEF step
  <2>1. 0 \in Nat
    OBVIOUS
  <2> QED  BY <1>2, <2>1, Recursion
<1> DEFINE e == [i \in 1 .. n |-> f[i]]
<1>4. e = F(e)
  <2>1. ASSUME NEW i \in 1 .. n
        PROVE  e[i] = F(e)[i]
    <3>1. <<i, f[i - 1]>> \in (1 .. n) \X Nat
      OBVIOUS
    <3>2. f[i] = IF i = 1 THEN value ELSE f[i - 1] \div 256
      BY <1>3, <3>1 DEF Follows
    <3>3. CASE i = 1
      BY <3>2, <3>3
    <3>4. CASE i # 1
      <4>1. i - 1 \in 1 .. n
        BY <3>4
      <4> QED  BY <3>2, <3>4, <4>1
    <3> QED  BY <3>3, <3>4
  <2> QED  BY <2>1
<1>5. r = F(r)
  <2> HIDE DEF F, e
  <2> QED  BY <1>4
<1>6. \A i \in 1 .. n : r[i] = IF i = 1 THEN value ELSE r[i - 1] \div 256
  <2> HIDE DEF r
  <2> QED  BY <1>5
<1>7. \A i \in 1 .. n : r[i] \in Nat
  <2> HIDE DEF r
  <2> DEFINE G == {i \in 1 .. n : r[i] \in Nat}
  <2>1. 1 <= n => 1 \in G
    BY <1>6
  <2>2. ASSUME NEW i \in 1 .. n - 1, i \in G
        PROVE  i + 1 \in G
    <3>1. i + 1 \in 1 .. n /\ (i + 1) - 1 = i /\ i + 1 # 1
      OBVIOUS
    <3>2. r[i + 1] = r[i] \div 256
      BY <1>6, <3>1
    <3> QED  BY <1>1, <2>2, <3>1, <3>2
  <2>3. \A i \in 1 .. n : i \in G
    <3> HIDE DEF G
    <3>1. 1 \in Int /\ n \in Int
      OBVIOUS
    <3> QED  BY <2>1, <2>2, <3>1, Climb
  <2> QED  BY <2>3
<1>8. Rest(value, n, r)
  <2> HIDE DEF r
  <2>1. r \in [1 .. n -> Nat]
    BY <1>5, <1>7
  <2> QED  BY <1>6, <2>1, SMTT(30) DEF Rest
<1>9. Bytes(value, n) = [i \in 1 .. n |-> r[i] % 256]
  BY DEF Bytes
<1> QED  BY <1>8, <1>9

(* The first bytes of a number are the same however many there are.        *)
LEMMA RestsAgree ==
  ASSUME NEW value, NEW m \in Nat, NEW n \in Nat, m <= n, NEW r, NEW s, Rest(value, m, r), Rest(value, n, s)
  PROVE  \A k \in 1 .. m : r[k] = s[k]
<1> DEFINE G == {k \in 1 .. m : r[k] = s[k]}
<1>1. 1 <= m => 1 \in G
  BY DEF Rest
<1>2. ASSUME NEW k \in 1 .. m - 1, k \in G
      PROVE  k + 1 \in G
  <2>1. k + 1 \in 2 .. m /\ k + 1 \in 2 .. n /\ (k + 1) - 1 = k
    OBVIOUS
  <2>2. r[k + 1] = r[k] \div 256 /\ s[k + 1] = s[k] \div 256
    BY <2>1 DEF Rest
  <2> QED  BY <1>2, <2>1, <2>2
<1>3. \A k \in 1 .. m : k \in G
  <2> HIDE DEF G
  <2>1. 1 \in Int /\ m \in Int
    OBVIOUS
  <2> QED  BY <1>1, <1>2, <2>1, Climb
<1> QED  BY <1>3

LEMMA BytesType ==
  ASSUME NEW value \in Nat, NEW n \in Nat
  PROVE  Bytes(value, n) \in Seq(0 .. 255) /\ Len(Bytes(value, n)) = n /\ DOMAIN Bytes(value, n) = 1 .. n
<1>1. PICK r : Rest(value, n, r) /\ Bytes(value, n) = [i \in 1 .. n |-> r[i] % 256]
  BY BytesDefined, ZenonT(30)
<1>2. \A i \in 1 .. n : r[i] % 256 \in 0 .. 255
  <2>1. \A i \in 1 .. n : r[i] \in Nat
    BY <1>1 DEF Rest
  <2>2. \A v \in Nat : v % 256 \in 0 .. 255
    BY Z3
  <2> QED  BY <2>1, <2>2
<1>3. [i \in 1 .. n |-> r[i] % 256] \in [1 .. n -> 0 .. 255]
  BY <1>2
<1> QED  BY <1>1, <1>3

LEMMA BytesAgree ==
  ASSUME NEW value \in Nat, NEW m \in Nat, NEW n \in Nat, m <= n
  PROVE  \A k \in 1 .. m : Bytes(value, m)[k] = Bytes(value, n)[k]
<1>1. PICK r : Rest(value, m, r) /\ Bytes(value, m) = [i \in 1 .. m |-> r[i] % 256]
  BY BytesDefined, ZenonT(30)
<1>2. PICK s : Rest(value, n, s) /\ Bytes(value, n) = [i \in 1 .. n |-> s[i] % 256]
  BY BytesDefined, ZenonT(30)
<1>3. \A k \in 1 .. m : r[k] = s[k]
  BY <1>1, <1>2, RestsAgree
<1>4. \A k \in 1 .. m : k \in 1 .. n
  OBVIOUS
<1> QED  BY <1>1, <1>2, <1>3, <1>4

(* The number that bytes are, from the last one on.                        *)
Number(bytes, f) ==
  /\ f \in [0 .. Len(bytes) -> Nat]
  /\ f[0] = 0
  /\ \A i \in 1 .. Len(bytes) : f[i] = 256 * f[i - 1] + bytes[Len(bytes) - i + 1]
LEMMA FromBytesDefined ==
  ASSUME NEW bytes \in Seq(0 .. 255)
  PROVE  \E f : Number(bytes, f) /\ FromBytes(bytes) = f[Len(bytes)]
<1>1. PICK n \in Nat : n = Len(bytes) /\ DOMAIN bytes = 1 .. n
  OBVIOUS
<1> DEFINE F(f) == [i \in 0 .. n |-> IF i = 0 THEN 0 ELSE 256 * f[i - 1] + bytes[n - i + 1]]
           step == [p \in (1 .. n) \X Nat |-> 256 * p[2] + bytes[n - p[1] + 1]]
           g == CHOOSE f : f = F(f)
<1>2. \A i \in 1 .. n : n - i + 1 \in 1 .. n /\ bytes[n - i + 1] \in Nat
  <2>1. \A j \in 1 .. n : bytes[j] \in 0 .. 255
    BY <1>1
  <2>2. \A j \in 0 .. 255 : j \in Nat
    OBVIOUS
  <2>3. \A i \in 1 .. n : n - i + 1 \in 1 .. n
    OBVIOUS
  <2> QED  BY <2>1, <2>2, <2>3
<1>3. step \in [(1 .. n) \X Nat -> Nat]
  BY <1>2
<1>4. PICK f \in [0 .. n -> Nat] : Follows(f, n, 0, step)
  <2> HIDE DEF step
  <2>1. 0 \in Nat
    OBVIOUS
  <2> QED  BY <1>3, <2>1, Recursion
<1>5. f = F(f)
  <2>1. ASSUME NEW i \in 0 .. n
        PROVE  f[i] = F(f)[i]
    <3>1. CASE i = 0
      BY <1>4, <3>1 DEF Follows
    <3>2. CASE i # 0
      <4>1. i \in 1 .. n /\ <<i, f[i - 1]>> \in (1 .. n) \X Nat
        BY <3>2
      <4>2. f[i] = step[<<i, f[i - 1]>>] /\ step[<<i, f[i - 1]>>] = 256 * f[i - 1] + bytes[n - i + 1]
        BY <1>4, <4>1, ZenonT(30) DEF Follows
      <4> QED  BY <3>2, <4>2
    <3> QED  BY <3>1, <3>2
  <2> QED  BY <2>1
<1>6. g = F(g)
  <2> HIDE DEF F
  <2> QED  BY <1>5
<1>7. g[0] = 0 /\ \A i \in 1 .. n : g[i] = 256 * g[i - 1] + bytes[n - i + 1]
  <2> HIDE DEF g
  <2>1. \A i \in 0 .. n : g[i] = IF i = 0 THEN 0 ELSE 256 * g[i - 1] + bytes[n - i + 1]
    BY <1>6
  <2> QED  BY <2>1
<1>8. \A i \in 0 .. n : g[i] \in Nat
  <2> HIDE DEF g
  <2> DEFINE G == {i \in 0 .. n : g[i] \in Nat}
  <2>1. 0 \in G
    BY <1>7
  <2>2. ASSUME NEW i \in 0 .. n - 1, i \in G
        PROVE  i + 1 \in G
    <3>1. i + 1 \in 1 .. n /\ (i + 1) - 1 = i /\ i + 1 \in 0 .. n
      OBVIOUS
    <3>2. g[i + 1] = 256 * g[i] + bytes[n - (i + 1) + 1] /\ bytes[n - (i + 1) + 1] \in Nat
      BY <1>2, <1>7, <3>1, SMTT(30)
    <3> QED  BY <2>2, <3>1, <3>2, SMTT(30)
  <2>3. \A i \in 0 .. n : i \in G
    <3> HIDE DEF G
    <3>1. 0 \in Int /\ n \in Int
      OBVIOUS
    <3> QED  BY <2>1, <2>2, <3>1, Climb
  <2> QED  BY <2>3
<1>9. Number(bytes, g)
  <2> HIDE DEF g
  <2>1. g \in [0 .. n -> Nat]
    BY <1>6, <1>8
  <2> QED  BY <1>1, <1>7, <2>1 DEF Number
<1>10. FromBytes(bytes) = g[n]
  BY <1>1 DEF FromBytes
<1> QED  BY <1>1, <1>9, <1>10

LEMMA FromBytesType ==
  ASSUME NEW bytes \in Seq(0 .. 255)
  PROVE  FromBytes(bytes) \in Nat
<1>1. PICK f : Number(bytes, f) /\ FromBytes(bytes) = f[Len(bytes)]
  BY FromBytesDefined
<1>2. Len(bytes) \in 0 .. Len(bytes)
  OBVIOUS
<1> QED  BY <1>1, <1>2 DEF Number

(* The bytes of a number that was made of bytes are these, and zeros.      *)
LEMMA BytesOfBytes ==
  ASSUME NEW bytes \in Seq(0 .. 255), NEW n \in Nat, Len(bytes) <= n
  PROVE  \A k \in 1 .. n : Bytes(FromBytes(bytes), n)[k] = IF k <= Len(bytes) THEN bytes[k] ELSE 0
<1>1. PICK f : Number(bytes, f) /\ FromBytes(bytes) = f[Len(bytes)]
  BY FromBytesDefined
<1>2. PICK m \in Nat : m = Len(bytes) /\ DOMAIN bytes = 1 .. m
  OBVIOUS
<1>3. PICK v \in Nat : v = FromBytes(bytes) /\ v = f[m]
  BY <1>1, <1>2, FromBytesType
<1>4. PICK r : Rest(v, n, r) /\ Bytes(v, n) = [i \in 1 .. n |-> r[i] % 256]
  BY BytesDefined
<1>5. f[0] = 0 /\ \A i \in 0 .. m : f[i] \in Nat
  BY <1>1, <1>2 DEF Number
<1>6. \A i \in 1 .. m : f[i] = 256 * f[i - 1] + bytes[m - i + 1]
  BY <1>1, <1>2 DEF Number
<1>7. \A k \in 1 .. m : bytes[k] \in 0 .. 255
  BY <1>2
<1> DEFINE G == {k \in 1 .. n : r[k] = IF k <= m THEN f[m - k + 1] ELSE 0}
<1>8. 1 <= n => 1 \in G
  <2>1. ASSUME 1 <= n
        PROVE  r[1] = IF 1 <= m THEN f[m - 1 + 1] ELSE 0
    <3>1. r[1] = v
      BY <1>4, <2>1 DEF Rest
    <3>2. CASE 1 <= m
      <4>1. m - 1 + 1 = m
        OBVIOUS
      <4> QED  BY <1>3, <3>1, <3>2, <4>1
    <3>3. CASE ~ (1 <= m)
      <4>1. m = 0
        BY <3>3
      <4> QED  BY <1>3, <1>5, <3>1, <3>3, <4>1
    <3> QED  BY <3>2, <3>3
  <2> QED  BY <2>1
<1>9. ASSUME NEW k \in 1 .. n - 1, k \in G
      PROVE  k + 1 \in G
  <2>1. k + 1 \in 2 .. n /\ k + 1 \in 1 .. n /\ (k + 1) - 1 = k
    OBVIOUS
  <2>2. r[k + 1] = r[k] \div 256
    BY <1>4, <2>1 DEF Rest
  <2>3. CASE k <= m
    <3>1. m - k + 1 \in 1 .. m /\ (m - k + 1) - 1 = m - k /\ m - k \in 0 .. m
          /\ m - (m - k + 1) + 1 = k /\ k \in 1 .. m
      BY <2>3
    <3>2. r[k] = f[m - k + 1]
      BY <1>9, <2>3
    <3>3. f[m - k + 1] = 256 * f[m - k] + bytes[k]
      BY <1>6, <3>1
    <3>4. r[k + 1] = f[m - k]
      <4>1. f[m - k] \in Nat /\ bytes[k] \in 0 .. 255
        BY <1>5, <1>7, <3>1
      <4>2. (256 * f[m - k] + bytes[k]) \div 256 = f[m - k]
        BY <4>1, TakeByte, ZenonT(30)
      <4> QED  BY <2>2, <3>2, <3>3, <4>2
    <3>5. CASE k + 1 <= m
      <4>1. m - (k + 1) + 1 = m - k
        OBVIOUS
      <4> QED  BY <2>1, <3>4, <3>5, <4>1
    <3>6. CASE ~ (k + 1 <= m)
      <4>1. m - k = 0
        BY <2>3, <3>6
      <4> QED  BY <1>5, <2>1, <3>4, <3>6, <4>1
    <3> QED  BY <3>5, <3>6
  <2>4. CASE ~ (k <= m)
    <3>1. r[k] = 0 /\ ~ (k + 1 <= m) /\ 0 \div 256 = 0
      BY <1>9, <2>4
    <3> QED  BY <2>1, <2>2, <3>1
  <2> QED  BY <2>3, <2>4
<1>10. \A k \in 1 .. n : k \in G
  <2> HIDE DEF G
  <2>1. 1 \in Int /\ n \in Int
    OBVIOUS
  <2> QED  BY <1>8, <1>9, <2>1, Climb
<1>11. ASSUME NEW k \in 1 .. n
       PROVE  r[k] % 256 = IF k <= m THEN bytes[k] ELSE 0
  <2>1. r[k] = IF k <= m THEN f[m - k + 1] ELSE 0
    BY <1>10
  <2>2. CASE k <= m
    <3>1. m - k + 1 \in 1 .. m /\ (m - k + 1) - 1 = m - k /\ m - k \in 0 .. m
          /\ m - (m - k + 1) + 1 = k /\ k \in 1 .. m
      BY <2>2
    <3>2. f[m - k + 1] = 256 * f[m - k] + bytes[k]
      BY <1>6, <3>1
    <3>3. f[m - k] \in Nat /\ bytes[k] \in 0 .. 255
      BY <1>5, <1>7, <3>1
    <3>4. (256 * f[m - k] + bytes[k]) % 256 = bytes[k]
      BY <3>3, TakeByte, ZenonT(30)
    <3> QED  BY <2>1, <2>2, <3>2, <3>4
  <2>3. CASE ~ (k <= m)
    <3>1. 0 % 256 = 0
      OBVIOUS
    <3> QED  BY <2>1, <2>3, <3>1
  <2> QED  BY <2>2, <2>3
<1> QED  BY <1>2, <1>3, <1>4, <1>11


-----------------------------------------------------------------------------
(* A buffer that is written as a hex file, line by line, and loaded again. *)

(* The words of a buffer: the i-th one, how many there are, and how many   *)
(* of them are on line l.                                                  *)
WordOfBuffer(i) ==
  WordOf(SubSeq(written, 4 * (i - 1) + 1, IF 4 * i < Len(written) THEN 4 * i ELSE Len(written)))
BufferWords == (Len(written) + 3) \div 4
WordsOnLine(l) == IF 4 * l <= BufferWords THEN 4 ELSE BufferWords - 4 * (l - 1)
Padded(i) == IF i <= Len(written) THEN written[i] ELSE 0

(* What WriteHexFile makes of the part of the buffer that goes to line l.  *)
IsLine(words, l) ==
  /\ words \in Seq(AWord)
  /\ Len(words) = 1 + WordsOnLine(l)
  /\ words[1] = Address(16 * (l - 1))
  /\ \A k \in 1 .. WordsOnLine(l) : words[k + 1] = WordOfBuffer(4 * (l - 1) + k)

(* As long as it is written the file has all lines so far; what is loaded  *)
(* of it is the words passed.                                              *)
WordsPassed ==
  IF 4 * (line - 1) > BufferWords THEN BufferWords
  ELSE 4 * (line - 1) + (IF place = 0 THEN 0 ELSE place - 1)
FileWritten ==
  /\ written \in Buffers
  /\ phase \in {"write", "load", "loaded"}
  /\ hex_file \in Seq(Seq(AWord))
  /\ \A l \in DOMAIN hex_file : IsLine(hex_file[l], l)
  /\ phase = "write" => /\ bytes_written = 16 * Len(hex_file) /\ bytes_written <= Len(written)
                        /\ line = 1 /\ place = 0 /\ starting_address = 0 /\ current_offset = 0 /\ data = <<>>
  /\ phase # "write" => /\ 4 * Len(hex_file) >= BufferWords /\ 4 * Len(hex_file) < BufferWords + 4
                        /\ line \in 1 .. Len(hex_file) + 1 /\ place \in Nat
                        /\ line <= Len(hex_file) => place <= Len(hex_file[line])
                        /\ line > Len(hex_file) => place = 0
                        /\ phase = "loaded" => line > Len(hex_file)
                        /\ starting_address = 0
                        /\ current_offset = 4 * WordsPassed
                        /\ data \in Seq(0 .. 255) /\ Len(data) = 4 * WordsPassed
                        /\ \A i \in 1 .. Len(data) : data[i] = Padded(i)
WrittenInv == written # Typed => FileWritten


LEMMA BufferType ==
  ASSUME written \in Buffers
  PROVE  /\ written \in Seq(0 .. 255) /\ Len(written) \in Nat /\ written # Typed
         /\ BufferWords \in Nat /\ 4 * BufferWords >= Len(written) /\ 4 * BufferWords < Len(written) + 4
<1>1. written \in Seq(0 .. 255)
  BY HexFileAssumption
<1>2. Len(written) \in Nat
  BY <1>1
<1>3. \A n \in Nat : (n + 3) \div 4 \in Nat /\ 4 * ((n + 3) \div 4) >= n /\ 4 * ((n + 3) \div 4) < n + 4
  BY Z3
<1>4. written # Typed
  <2>1. ASSUME written = Typed
        PROVE  FALSE
    <3>1. Len(written) = 1 /\ written[1] = -1
      BY <2>1 DEF Typed
    <3>2. 1 \in 1 .. Len(written)
      BY <3>1
    <3>3. written[1] \in 0 .. 255
      BY <1>1, <3>2, ElementOfSeq
    <3> QED  BY <3>1, <3>3
  <2> QED  BY <2>1
<1> QED  BY <1>1, <1>2, <1>3, <1>4 DEF BufferWords

(* The bytes of a word are those of the buffer, with zeros behind it.      *)
LEMMA BufferWord ==
  ASSUME written \in Buffers, NEW i \in 1 .. BufferWords
  PROVE  /\ WordOfBuffer(i) \in AWord
         /\ WordOfBuffer(i).size = 8 /\ WordOfBuffer(i).colon = FALSE /\ WordOfBuffer(i).value \in Nat
         /\ \A j \in 1 .. 4 : Bytes(WordOfBuffer(i).value, 4)[j] = Padded(4 * (i - 1) + j)
<1>1. PICK n \in Nat : n = Len(written) /\ DOMAIN written = 1 .. n /\ written \in Seq(0 .. 255)
  BY BufferType
<1>2. i \in Nat /\ i >= 1 /\ 4 * i < n + 4
  BY <1>1, BufferType
<1>3. PICK last \in Nat : last = (IF 4 * i < n THEN 4 * i ELSE n)
  <2>1. 4 * i \in Nat
    BY <1>2
  <2> QED  BY <2>1
<1> DEFINE first == 4 * (i - 1) + 1
           part == SubSeq(written, first, last)
<1>4. first \in 1 .. n /\ last \in 1 .. n /\ first <= last /\ last - first + 1 \in 1 .. 4
  BY <1>1, <1>2, <1>3
<1>5. part \in Seq(0 .. 255) /\ Len(part) = last - first + 1
      /\ \A j \in 1 .. Len(part) : part[j] = written[first + j - 1]
  <2>1. \A j \in first .. last : written[j] \in 0 .. 255
    <3>1. \A j \in first .. last : j \in 1 .. Len(written)
      BY <1>1, <1>4
    <3> QED  BY <1>1, <3>1, ElementOfSeq
  <2>2. first \in Int /\ last \in Int /\ first <= last
    BY <1>4
  <2> HIDE DEF first
  <2> QED  BY <2>1, <2>2, SubSeqProperties
<1>6. FromBytes(part) \in Nat
  BY <1>5, FromBytesType
<1>7. WordOfBuffer(i) = [value |-> FromBytes(part), size |-> 8, colon |-> FALSE]
  BY <1>1, <1>3 DEF WordOfBuffer, WordOf
<1>8. ASSUME NEW j \in 1 .. 4
      PROVE  Bytes(FromBytes(part), 4)[j] = Padded(4 * (i - 1) + j)
  <2>1. Bytes(FromBytes(part), 4)[j] = IF j <= Len(part) THEN part[j] ELSE 0
    <3> HIDE DEF part, first
    <3>1. 4 \in Nat /\ Len(part) <= 4
      BY <1>4, <1>5
    <3> QED  BY <1>5, <3>1, BytesOfBytes
  <2>2. CASE j <= Len(part)
    <3>1. part[j] = written[4 * (i - 1) + j] /\ 4 * (i - 1) + j <= n
      <4>1. j \in 1 .. Len(part) /\ first + j - 1 = 4 * (i - 1) + j /\ first + j - 1 <= n
        BY <1>2, <1>4, <1>5, <2>2
      <4>2. part[j] = written[first + j - 1]
        BY <1>5, <4>1
      <4> HIDE DEF part, first
      <4> QED  BY <4>1, <4>2
    <3> HIDE DEF part, first
    <3> QED  BY <1>1, <2>1, <2>2, <3>1 DEF Padded
  <2>3. CASE ~ (j <= Len(part))
    <3>1. ~ (4 * (i - 1) + j <= n)
      BY <1>2, <1>3, <1>4, <1>5, <2>3
    <3> HIDE DEF part, first
    <3> QED  BY <1>1, <2>1, <2>3, <3>1 DEF Padded
  <2> QED  BY <2>2, <2>3
<1> HIDE DEF part
<1>9. WordOfBuffer(i) \in AWord
  BY <1>6, <1>7 DEF AWord
<1> QED  BY <1>6, <1>7, <1>8, <1>9

(* A line of the words left, at most four of them.                         *)
LEMMA LineMade ==
  ASSUME written \in Buffers, NEW n \in Nat, bytes_written = 16 * n, 4 * n <= BufferWords,
         NEW m \in Nat, m = WordsOnLine(n + 1)
  PROVE  IsLine(<<Address(bytes_written)>> \o [k \in 1 .. m |-> WordAt(k)], n + 1)
<1> DEFINE words == [k \in 1 .. m |-> WordAt(k)]
           text == <<Address(bytes_written)>> \o words
<1>1. BufferWords \in Nat /\ m <= 4 /\ 4 * n + m <= BufferWords
  BY BufferType DEF WordsOnLine
<1>2. ASSUME NEW k \in 1 .. m
      PROVE  WordAt(k) = WordOfBuffer(4 * n + k) /\ WordAt(k) \in AWord
  <2>1. /\ bytes_written + 4 * (k - 1) + 1 = 4 * (4 * n + k - 1) + 1
        /\ bytes_written + 4 * k = 4 * (4 * n + k)
        /\ 4 * n + k \in 1 .. BufferWords
    BY <1>1
  <2>2. WordAt(k) = WordOfBuffer(4 * n + k)
    BY <2>1 DEF WordAt, WordOfBuffer, sizeof_uint32_t
  <2> QED  BY <2>1, <2>2, BufferWord
<1>3. Address(bytes_written) \in AWord /\ Address(bytes_written) = Address(16 * ((n + 1) - 1))
  BY DEF Address, AWord
<1>4. words \in Seq(AWord) /\ Len(words) = m /\ \A k \in 1 .. m : words[k] = WordAt(k)
  <2>1. words \in [1 .. m -> AWord]
    BY <1>2
  <2> QED  BY <2>1
<1> HIDE DEF words
<1>5. <<Address(bytes_written)>> \in Seq(AWord) /\ Len(<<Address(bytes_written)>>) = 1
  BY <1>3
<1>6. text \in Seq(AWord) /\ Len(text) = 1 + m /\ text[1] = Address(bytes_written)
      /\ \A k \in 1 .. m : text[k + 1] = words[k]
  BY <1>4, <1>5
<1> HIDE DEF text
<1>7. \A k \in 1 .. m : text[k + 1] = WordOfBuffer(4 * ((n + 1) - 1) + k)
  <2>1. (n + 1) - 1 = n
    OBVIOUS
  <2> QED  BY <1>2, <1>4, <1>6, <2>1
<1>8. IsLine(text, n + 1)
  BY <1>3, <1>6, <1>7 DEF IsLine
<1> QED  BY <1>8 DEF text, words

(* What PushBack makes of the data.                                        *)
IsPushed(d, value, n) ==
  /\ d \in Seq(0 .. 255) /\ Len(d) = current_offset + n
  /\ \A i \in 1 .. Len(data) : d[i] = data[i]
  /\ \A i \in Len(data) + 1 .. current_offset : d[i] = 0
  /\ \A j \in 1 .. n : d[current_offset + j] = Bytes(value, n)[j]
LEMMA Pushed ==
  ASSUME data \in Seq(0 .. 255), current_offset \in Nat, Len(data) <= current_offset,
         NEW value \in Nat, NEW n \in Nat
  PROVE  IsPushed(PushBack(value, n), value, n)
<1> DEFINE d == PushBack(value, n)
           b == Bytes(value, n)
           gap == current_offset - Len(data)
           z == Zeros(gap)
<1>1. Len(data) \in Nat /\ gap \in Nat
  OBVIOUS
<1>2. b \in Seq(0 .. 255) /\ Len(b) = n
  BY BytesType
<1>3. z \in Seq(0 .. 255) /\ Len(z) = gap /\ \A i \in 1 .. gap : z[i] = 0
  <2>1. z = [i \in 1 .. gap |-> 0]
    BY DEF Zeros
  <2>2. z \in [1 .. gap -> 0 .. 255]
    <3>1. [i \in 1 .. gap |-> 0] \in [1 .. gap -> 0 .. 255]
      OBVIOUS
    <3> HIDE DEF z
    <3> QED  BY <2>1, <3>1
  <2> HIDE DEF z, gap
  <2>3. z \in Seq(0 .. 255) /\ Len(z) = gap
    BY <1>1, <2>2
  <2> QED  BY <2>1, <2>3
<1>4. CASE current_offset > Len(data)
  <2>1. d = (data \o z) \o b
    BY <1>4 DEF PushBack
  <2> HIDE DEF d, b, z
  <2>2. PICK c : c = data \o z
    OBVIOUS
  <2>3. c \in Seq(0 .. 255) /\ Len(c) = current_offset
        /\ (\A i \in 1 .. Len(data) : c[i] = data[i])
        /\ (\A i \in Len(data) + 1 .. current_offset : c[i] = z[i - Len(data)])
    BY <1>1, <1>3, <2>2
  <2>4. \A i \in Len(data) + 1 .. current_offset : c[i] = 0
    BY <1>3, <2>3
  <2>5. d \in Seq(0 .. 255) /\ Len(d) = current_offset + n
        /\ (\A i \in 1 .. current_offset : d[i] = c[i])
        /\ (\A j \in 1 .. n : d[current_offset + j] = b[j])
    <3>1. /\ c \o b \in Seq(0 .. 255) /\ Len(c \o b) = current_offset + n
          /\ \A i \in 1 .. current_offset + n :
               (c \o b)[i] = IF i <= current_offset THEN c[i] ELSE b[i - current_offset]
      <4>1. c \in Seq(0 .. 255) /\ b \in Seq(0 .. 255)
        BY <1>2, <2>3
      <4>2. /\ c \o b \in Seq(0 .. 255) /\ Len(c \o b) = Len(c) + Len(b)
            /\ \A i \in 1 .. Len(c) + Len(b) : (c \o b)[i] = IF i <= Len(c) THEN c[i] ELSE b[i - Len(c)]
        BY <4>1, ConcatProperties
      <4>3. Len(c) = current_offset /\ Len(b) = n
        BY <1>2, <2>3
      <4> QED  BY <4>2, <4>3
    <3>2. \A i \in 1 .. current_offset : i \in 1 .. current_offset + n /\ i <= current_offset
      OBVIOUS
    <3>3. \A j \in 1 .. n : /\ current_offset + j \in 1 .. current_offset + n
                          /\ ~ (current_offset + j <= current_offset) /\ (current_offset + j) - current_offset = j
      OBVIOUS
    <3> QED  BY <2>1, <2>2, <3>1, <3>2, <3>3
  <2>6. \A i \in 1 .. Len(data) : i \in 1 .. current_offset
    OBVIOUS
  <2>7. \A i \in Len(data) + 1 .. current_offset : i \in 1 .. current_offset
    OBVIOUS
  <2> QED  BY <2>3, <2>4, <2>5, <2>6, <2>7 DEF d, b, IsPushed
<1>5. CASE ~ (current_offset > Len(data))
  <2>1. d = data \o b /\ current_offset = Len(data)
    BY <1>5 DEF PushBack
  <2> HIDE DEF d, b, z
  <2>2. d \in Seq(0 .. 255) /\ Len(d) = current_offset + n
        /\ (\A i \in 1 .. Len(data) : d[i] = data[i])
        /\ (\A j \in 1 .. n : d[current_offset + j] = b[j])
    <3>1. /\ data \o b \in Seq(0 .. 255) /\ Len(data \o b) = current_offset + n
          /\ \A i \in 1 .. current_offset + n :
               (data \o b)[i] = IF i <= current_offset THEN data[i] ELSE b[i - current_offset]
      BY <1>2, <2>1, ConcatProperties, ZenonT(30)
    <3>2. \A i \in 1 .. Len(data) : i \in 1 .. current_offset + n /\ i <= current_offset
      BY <2>1
    <3>3. \A j \in 1 .. n : /\ current_offset + j \in 1 .. current_offset + n
                          /\ ~ (current_offset + j <= current_offset) /\ (current_offset + j) - current_offset = j
      OBVIOUS
    <3> QED  BY <2>1, <3>1, <3>2, <3>3
  <2>3. \A i \in Len(data) + 1 .. current_offset : d[i] = 0
    BY <2>1
  <2> QED  BY <2>2, <2>3 DEF d, b, IsPushed
<1> QED  BY <1>4, <1>5

(* What is said of a buffer does not change as long as it is the same.     *)
LEMMA BufferStays ==
  ASSUME written' = written
  PROVE  /\ BufferWords' = BufferWords
         /\ \A l : WordsOnLine(l)' = WordsOnLine(l)
         /\ \A i : WordOfBuffer(i)' = WordOfBuffer(i) /\ Padded(i)' = Padded(i)
         /\ \A words, l : IsLine(words, l)' = IsLine(words, l)
<1>1. BufferWords' = BufferWords
  BY DEF BufferWords
<1>2. \A l : WordsOnLine(l)' = WordsOnLine(l)
  BY <1>1 DEF WordsOnLine
<1>3. \A i : WordOfBuffer(i)' = WordOfBuffer(i)
  BY DEF WordOfBuffer, WordOf
<1>4. \A i : Padded(i)' = Padded(i)
  BY DEF Padded
<1>5. \A words, l : IsLine(words, l)' = IsLine(words, l)
  BY <1>2, <1>3 DEF IsLine
<1> QED  BY <1>1, <1>2, <1>3, <1>4, <1>5

(* Numbers of a line that is there while the file is loaded.               *)
LEMMA LineThere ==
  ASSUME FileWritten, phase = "load", line <= Len(hex_file)
  PROVE  /\ Len(hex_file) \in Nat /\ line \in 1 .. Len(hex_file) /\ line \in DOMAIN hex_file
         /\ BufferWords \in Nat /\ 4 * (line - 1) < BufferWords
         /\ WordsOnLine(line) \in 1 .. 4 /\ 4 * (line - 1) + WordsOnLine(line) <= BufferWords
         /\ WordsPassed = 4 * (line - 1) + (IF place = 0 THEN 0 ELSE place - 1)
         /\ IsLine(hex_file[line], line) /\ Len(hex_file[line]) = 1 + WordsOnLine(line)
         /\ hex_file[line] # <<>>
<1>1. /\ hex_file \in Seq(Seq(AWord)) /\ written \in Buffers
      /\ 4 * Len(hex_file) >= BufferWords /\ 4 * Len(hex_file) < BufferWords + 4
      /\ line \in 1 .. Len(hex_file) + 1
      /\ \A l \in DOMAIN hex_file : IsLine(hex_file[l], l)
  BY DEF FileWritten
<1>2. PICK n \in Nat : n = Len(hex_file) /\ DOMAIN hex_file = 1 .. n
  BY <1>1
<1>3. BufferWords \in Nat
  BY <1>1, BufferType
<1>4. line \in 1 .. n /\ 4 * (line - 1) < BufferWords
  BY <1>1, <1>2, <1>3
<1>5. WordsOnLine(line) \in 1 .. 4 /\ 4 * (line - 1) + WordsOnLine(line) <= BufferWords
  BY <1>3, <1>4 DEF WordsOnLine
<1>6. WordsPassed = 4 * (line - 1) + (IF place = 0 THEN 0 ELSE place - 1)
  BY <1>3, <1>4 DEF WordsPassed
<1>7. IsLine(hex_file[line], line)
  BY <1>1, <1>2, <1>4
<1>8. Len(hex_file[line]) = 1 + WordsOnLine(line)
  BY <1>7 DEF IsLine
<1>9. hex_file[line] # <<>>
  <2>1. ASSUME hex_file[line] = <<>>
        PROVE  FALSE
    BY <1>5, <1>8, <2>1
  <2> QED  BY <2>1
<1> QED  BY <1>2, <1>3, <1>4, <1>5, <1>6, <1>7, <1>8, <1>9

(* A line more is written.                                                 *)
LEMMA WrittenOn ==
  ASSUME FileWritten, phase = "write", written # Typed, WriteLine \/ WriteLastLine
  PROVE  FileWritten'
<1>1. /\ hex_file \in Seq(Seq(AWord)) /\ written \in Buffers
      /\ bytes_written = 16 * Len(hex_file) /\ bytes_written <= Len(written)
      /\ line = 1 /\ place = 0 /\ starting_address = 0 /\ current_offset = 0 /\ data = <<>>
      /\ \A l \in DOMAIN hex_file : IsLine(hex_file[l], l)
  BY DEF FileWritten
<1>2. PICK n \in Nat : n = Len(hex_file) /\ DOMAIN hex_file = 1 .. n /\ bytes_written = 16 * n
  BY <1>1
<1>3. PICK size \in Nat : size = Len(written) /\ 16 * n <= size
  BY <1>1, <1>2, BufferType
<1>4. BufferWords \in Nat /\ 4 * BufferWords >= size /\ 4 * BufferWords < size + 4 /\ 4 * n <= BufferWords
  BY <1>1, <1>3, BufferType
<1>5. written' = written /\ UNCHANGED loader_vars
  BY DEF WriteLine, WriteLastLine
<1>6. written' \in Buffers /\ line' = 1 /\ place' = 0 /\ starting_address' = 0 /\ current_offset' = 0 /\ data' = <<>>
  BY <1>1, <1>5 DEF loader_vars
(* Appending a line.                                                       *)
<1> DEFINE Appended(text) == hex_file' = Append(hex_file, text)
<1>7. ASSUME NEW text, IsLine(text, n + 1), Appended(text)
      PROVE  /\ hex_file' \in Seq(Seq(AWord)) /\ Len(hex_file') = n + 1
             /\ \A l \in DOMAIN hex_file' : IsLine(hex_file[l], l)'
  <2>1. text \in Seq(AWord)
    BY <1>7 DEF IsLine
  <2>2. hex_file' \in Seq(Seq(AWord)) /\ Len(hex_file') = n + 1 /\ DOMAIN hex_file' = 1 .. n + 1
        /\ (\A l \in 1 .. n : hex_file'[l] = hex_file[l]) /\ hex_file'[n + 1] = text
    BY <1>1, <1>2, <1>7, <2>1
  <2>3. \A l \in 1 .. n + 1 : IsLine(hex_file'[l], l)
    <3>1. \A l \in 1 .. n + 1 : l \in 1 .. n \/ l = n + 1
      OBVIOUS
    <3> QED  BY <1>1, <1>2, <1>7, <2>2, <3>1
  <2>4. ASSUME NEW l \in 1 .. n + 1
        PROVE  IsLine(hex_file[l], l)'
    <3> QED  BY <2>3, <1>5, BufferStays DEF IsLine
  <2> QED  BY <2>2, <2>4
<1>8. CASE WriteLine
  <2>1. 16 * n + 16 <= size /\ bytes_written' = 16 * n + 16 /\ phase' = "write"
    BY <1>2, <1>3, <1>8 DEF WriteLine, bytes_per_line, sizeof_uint32_t, words_per_line
  <2>2. WordsOnLine(n + 1) = 4
    BY <1>4, <2>1 DEF WordsOnLine
  <2>3. PICK text : text = <<Address(bytes_written)>> \o [k \in 1 .. words_per_line |-> WordAt(k)]
    OBVIOUS
  <2>4. IsLine(text, n + 1)
    BY <1>1, <1>2, <1>4, <2>2, <2>3, LineMade DEF words_per_line
  <2>5. Appended(text)
    BY <1>8, <2>3 DEF WriteLine
  <2>6. hex_file' \in Seq(Seq(AWord)) /\ Len(hex_file') = n + 1
        /\ \A l \in DOMAIN hex_file' : IsLine(hex_file[l], l)'
    BY <1>7, <2>4, <2>5
  <2>7. bytes_written' = 16 * Len(hex_file') /\ bytes_written' <= Len(written')
    BY <1>3, <1>5, <2>1, <2>6
  <2> QED  BY <1>6, <2>1, <2>6, <2>7 DEF FileWritten
<1>9. CASE WriteLastLine
  <2>1. 16 * n + 16 > size /\ phase' = "load"
    BY <1>2, <1>3, <1>9 DEF WriteLastLine, bytes_per_line, sizeof_uint32_t, words_per_line
  <2>2. /\ hex_file' \in Seq(Seq(AWord))
        /\ \A l \in DOMAIN hex_file' : IsLine(hex_file[l], l)'
        /\ 4 * Len(hex_file') >= BufferWords /\ 4 * Len(hex_file') < BufferWords + 4
    <3>1. CASE 16 * n < size
      <4>1. WordsLeft = WordsOnLine(n + 1) /\ WordsLeft \in Nat
        <5>1. WordsLeft = ((size - 16 * n) + 3) \div 4
          BY <1>2, <1>3 DEF WordsLeft, sizeof_uint32_t
        <5>2. BufferWords = (size + 3) \div 4
          BY <1>3 DEF BufferWords
        <5>3. ((size - 16 * n) + 3) \div 4 = (size + 3) \div 4 - 4 * n
          BY <1>3, Z3
        <5> QED  BY <1>4, <2>1, <5>1, <5>2, <5>3 DEF WordsOnLine
      <4>2. PICK text : text = <<Address(bytes_written)>> \o [k \in 1 .. WordsLeft |-> WordAt(k)]
        OBVIOUS
      <4>3. IsLine(text, n + 1)
        <5>1. PICK m \in Nat : m = WordsLeft
          BY <4>1
        <5> QED  BY <1>1, <1>2, <1>4, <4>1, <4>2, <5>1, LineMade
      <4>4. Appended(text)
        BY <1>2, <1>3, <1>9, <3>1, <4>2 DEF WriteLastLine, LastLine
      <4> QED  BY <1>4, <1>7, <2>1, <3>1, <4>3, <4>4
    <3>2. CASE ~ (16 * n < size)
      <4>1. hex_file' = hex_file
        BY <1>2, <1>3, <1>9, <3>2 DEF WriteLastLine
      <4>2. \A l \in DOMAIN hex_file' : IsLine(hex_file[l], l)'
        BY <1>1, <1>5, <4>1, BufferStays DEF IsLine
      <4> QED  BY <1>1, <1>2, <1>3, <1>4, <3>2, <4>1, <4>2
    <3> QED  BY <3>1, <3>2
  <2>3. PICK m \in Nat : m = Len(hex_file') /\ DOMAIN hex_file' = 1 .. m
    BY <2>2
  <2>4. WordsPassed' = 0
    <3>1. WordsPassed' = IF 0 > BufferWords THEN BufferWords ELSE 0
      BY <1>5, <1>6, BufferStays DEF WordsPassed
    <3> QED  BY <1>4, <3>1
  <2>5. BufferWords' = BufferWords
    BY <1>5, BufferStays
  <2>6. line' \in 1 .. m + 1 /\ (line' <= m => place' <= Len(hex_file'[line'])) /\ place' \in Nat
    <3>1. 1 <= m => Len(hex_file'[1]) \in Nat
      BY <2>2, <2>3
    <3> QED  BY <1>6, <2>3, <3>1
  <2>7. data' \in Seq(0 .. 255) /\ Len(data') = 0
    BY <1>6
  <2> QED  BY <1>6, <2>1, <2>2, <2>3, <2>4, <2>5, <2>6, <2>7 DEF FileWritten
<1> QED  BY <1>8, <1>9

(* Loading goes on: what a step has to keep.                               *)
LEMMA LoadingOn ==
  ASSUME FileWritten, phase = "load", Loading,
         phase' \in {"load", "loaded"},
         line' \in 1 .. Len(hex_file) + 1, place' \in Nat,
         line' <= Len(hex_file) => place' <= Len(hex_file[line']),
         line' > Len(hex_file) => place' = 0,
         phase' = "loaded" => line' > Len(hex_file),
         starting_address' = 0, current_offset' = 4 * WordsPassed', data' \in Seq(0 .. 255),
         Len(data') = 4 * WordsPassed', \A i \in 1 .. Len(data') : data'[i] = Padded(i)
  PROVE  FileWritten'
<1>1. hex_file' = hex_file /\ written' = written
  BY DEF Loading
<1>2. \A l \in DOMAIN hex_file' : IsLine(hex_file[l], l)'
  BY <1>1, BufferStays, SMTT(30) DEF FileWritten, IsLine
<1>3. \A i \in 1 .. Len(data') : data'[i] = Padded(i)'
  BY <1>1, BufferStays DEF Padded
<1>4. BufferWords' = BufferWords
  BY <1>1, BufferStays
<1>5. phase' # "write" /\ 4 * Len(hex_file) >= BufferWords /\ 4 * Len(hex_file) < BufferWords + 4
      /\ hex_file \in Seq(Seq(AWord)) /\ written \in Buffers
  BY DEF FileWritten
<1> QED  BY <1>1, <1>2, <1>3, <1>4, <1>5 DEF FileWritten

LEMMA WrittenReadAddress ==
  ASSUME FileWritten, phase = "load", ReadAddress
  PROVE  FileWritten'
<1>1. /\ Loading /\ line <= Len(hex_file) /\ place = 0
      /\ line' = line /\ data' = data /\ place' = 1
  BY DEF ReadAddress, AtLineStart
<1>2. /\ Len(hex_file) \in Nat /\ line \in 1 .. Len(hex_file) /\ line \in DOMAIN hex_file
      /\ BufferWords \in Nat /\ 4 * (line - 1) < BufferWords
      /\ WordsOnLine(line) \in 1 .. 4
      /\ WordsPassed = 4 * (line - 1)
      /\ IsLine(hex_file[line], line) /\ Len(hex_file[line]) = 1 + WordsOnLine(line)
      /\ hex_file[line] # <<>>
  <2>1. WordsPassed = 4 * (line - 1) + (IF place = 0 THEN 0 ELSE place - 1)
    BY <1>1, LineThere
  <2>2. /\ Len(hex_file) \in Nat /\ line \in 1 .. Len(hex_file) /\ line \in DOMAIN hex_file
        /\ BufferWords \in Nat /\ 4 * (line - 1) < BufferWords
        /\ WordsOnLine(line) \in 1 .. 4
        /\ IsLine(hex_file[line], line) /\ Len(hex_file[line]) = 1 + WordsOnLine(line)
        /\ hex_file[line] # <<>>
    BY <1>1, LineThere
  <2> QED  BY <1>1, <2>1, <2>2
<1>3. /\ starting_address = 0 /\ current_offset = 4 * WordsPassed
      /\ data \in Seq(0 .. 255) /\ Len(data) = 4 * WordsPassed
      /\ \A i \in 1 .. Len(data) : data[i] = Padded(i)
  BY DEF FileWritten
<1>4. FirstWord.value = 16 * (line - 1)
  BY <1>2 DEF FirstWord, IsLine, Address
<1>5. WordsPassed' = 4 * (line - 1)
  <2>1. BufferWords' = BufferWords
    BY <1>1, BufferStays DEF Loading
  <2> QED  BY <1>1, <1>2, <2>1 DEF WordsPassed
<1>6. phase' = "load" /\ starting_address' = 0 /\ current_offset' = 4 * WordsPassed
  <2>1. CASE line = 1
    BY <1>2, <1>3, <1>4, <2>1 DEF ReadAddress
  <2>2. CASE line # 1
    <3>1. line > 1 /\ starting_address < FirstWord.value
      BY <1>2, <1>3, <1>4, <2>2, SMTT(30)
    <3>2. current_offset' = OffsetOf(FirstWord.value) /\ UNCHANGED <<phase, starting_address>>
      BY <2>2, <3>1 DEF ReadAddress
    <3>3. current_offset' = 16 * (line - 1) - 0
      BY <1>3, <1>4, <3>2 DEF OffsetOf
    <3> QED  BY <1>2, <1>3, <3>2, <3>3
  <2> QED  BY <2>1, <2>2
<1>7. line' <= Len(hex_file) => place' <= Len(hex_file[line'])
  BY <1>1, <1>2
<1>8. line' \in 1 .. Len(hex_file) + 1 /\ ~ (line' > Len(hex_file)) /\ place' \in Nat
  BY <1>1, <1>2
<1>9. current_offset' = 4 * WordsPassed' /\ Len(data') = 4 * WordsPassed' /\ data' \in Seq(0 .. 255)
      /\ \A i \in 1 .. Len(data') : data'[i] = Padded(i)
  BY <1>1, <1>2, <1>3, <1>5, <1>6
<1> QED  BY <1>1, <1>6, <1>7, <1>8, <1>9, LoadingOn

LEMMA WrittenReadWord ==
  ASSUME FileWritten, phase = "load", ReadWord
  PROVE  FileWritten'
<1>1. /\ Loading /\ line <= Len(hex_file) /\ place \in 1 .. Len(hex_file[line]) - 1
      /\ line' = line /\ starting_address' = starting_address /\ place' = place + 1
  BY DEF ReadWord
<1>2. /\ Len(hex_file) \in Nat /\ line \in 1 .. Len(hex_file) /\ line \in DOMAIN hex_file
      /\ BufferWords \in Nat /\ 4 * (line - 1) < BufferWords
      /\ WordsOnLine(line) \in 1 .. 4 /\ 4 * (line - 1) + WordsOnLine(line) <= BufferWords
      /\ WordsPassed = 4 * (line - 1) + (IF place = 0 THEN 0 ELSE place - 1)
      /\ IsLine(hex_file[line], line) /\ Len(hex_file[line]) = 1 + WordsOnLine(line)
  BY <1>1, LineThere
<1>3. place \in 1 .. WordsOnLine(line) /\ WordsPassed = 4 * (line - 1) + (place - 1)
      /\ WordsPassed \in Nat
  <2>1. place \in 1 .. WordsOnLine(line)
    BY <1>1, <1>2, SMTT(30)
  <2> QED  BY <1>2, <2>1
<1>4. PICK i \in 1 .. BufferWords : i = 4 * (line - 1) + place
  <2>1. line \in Int /\ line >= 1 /\ WordsOnLine(line) \in Int /\ place \in Int /\ BufferWords \in Nat
        /\ 4 * (line - 1) + WordsOnLine(line) <= BufferWords /\ place >= 1 /\ place <= WordsOnLine(line)
    BY <1>2, <1>3
  <2>2. 4 * (line - 1) + place \in 1 .. BufferWords
    BY <2>1
  <2> QED  BY <2>2
<1>5. i \in Int /\ i >= 1 /\ WordsPassed = i - 1
  BY <1>2, <1>3, <1>4, SMTT(30)
<1>6. /\ written \in Buffers /\ starting_address = 0 /\ current_offset = 4 * WordsPassed
      /\ data \in Seq(0 .. 255) /\ Len(data) = 4 * WordsPassed
      /\ \A j \in 1 .. Len(data) : data[j] = Padded(j)
  BY DEF FileWritten
<1>7. PICK w : w = WordOfBuffer(i)
  OBVIOUS
<1>8. hex_file[line][place + 1] = w
  BY <1>2, <1>3, <1>4, <1>7 DEF IsLine
<1>9. /\ w \in AWord /\ w.size = 8 /\ w.colon = FALSE /\ w.value \in Nat
      /\ \A j \in 1 .. 4 : Bytes(w.value, 4)[j] = Padded(4 * (i - 1) + j)
  BY <1>5, <1>6, <1>7, BufferWord
<1>10. data' = PushBack(w.value, 4) /\ current_offset' = current_offset + 4 /\ phase' = phase
  <2>1. Push(w.value, w.size)
    BY <1>8, <1>9 DEF ReadWord
  <2>2. w.size \div 2 = 4
    BY <1>9
  <2> QED  BY <2>1, <2>2 DEF Push
<1>11. /\ data' \in Seq(0 .. 255) /\ Len(data') = current_offset + 4
       /\ \A j \in 1 .. Len(data) : data'[j] = data[j]
       /\ \A j \in 1 .. 4 : data'[current_offset + j] = Bytes(w.value, 4)[j]
  <2>1. data \in Seq(0 .. 255) /\ current_offset \in Nat /\ Len(data) <= current_offset /\ 4 \in Nat
    BY <1>3, <1>6
  <2>2. PICK v \in Nat : v = w.value
    BY <1>9
  <2>3. IsPushed(PushBack(v, 4), v, 4)
    BY <2>1, Pushed
  <2> QED  BY <1>10, <2>2, <2>3 DEF IsPushed
<1>12. WordsPassed' = i
  <2>1. BufferWords' = BufferWords
    BY <1>1, BufferStays DEF Loading
  <2>2. line \in Int /\ BufferWords \in Int /\ ~ (4 * (line - 1) > BufferWords)
    BY <1>2
  <2>3. place + 1 # 0 /\ (place + 1) - 1 = place
    BY <1>3
  <2>4. ~ (4 * (line' - 1) > BufferWords') /\ place' # 0 /\ place' - 1 = place
    BY <1>1, <2>1, <2>2, <2>3
  <2> QED  BY <1>1, <1>4, <2>4 DEF WordsPassed
<1>13. current_offset' = 4 * i /\ Len(data') = 4 * i
  <2>1. current_offset = 4 * (i - 1)
    BY <1>5, <1>6
  <2>2. 4 * (i - 1) + 4 = 4 * i
    BY <1>5
  <2> QED  BY <1>10, <1>11, <2>1, <2>2
<1>14. \A j \in 1 .. Len(data') : data'[j] = Padded(j)
  <2>1. \A j \in 1 .. 4 * i : j \in 1 .. Len(data) \/ (j - current_offset \in 1 .. 4 /\ current_offset + (j - current_offset) = j)
    BY <1>5, <1>6
  <2>2. ASSUME NEW j \in 1 .. 4 * i
        PROVE  data'[j] = Padded(j)
    <3>1. CASE j \in 1 .. Len(data)
      BY <1>6, <1>11, <3>1
    <3>2. CASE j - current_offset \in 1 .. 4 /\ current_offset + (j - current_offset) = j
      <4>1. PICK k \in 1 .. 4 : k = j - current_offset /\ current_offset + k = j
        BY <3>2
      <4>2. 4 * (i - 1) + k = j
        BY <1>5, <1>6, <4>1
      <4> QED  BY <1>9, <1>11, <4>1, <4>2, SMTT(30)
    <3> QED  BY <2>1, <3>1, <3>2
  <2> QED  BY <1>13, <2>2
<1>15. /\ line' \in 1 .. Len(hex_file) + 1 /\ ~ (line' > Len(hex_file)) /\ place' \in Nat
       /\ place' <= Len(hex_file[line'])
  <2>1. line \in 1 .. Len(hex_file) + 1 /\ ~ (line > Len(hex_file)) /\ place + 1 \in Nat
    BY <1>2, <1>3
  <2>2. place + 1 <= Len(hex_file[line])
    BY <1>2, <1>3, SMTT(30)
  <2> QED  BY <1>1, <2>1, <2>2
<1> QED  BY <1>1, <1>6, <1>10, <1>11, <1>12, <1>13, <1>14, <1>15, LoadingOn

LEMMA WrittenEndLine ==
  ASSUME FileWritten, phase = "load", EndLine
  PROVE  FileWritten'
<1>1. /\ Loading /\ line <= Len(hex_file) /\ place > 0 /\ place >= Len(hex_file[line])
      /\ line' = line + 1 /\ place' = 0
      /\ UNCHANGED <<phase, starting_address, current_offset, data>>
  BY DEF EndLine
<1>2. /\ Len(hex_file) \in Nat /\ line \in 1 .. Len(hex_file) /\ DOMAIN hex_file = 1 .. Len(hex_file)
      /\ BufferWords \in Nat /\ 4 * (line - 1) < BufferWords
      /\ WordsOnLine(line) \in 1 .. 4
      /\ WordsPassed = 4 * (line - 1) + (IF place = 0 THEN 0 ELSE place - 1)
      /\ Len(hex_file[line]) = 1 + WordsOnLine(line)
  <2>1. DOMAIN hex_file = 1 .. Len(hex_file)
    BY DEF FileWritten
  <2> QED  BY <1>1, <2>1, LineThere
<1>3. /\ hex_file \in Seq(Seq(AWord)) /\ place \in Nat /\ place <= Len(hex_file[line])
      /\ 4 * Len(hex_file) >= BufferWords
      /\ starting_address = 0 /\ current_offset = 4 * WordsPassed
      /\ data \in Seq(0 .. 255) /\ Len(data) = 4 * WordsPassed
      /\ \A i \in 1 .. Len(data) : data[i] = Padded(i)
  BY <1>1 DEF FileWritten
<1>4. WordsPassed = 4 * (line - 1) + WordsOnLine(line)
  BY <1>1, <1>2, <1>3, SMTT(30)
<1>5. WordsPassed' = WordsPassed
  <2>1. BufferWords' = BufferWords
    BY <1>1, BufferStays DEF Loading
  <2>2. WordsPassed' = IF 4 * line > BufferWords THEN BufferWords ELSE 4 * line
    BY <1>1, <1>2, <2>1 DEF WordsPassed
  <2> QED  BY <1>2, <1>4, <2>2 DEF WordsOnLine
<1>6. line' \in 1 .. Len(hex_file) + 1 /\ place' \in Nat
  BY <1>1, <1>2
<1>7. line' <= Len(hex_file) => place' <= Len(hex_file[line'])
  <2>1. ASSUME line' <= Len(hex_file)
        PROVE  Len(hex_file[line']) \in Nat
    BY <1>2, <1>3, <1>6, <2>1
  <2> QED  BY <1>1, <2>1
<1> QED  BY <1>1, <1>3, <1>5, <1>6, <1>7, LoadingOn

LEMMA WrittenReturn ==
  ASSUME FileWritten, phase = "load", Return
  PROVE  FileWritten'
<1>1. Loading /\ line > Len(hex_file) /\ phase' = "loaded" /\ UNCHANGED loader_vars
  BY DEF Return
<1>2. WordsPassed' = WordsPassed
  <2>1. BufferWords' = BufferWords
    BY <1>1, BufferStays DEF Loading
  <2> QED  BY <1>1, <2>1 DEF WordsPassed, loader_vars
<1> QED  BY <1>1, <1>2, LoadingOn DEF FileWritten, loader_vars

(* The first word of a line is its address, which is there.                *)
LEMMA WrittenHasAddresses ==
  ASSUME FileWritten, phase = "load"
  PROVE  ~ ReadFirstWord /\ ~ ReadNothing
<1>1. ASSUME AtLineStart
      PROVE  FirstWord = Address(16 * (line - 1))
  <2>1. line <= Len(hex_file)
    BY <1>1 DEF AtLineStart
  <2> QED  BY <2>1, LineThere DEF FirstWord, IsLine
<1>2. \A a : Address(a).colon /\ Address(a) # NoWord
  BY DEF Address, NoWord
<1> QED  BY <1>1, <1>2 DEF ReadFirstWord, ReadNothing

LEMMA WrittenInitially ==
  ASSUME HexInit
  PROVE  WrittenInv
<1>1. ASSUME written # Typed
      PROVE  FileWritten
  <2>1. /\ hex_file = <<>> /\ phase = "write" /\ written \in Buffers /\ bytes_written = 0
        /\ line = 1 /\ place = 0 /\ starting_address = 0 /\ current_offset = 0 /\ data = <<>>
    BY <1>1 DEF HexInit
  <2>2. Len(written) \in Nat
    BY <2>1, BufferType
  <2>3. hex_file \in Seq(Seq(AWord)) /\ Len(hex_file) = 0 /\ DOMAIN hex_file = {}
    BY <2>1
  <2> QED  BY <2>1, <2>2, <2>3 DEF FileWritten
<1> QED  BY <1>1 DEF WrittenInv

LEMMA WrittenStep ==
  ASSUME WrittenInv, [HexNext]_hex_vars
  PROVE  WrittenInv'
<1>1. written' = written
  BY DEF HexNext, hex_vars, WriteLine, WriteLastLine, Typing, TypeLine, TypeWord, Save, ReadAddress,
         ReadFirstWord, ReadNothing, AtLineStart, Loading, ReadWord, EndLine, Return, Done
<1>2. Typed' = Typed
  BY DEF Typed
<1> SUFFICES ASSUME written # Typed, FileWritten PROVE FileWritten'
  BY <1>1, <1>2 DEF WrittenInv
<1>3. CASE UNCHANGED hex_vars
  <2>1. \A l \in DOMAIN hex_file : IsLine(hex_file[l], l)'
    BY <1>3, BufferStays DEF FileWritten, IsLine, hex_vars
  <2>2. BufferWords' = BufferWords /\ WordsPassed' = WordsPassed
    BY <1>3, BufferStays DEF WordsPassed, hex_vars, loader_vars
  <2>3. \A i : Padded(i)' = Padded(i)
    BY <1>1, BufferStays
  <2> QED  BY <1>3, <2>1, <2>2, <2>3 DEF FileWritten, hex_vars, loader_vars
<1>4. CASE phase = "write"
  <2>1. ASSUME HexNext
        PROVE  WriteLine \/ WriteLastLine
    BY <1>4, <2>1 DEF HexNext, Typing, TypeLine, TypeWord, Save, ReadAddress,
         ReadFirstWord, ReadNothing, AtLineStart, Loading, ReadWord, EndLine, Return, Done
  <2> QED  BY <1>3, <1>4, <2>1, WrittenOn
<1>5. CASE phase = "load"
  <2>1. ASSUME HexNext
        PROVE  ReadAddress \/ ReadFirstWord \/ ReadNothing \/ ReadWord \/ EndLine \/ Return
    BY <1>5, <2>1 DEF HexNext, WriteLine, WriteLastLine, Typing, TypeLine, TypeWord, Save, Done
  <2> QED  BY <1>3, <1>5, <2>1, WrittenHasAddresses, WrittenReadAddress, WrittenReadWord, WrittenEndLine, WrittenReturn
<1>6. CASE phase = "loaded"
  <2>1. ASSUME HexNext
        PROVE  Done
    BY <1>6, <2>1 DEF HexNext, WriteLine, WriteLastLine, Typing, TypeLine, TypeWord, Save, ReadAddress,
         ReadFirstWord, ReadNothing, AtLineStart, Loading, ReadWord, EndLine, Return
  <2> QED  BY <1>3, <2>1 DEF Done
<1> QED  BY <1>4, <1>5, <1>6 DEF FileWritten

LEMMA WrittenIsLoaded ==
  ASSUME WrittenInv
  PROVE  WrittenLoadsAgain
<1> SUFFICES ASSUME written # Typed, phase \in {"loaded", "aborted", "undefined"}
             PROVE  /\ phase = "loaded"
                    /\ Len(data) % sizeof_uint32_t = 0
                    /\ Len(data) - Len(written) \in 0 .. sizeof_uint32_t - 1
                    /\ data = written \o Zeros(Len(data) - Len(written))
  BY DEF WrittenLoadsAgain
<1>1. FileWritten
  BY DEF WrittenInv
<1>2. /\ phase = "loaded" /\ written \in Buffers /\ hex_file \in Seq(Seq(AWord))
      /\ 4 * Len(hex_file) >= BufferWords /\ line = Len(hex_file) + 1 /\ place = 0
      /\ data \in Seq(0 .. 255) /\ Len(data) = 4 * WordsPassed
      /\ \A i \in 1 .. Len(data) : data[i] = Padded(i)
  BY <1>1 DEF FileWritten
<1>3. written \in Seq(0 .. 255) /\ BufferWords \in Nat /\ Len(written) \in Nat
      /\ 4 * BufferWords >= Len(written) /\ 4 * BufferWords < Len(written) + 4
  BY <1>2, BufferType
<1>4. Len(data) = 4 * BufferWords
  <2>1. PICK n \in Nat : n = Len(hex_file) /\ 4 * n >= BufferWords
    BY <1>2
  <2>2. line - 1 = n
    BY <1>2, <2>1
  <2>3. WordsPassed = BufferWords
    <3>1. WordsPassed = IF 4 * n > BufferWords THEN BufferWords ELSE 4 * n + 0
      BY <1>2, <2>2 DEF WordsPassed
    <3> QED  BY <1>3, <2>1, <3>1
  <2> QED  BY <1>2, <2>3
<1>5. PICK gap \in 0 .. 3 : gap = Len(data) - Len(written)
  BY <1>3, <1>4
<1>6. Len(data) % 4 = 0
  <2>1. \A b \in Nat : (4 * b) % 4 = 0
    BY Z3
  <2> QED  BY <1>3, <1>4, <2>1
<1>7. data = written \o Zeros(gap)
  <2>1. Zeros(gap) \in [1 .. gap -> 0 .. 255] /\ \A i \in 1 .. gap : Zeros(gap)[i] = 0
    BY DEF Zeros
  <2>2. PICK z : z = Zeros(gap)
    OBVIOUS
  <2>3. z \in Seq(0 .. 255) /\ Len(z) = gap /\ \A i \in 1 .. gap : z[i] = 0
    BY <2>1, <2>2
  <2>4. /\ written \o z \in Seq(0 .. 255) /\ Len(written \o z) = Len(written) + Len(z)
        /\ \A i \in 1 .. Len(written) + Len(z) :
             (written \o z)[i] = IF i <= Len(written) THEN written[i] ELSE z[i - Len(written)]
    BY <1>3, <2>3, ConcatProperties
  <2>5. Len(written \o z) = Len(data)
    BY <1>3, <1>4, <1>5, <2>3, <2>4
  <2>6. ASSUME NEW i \in 1 .. Len(data)
        PROVE  data[i] = (written \o z)[i]
    <3>1. CASE i <= Len(written)
      BY <1>2, <1>3, <1>5, <2>3, <2>4, <3>1 DEF Padded
    <3>2. CASE ~ (i <= Len(written))
      <4>1. i - Len(written) \in 1 .. gap
        BY <1>3, <1>5, <3>2
      <4>2. z[i - Len(written)] = 0
        BY <2>3, <4>1
      <4>3. (written \o z)[i] = z[i - Len(written)]
        BY <1>3, <1>5, <2>3, <2>4, <3>2
      <4> QED  BY <1>2, <3>2, <4>2, <4>3 DEF Padded
    <3> QED  BY <3>1, <3>2
  <2> QED  BY <1>2, <2>2, <2>4, <2>5, <2>6, SeqEqual, SMTT(30)
<1> QED  BY <1>2, <1>5, <1>6, <1>7 DEF sizeof_uint32_t

(* A buffer that WriteHexFile has written is what LoadHexFile makes of the *)
(* file, but for zeros behind it: whatever the buffer is.                  *)
THEOREM WrittenLoadsAgainCorrect == HexSpec => []WrittenLoadsAgain
<1>1. HexInit => WrittenInv
  BY WrittenInitially
<1>2. WrittenInv /\ [HexNext]_hex_vars => WrittenInv'
  BY WrittenStep
<1>3. WrittenInv => WrittenLoadsAgain
  BY WrittenIsLoaded
<1> QED  BY <1>1, <1>2, <1>3, PTL DEF HexSpec

(* What the programs are said to write to hex files is what LoadHexFile    *)
(* finds there: the data and zeros to the end of the last word.            *)
HexDataAsWritten ==
  (written # Typed /\ phase = "loaded") =>
    LET whole == WholeWords([id |-> written, bytes |-> Len(written), zeros |-> 0])
    IN  whole.id = written /\ whole.bytes = Len(written) /\ data = written \o Zeros(whole.zeros)
LEMMA WrittenAsWholeWords ==
  ASSUME WrittenInv
  PROVE  HexDataAsWritten
<1> SUFFICES ASSUME written # Typed, phase = "loaded"
             PROVE  LET whole == WholeWords([id |-> written, bytes |-> Len(written), zeros |-> 0])
                    IN  whole.id = written /\ whole.bytes = Len(written) /\ data = written \o Zeros(whole.zeros)
  BY DEF HexDataAsWritten
<1>1. written \in Buffers /\ data \in Seq(0 .. 255)
  BY DEF WrittenInv, FileWritten
<1>2. PICK n \in Nat, m \in Nat : n = Len(written) /\ m = Len(data)
  BY <1>1, BufferType
<1>3. m % 4 = 0 /\ m - n \in 0 .. 3 /\ data = written \o Zeros(m - n)
  BY <1>2, WrittenIsLoaded DEF WrittenLoadsAgain, sizeof_uint32_t
<1>4. m = 4 * ((n + 3) \div 4)
  <2>1. \A i \in Nat, j \in Nat : j % 4 = 0 /\ j - i \in 0 .. 3 => j = 4 * ((i + 3) \div 4)
    BY Z3
  <2> QED  BY <1>3, <2>1
<1> DEFINE d == [id |-> written, bytes |-> n, zeros |-> 0]
<1>5. SizeOf(d) = n
  BY DEF SizeOf
<1>6. AtMost(n, m) = n
  BY <1>3 DEF AtMost
<1>7. WholeWords(d) = [d EXCEPT !.bytes = n, !.zeros = m - n]
  BY <1>4, <1>5, <1>6 DEF WholeWords, Take
<1> QED  BY <1>2, <1>3, <1>7

(* The programs and their hex files agree, for every buffer.               *)
THEOREM ProgramsAndHexFilesAgree == HexSpec => []HexDataAsWritten
<1>1. HexInit => WrittenInv
  BY WrittenInitially
<1>2. WrittenInv /\ [HexNext]_hex_vars => WrittenInv'
  BY WrittenStep
<1>3. WrittenInv => HexDataAsWritten
  BY WrittenAsWholeWords
<1> QED  BY <1>1, <1>2, <1>3, PTL DEF HexSpec

-----------------------------------------------------------------------------
(* A file that somebody has typed.                                         *)

(* The words of a line or of one before it, up to a place.                 *)
Passed(l, k) == l < line \/ (l = line /\ k <= place)
(* Where the word k of line l goes in the data.                            *)
OffsetIn(l, k) == AddressOf(l, k) - LineAddresses[1]
Goes(l, k) ==
  BytesOf(hex_file[l][k]) > 0 =>
    /\ OffsetIn(l, k) \in Nat
    /\ OffsetIn(l, k) + BytesOf(hex_file[l][k]) <= Len(data)
    /\ \A j \in 1 .. BytesOf(hex_file[l][k]) : data[OffsetIn(l, k) + j] = Bytes(hex_file[l][k].value, 8)[j]
Covers(l, k, i) == i - OffsetIn(l, k) \in 1 .. BytesOf(hex_file[l][k])

(* What is loaded so far are the bytes of the words passed, with zeros     *)
(* between them, and the offset is behind the last one.                    *)
SoFar ==
  /\ line = 1 /\ place = 0 => starting_address = 0 /\ current_offset = 0 /\ data = <<>>
  /\ line > 1 \/ place > 0 => starting_address = LineAddresses[1]
  /\ place > 0 => current_offset = LineAddresses[line] + Lengths(hex_file[line])[place] - LineAddresses[1]
  /\ place = 0 /\ line > 1 =>
       current_offset = LineAddresses[line - 1] + LengthOf(hex_file[line - 1]) - LineAddresses[1]
  /\ data \in Seq(0 .. 255) /\ Len(data) <= current_offset
  /\ \A l \in DOMAIN hex_file : \A k \in DOMAIN hex_file[l] : Passed(l, k) => Goes(l, k)
  /\ \A i \in DOMAIN data :
       \/ data[i] = 0
       \/ \E l \in DOMAIN hex_file : \E k \in DOMAIN hex_file[l] : Passed(l, k) /\ Covers(l, k, i)

SameAddressTwice == \E l \in 2 .. Len(hex_file) : hex_file[l][1].colon /\ LineAddresses[l] = LineAddresses[1]
LoadedSoFar ==
  /\ phase # "undefined"
  /\ line \in 1 .. Len(hex_file) + 1 /\ place \in Nat
  /\ line <= Len(hex_file) => place <= Len(hex_file[line])
  /\ line > Len(hex_file) => place = 0
  /\ phase = "loaded" => line > Len(hex_file)
  /\ IF phase = "aborted" THEN SameAddressTwice ELSE SoFar

TypedInv ==
  /\ phase \in {"write", "type", "load", "loaded", "aborted", "undefined"}
  /\ phase = "write" => written # Typed
  /\ phase = "type" => written = Typed
  /\ written = Typed => hex_file \in Seq(Seq(Words))
  /\ phase = "type" => line = 1 /\ place = 0 /\ starting_address = 0 /\ current_offset = 0 /\ data = <<>>
  /\ written = Typed /\ phase # "type" /\ WellFormed /\ Sorted => LoadedSoFar

LEMMA TextStays ==
  ASSUME hex_file' = hex_file
  PROVE  /\ LineAddresses' = LineAddresses /\ WellFormed' = WellFormed /\ Sorted' = Sorted
         /\ SameAddressTwice' = SameAddressTwice
         /\ \A l, k : OffsetIn(l, k)' = OffsetIn(l, k)
         /\ \A l, k, i : Covers(l, k, i)' = Covers(l, k, i)
<1>1. LineAddresses' = LineAddresses
  BY DEF LineAddresses
<1>2. WellFormed' = WellFormed
  BY DEF WellFormed
<1>3. Sorted' = Sorted
  BY <1>1 DEF Sorted
<1>4. SameAddressTwice' = SameAddressTwice
  BY <1>1 DEF SameAddressTwice
<1>5. \A l, k : OffsetIn(l, k)' = OffsetIn(l, k)
  BY <1>1 DEF OffsetIn, AddressOf
<1>6. \A l, k, i : Covers(l, k, i)' = Covers(l, k, i)
  BY <1>5 DEF Covers
<1> QED  BY <1>1, <1>2, <1>3, <1>4, <1>5, <1>6

(* What is known of a well-formed file that has been typed.                *)
LEMMA TypedText ==
  ASSUME hex_file \in Seq(Seq(Words)), WellFormed
  PROVE  /\ Len(hex_file) \in Nat /\ DOMAIN hex_file = 1 .. Len(hex_file)
         /\ LineAddresses \in [DOMAIN hex_file -> Nat]
         /\ \A l \in DOMAIN hex_file :
              LineAddresses[l] = IF hex_file[l][1].colon THEN hex_file[l][1].value
                                 ELSE IF l = 1 THEN 0 ELSE LineAddresses[l - 1] + LengthOf(hex_file[l - 1])
         /\ \A l \in DOMAIN hex_file :
              /\ hex_file[l] \in Seq(AWord) /\ hex_file[l] # <<>>
              /\ Len(hex_file[l]) \in Nat \ {0} /\ DOMAIN hex_file[l] = 1 .. Len(hex_file[l])
              /\ Lengths(hex_file[l]) \in [0 .. Len(hex_file[l]) -> Nat]
              /\ Lengths(hex_file[l])[0] = 0
              /\ \A k \in 1 .. Len(hex_file[l]) :
                   Lengths(hex_file[l])[k] = Lengths(hex_file[l])[k - 1] + BytesOf(hex_file[l][k])
              /\ LengthOf(hex_file[l]) = Lengths(hex_file[l])[Len(hex_file[l])] /\ LengthOf(hex_file[l]) \in Nat
<1>1. Words \subseteq AWord
  BY HexFileAssumption DEF AWord
<1>2. hex_file \in Seq(Seq(AWord)) /\ Len(hex_file) \in Nat /\ DOMAIN hex_file = 1 .. Len(hex_file)
  <2>1. PICK n \in Nat : n = Len(hex_file) /\ DOMAIN hex_file = 1 .. n /\ hex_file \in [1 .. n -> Seq(Words)]
    OBVIOUS
  <2>2. ASSUME NEW l \in 1 .. n
        PROVE  hex_file[l] \in Seq(AWord)
    <3>1. hex_file[l] \in Seq(Words)
      BY <2>1
    <3>2. PICK m \in Nat : hex_file[l] \in [1 .. m -> Words]
      BY <3>1
    <3>3. hex_file[l] \in [1 .. m -> AWord]
      BY <1>1, <3>2
    <3> QED  BY <3>3
  <2>3. hex_file \in [1 .. n -> Seq(AWord)]
    BY <2>1, <2>2
  <2>4. \A Elements : hex_file \in [1 .. n -> Elements] => hex_file \in Seq(Elements)
    OBVIOUS
  <2>5. hex_file \in Seq(Seq(AWord))
    BY <2>3, <2>4
  <2> QED  BY <2>1, <2>5
<1>3. \A l \in DOMAIN hex_file : hex_file[l] # <<>>
  BY DEF WellFormed
<1>4. /\ LineAddresses \in [DOMAIN hex_file -> Nat]
      /\ \A l \in DOMAIN hex_file :
           LineAddresses[l] = IF hex_file[l][1].colon THEN hex_file[l][1].value
                              ELSE IF l = 1 THEN 0 ELSE LineAddresses[l - 1] + LengthOf(hex_file[l - 1])
  BY <1>2, <1>3, AddressesDefined DEF IsText
<1>5. ASSUME NEW l \in DOMAIN hex_file
      PROVE  /\ hex_file[l] \in Seq(AWord) /\ hex_file[l] # <<>>
             /\ Len(hex_file[l]) \in Nat \ {0} /\ DOMAIN hex_file[l] = 1 .. Len(hex_file[l])
             /\ Lengths(hex_file[l]) \in [0 .. Len(hex_file[l]) -> Nat]
             /\ Lengths(hex_file[l])[0] = 0
             /\ \A k \in 1 .. Len(hex_file[l]) :
                  Lengths(hex_file[l])[k] = Lengths(hex_file[l])[k - 1] + BytesOf(hex_file[l][k])
             /\ LengthOf(hex_file[l]) = Lengths(hex_file[l])[Len(hex_file[l])] /\ LengthOf(hex_file[l]) \in Nat
  <2>1. PICK words \in Seq(AWord) : words = hex_file[l] /\ words # <<>>
    BY <1>2, <1>3
  <2>2. Len(words) \in Nat \ {0} /\ DOMAIN words = 1 .. Len(words)
    BY <2>1, EmptySeq
  <2>3. /\ Lengths(words) \in [0 .. Len(words) -> Nat]
        /\ Lengths(words)[0] = 0
        /\ \A k \in 1 .. Len(words) : Lengths(words)[k] = Lengths(words)[k - 1] + BytesOf(words[k])
        /\ LengthOf(words) \in Nat
    BY LengthOfType
  <2>4. LengthOf(words) = Lengths(words)[Len(words)]
    BY DEF LengthOf
  <2> QED  BY <2>1, <2>2, <2>3, <2>4
<1> QED  BY <1>2, <1>4, <1>5

(* The words of such a file: an address only at the beginning of a line,   *)
(* and the digits of at most eight bytes.                                  *)
LEMMA TypedWord ==
  ASSUME hex_file \in Seq(Seq(Words)), WellFormed, NEW l \in DOMAIN hex_file, NEW k \in DOMAIN hex_file[l]
  PROVE  /\ hex_file[l][k] \in AWord /\ hex_file[l][k].value \in Nat /\ hex_file[l][k] # NoWord
         /\ hex_file[l][k].colon \in BOOLEAN /\ BytesOf(hex_file[l][k]) \in Nat
         /\ hex_file[l][k].colon => k = 1 /\ BytesOf(hex_file[l][k]) = 0
         /\ ~ hex_file[l][k].colon => /\ hex_file[l][k].size \div 2 = BytesOf(hex_file[l][k])
                                      /\ BytesOf(hex_file[l][k]) <= 8
<1>1. hex_file[l][k] \in Words
  <2>1. hex_file[l] \in Seq(Words)
    OBVIOUS
  <2> QED  BY <2>1
<1>2. PICK w : w = hex_file[l][k]
  OBVIOUS
<1>3. w \in [value : Nat, size : Nat \ {0}, colon : BOOLEAN]
  BY <1>1, <1>2, HexFileAssumption
<1>4. w.value \in Nat /\ w.size \in Nat \ {0} /\ w.colon \in BOOLEAN /\ w \in AWord
  BY <1>3 DEF AWord
<1>5. w # NoWord
  BY <1>4 DEF NoWord
<1>6. IF w.colon THEN k = 1 ELSE w.size % 2 = 0 /\ w.size <= 16
  BY <1>2 DEF WellFormed
<1>7. \A s \in Nat : s <= 16 => s \div 2 <= 8 /\ s \div 2 \in Nat
  BY Z3
<1>8. w.colon => BytesOf(w) = 0
  BY DEF BytesOf
<1>9. ~ w.colon => BytesOf(w) = w.size \div 2 /\ BytesOf(w) <= 8
  BY <1>4, <1>6, <1>7 DEF BytesOf
<1>10. BytesOf(w) \in Nat
  BY <1>4, BytesOfType
<1> QED  BY <1>2, <1>4, <1>5, <1>6, <1>8, <1>9, <1>10

(* No line of a sorted file begins before the first one.                   *)
LEMMA FirstIsFirst ==
  ASSUME hex_file \in Seq(Seq(Words)), WellFormed, Sorted, NEW l \in DOMAIN hex_file
  PROVE  1 \in DOMAIN hex_file /\ LineAddresses[l] \in Nat /\ LineAddresses[1] \in Nat /\ LineAddresses[l] >= LineAddresses[1]
<1>1. PICK n \in Nat : n = Len(hex_file) /\ DOMAIN hex_file = 1 .. n
  BY TypedText
<1>2. LineAddresses \in [1 .. n -> Nat] /\ \A m \in 1 .. n : LengthOf(hex_file[m]) \in Nat
  BY <1>1, TypedText
<1>3. 1 \in 1 .. n
  BY <1>1
<1> DEFINE G == {m \in 1 .. n : LineAddresses[m] >= LineAddresses[1]}
<1>4. 1 <= n => 1 \in G
  BY <1>2, <1>3
<1>5. ASSUME NEW m \in 1 .. n - 1, m \in G
      PROVE  m + 1 \in G
  <2>1. m + 1 \in 1 .. n /\ m \in 1 .. n /\ m + 1 \in DOMAIN hex_file \ {1} /\ (m + 1) - 1 = m
    BY <1>1
  <2>2. LineAddresses[m + 1] >= LineAddresses[m] + LengthOf(hex_file[m])
    BY <2>1 DEF Sorted
  <2>3. /\ LineAddresses[m + 1] \in Nat /\ LineAddresses[m] \in Nat /\ LineAddresses[1] \in Nat
        /\ LengthOf(hex_file[m]) \in Nat /\ LineAddresses[m] >= LineAddresses[1]
    BY <1>2, <1>3, <1>5, <2>1
  <2> QED  BY <2>1, <2>2, <2>3
<1>6. \A m \in 1 .. n : m \in G
  <2> HIDE DEF G
  <2>1. 1 \in Int /\ n \in Int
    OBVIOUS
  <2> QED  BY <1>4, <1>5, <2>1, Climb
<1> QED  BY <1>1, <1>2, <1>3, <1>6

(* Loading goes on: what a step has to keep.                               *)
LEMMA TypedLoadingOn ==
  ASSUME hex_file \in Seq(Seq(Words)), WellFormed, Sorted, LoadedSoFar, Loading,
         phase' \in {"load", "loaded"},
         line' \in 1 .. Len(hex_file) + 1, place' \in Nat,
         line' <= Len(hex_file) => place' <= Len(hex_file[line']),
         line' > Len(hex_file) => place' = 0,
         phase' = "loaded" => line' > Len(hex_file),
         SoFar'
  PROVE  LoadedSoFar'
<1>1. hex_file' = hex_file
  BY DEF Loading
<1> QED  BY <1>1 DEF LoadedSoFar

(* Sums of addresses, and the parts of what is pushed.                     *)
LEMMA BehindStart ==
  ASSUME NEW a \in Nat, NEW b \in Nat, NEW c \in Nat, a >= c
  PROVE  a + b - c \in Nat
OBVIOUS
GoesOn(a, b, c, n) == (a + b - c) + n = a + (b + n) - c
LEMMA FurtherOn ==
  ASSUME NEW a \in Nat, NEW b \in Nat, NEW c \in Nat, NEW n \in Nat
  PROVE  GoesOn(a, b, c, n)
BY DEF GoesOn
LEMMA PartsOfData ==
  ASSUME NEW size \in Nat, NEW offset \in Nat, size <= offset, NEW n \in Nat, NEW i \in 1 .. offset + n
  PROVE  i \in 1 .. size \/ i \in size + 1 .. offset \/ i - offset \in 1 .. n
OBVIOUS

(* A word of digits is read.                                               *)
LEMMA WordRead ==
  ASSUME hex_file \in Seq(Seq(Words)), WellFormed, Sorted, SoFar, Loading,
         line \in DOMAIN hex_file, place + 1 \in DOMAIN hex_file[line], place \in Nat,
         ~ hex_file[line][place + 1].colon,
         starting_address = LineAddresses[1],
         current_offset = OffsetIn(line, place + 1),
         data' = PushBack(hex_file[line][place + 1].value, BytesOf(hex_file[line][place + 1])),
         current_offset' = current_offset + BytesOf(hex_file[line][place + 1]),
         line' = line, place' = place + 1, starting_address' = starting_address
  PROVE  SoFar'
<1>1. PICK w : w = hex_file[line][place + 1]
  OBVIOUS
<1>2. PICK n \in Nat : n = BytesOf(w)
  BY <1>1, TypedWord
<1>3. PICK value \in Nat : value = w.value
  BY <1>1, TypedWord
<1>4. w.value \in Nat /\ n <= 8
  BY <1>1, <1>2, TypedWord
<1>5. data \in Seq(0 .. 255) /\ Len(data) <= current_offset /\ Len(data) \in Nat
      /\ (\A l \in DOMAIN hex_file : \A k \in DOMAIN hex_file[l] : Passed(l, k) => Goes(l, k))
      /\ \A i \in DOMAIN data :
           \/ data[i] = 0
           \/ \E l \in DOMAIN hex_file : \E k \in DOMAIN hex_file[l] : Passed(l, k) /\ Covers(l, k, i)
  <2>1. data \in Seq(0 .. 255)
    BY DEF SoFar
  <2>2. Len(data) \in Nat
    BY <2>1
  <2> QED  BY <2>1, <2>2 DEF SoFar
<1>6. hex_file' = hex_file /\ LineAddresses' = LineAddresses
  BY TextStays DEF Loading
<1>7. /\ LineAddresses[line] \in Nat /\ LineAddresses[1] \in Nat /\ LineAddresses[line] >= LineAddresses[1]
      /\ Len(hex_file) \in Nat /\ DOMAIN hex_file = 1 .. Len(hex_file)
      /\ place + 1 \in 1 .. Len(hex_file[line])
      /\ Lengths(hex_file[line]) \in [0 .. Len(hex_file[line]) -> Nat]
      /\ \A k \in 1 .. Len(hex_file[line]) :
           Lengths(hex_file[line])[k] = Lengths(hex_file[line])[k - 1] + BytesOf(hex_file[line][k])
      /\ (place + 1) - 1 = place
  <2>1. (place + 1) - 1 = place
    OBVIOUS
  <2>2. PICK l \in DOMAIN hex_file : l = line
    OBVIOUS
  <2>3. LineAddresses[l] \in Nat /\ LineAddresses[1] \in Nat /\ LineAddresses[l] >= LineAddresses[1]
    BY FirstIsFirst
  <2>4. /\ Len(hex_file) \in Nat /\ DOMAIN hex_file = 1 .. Len(hex_file)
        /\ DOMAIN hex_file[l] = 1 .. Len(hex_file[l])
        /\ Lengths(hex_file[l]) \in [0 .. Len(hex_file[l]) -> Nat]
        /\ \A k \in 1 .. Len(hex_file[l]) :
             Lengths(hex_file[l])[k] = Lengths(hex_file[l])[k - 1] + BytesOf(hex_file[l][k])
    BY TypedText
  <2> QED  BY <2>1, <2>2, <2>3, <2>4
<1>8. /\ Lengths(hex_file[line])[place] \in Nat
      /\ Lengths(hex_file[line])[place + 1] = Lengths(hex_file[line])[place] + n
  <2>1. place \in 0 .. Len(hex_file[line])
    BY <1>7
  <2> QED  BY <1>1, <1>2, <1>7, <2>1
<1>9. current_offset \in Nat /\ current_offset = LineAddresses[line] + Lengths(hex_file[line])[place] - LineAddresses[1]
  <2>1. current_offset = (LineAddresses[line] + Lengths(hex_file[line])[place]) - LineAddresses[1]
    BY <1>7 DEF OffsetIn, AddressOf
  <2>2. PICK a \in Nat, b \in Nat, c \in Nat : /\ a = LineAddresses[line] /\ b = Lengths(hex_file[line])[place]
                                               /\ c = LineAddresses[1] /\ a >= c
    BY <1>7, <1>8
  <2>3. a + b - c \in Nat
    BY <2>2, BehindStart
  <2>4. current_offset = a + b - c
    BY <2>1, <2>2, SMTT(30)
  <2> QED  BY <2>2, <2>3, <2>4
<1>10. /\ data' = PushBack(value, n) /\ current_offset' = current_offset + n
       /\ data' \in Seq(0 .. 255) /\ Len(data') = current_offset + n
       /\ \A i \in 1 .. Len(data) : data'[i] = data[i]
       /\ \A i \in Len(data) + 1 .. current_offset : data'[i] = 0
       /\ \A j \in 1 .. n : data'[current_offset + j] = Bytes(value, n)[j]
  <2>1. data' = PushBack(value, n) /\ current_offset' = current_offset + n
    BY <1>1, <1>2, <1>3
  <2>2. IsPushed(PushBack(value, n), value, n)
    BY <1>5, <1>9, Pushed
  <2> QED  BY <2>1, <2>2 DEF IsPushed
<1>11. \A j \in 1 .. n : data'[current_offset + j] = Bytes(value, 8)[j]
  <2>1. PICK eight \in Nat : eight = 8
    OBVIOUS
  <2>2. n <= eight
    BY <1>4, <2>1
  <2>3. \A k \in 1 .. n : Bytes(value, n)[k] = Bytes(value, eight)[k]
    BY <2>2, BytesAgree
  <2> QED  BY <1>10, <2>1, <2>3
<1>12. ASSUME NEW l \in DOMAIN hex_file, NEW k \in DOMAIN hex_file[l], Passed(l, k)', ~ Passed(l, k)
       PROVE  l = line /\ k = place + 1
  <2>1. k \in Int
    <3>1. DOMAIN hex_file[l] = 1 .. Len(hex_file[l])
      BY TypedText
    <3> QED  BY <3>1
  <2>2. l = line
    BY <1>12 DEF Passed
  <2>3. k <= place + 1 /\ ~ (k <= place)
    BY <1>12, <2>2 DEF Passed
  <2> QED  BY <2>1, <2>2, <2>3
<1>13. ASSUME NEW l \in DOMAIN hex_file, NEW k \in DOMAIN hex_file[l], Goes(l, k)
       PROVE  Goes(l, k)'
  <2>1. PICK m \in Nat : m = BytesOf(hex_file[l][k])
    BY TypedWord
  <2>2. CASE m = 0
    BY <1>6, <2>1, <2>2 DEF Goes
  <2>3. CASE m # 0
    <3>1. PICK o \in Nat : o = OffsetIn(l, k)
      BY <1>13, <2>1, <2>3 DEF Goes
    <3>2. o + m <= Len(data) /\ \A j \in 1 .. m : data[o + j] = Bytes(hex_file[l][k].value, 8)[j]
      BY <1>13, <2>1, <2>3, <3>1 DEF Goes
    <3>3. o + m <= Len(data') /\ \A j \in 1 .. m : o + j \in 1 .. Len(data)
      <4>1. PICK size \in Nat, total \in Nat : size = Len(data) /\ total = Len(data') /\ total = current_offset + n
                                               /\ size <= current_offset /\ current_offset \in Nat
        BY <1>5, <1>9, <1>10, SMTT(30)
      <4>2. size <= total
        BY <4>1
      <4>3. o + m <= size
        BY <3>2, <4>1
      <4>4. o + m <= total /\ \A j \in 1 .. m : o + j \in 1 .. size
        BY <4>2, <4>3
      <4> QED  BY <4>1, <4>4
    <3>4. \A j \in 1 .. m : data'[o + j] = Bytes(hex_file[l][k].value, 8)[j]
      BY <1>10, <3>2, <3>3
    <3>5. o = OffsetIn(l, k)'
      BY <1>6, <3>1, TextStays
    <3> QED  BY <1>6, <2>1, <3>3, <3>4, <3>5 DEF Goes
  <2> QED  BY <2>2, <2>3
<1>14. PICK l0 \in DOMAIN hex_file : l0 = line
  OBVIOUS
<1>15. PICK k0 \in DOMAIN hex_file[l0] : k0 = place + 1
  BY <1>14
<1>16. OffsetIn(l0, k0)' = current_offset
  BY <1>6, <1>14, <1>15, TextStays
<1>17. Goes(l0, k0)'
  <2>1. hex_file'[l0][k0] = w /\ BytesOf(w) = n /\ w.value = value
    BY <1>1, <1>2, <1>3, <1>6, <1>14, <1>15
  <2> QED  BY <1>9, <1>10, <1>11, <1>16, <2>1, SMTT(30) DEF Goes
<1>18. \A l \in DOMAIN hex_file' : \A k \in DOMAIN hex_file'[l] : Passed(l, k)' => Goes(l, k)'
  <2>1. ASSUME NEW l \in DOMAIN hex_file, NEW k \in DOMAIN hex_file[l], Passed(l, k)'
        PROVE  Goes(l, k)'
    <3>1. CASE Passed(l, k)
      BY <1>5, <1>13, <3>1
    <3>2. CASE ~ Passed(l, k)
      <4>1. l = l0 /\ k = k0
        BY <1>12, <1>14, <1>15, <2>1, <3>2
      <4> QED  BY <1>17, <4>1
    <3> QED  BY <3>1, <3>2
  <2> QED  BY <1>6, <2>1
<1>19. ASSUME NEW l \in DOMAIN hex_file, NEW k \in DOMAIN hex_file[l], Passed(l, k)
       PROVE  Passed(l, k)'
  <2>1. DOMAIN hex_file[l] = 1 .. Len(hex_file[l])
    BY TypedText
  <2>2. k \in Int
    BY <2>1
  <2>3. k <= place => k <= place + 1
    BY <2>2
  <2> QED  BY <1>19, <2>3 DEF Passed
<1>20. Passed(l0, k0)'
  BY <1>14, <1>15 DEF Passed
<1>21. ASSUME NEW i \in DOMAIN data'
       PROVE  \/ data'[i] = 0
              \/ \E l \in DOMAIN hex_file : \E k \in DOMAIN hex_file[l] : Passed(l, k)' /\ Covers(l, k, i)'
  <2>1. i \in 1 .. current_offset + n
    BY <1>10
  <2>2. CASE i \in 1 .. Len(data)
    <3>1. i \in DOMAIN data /\ data'[i] = data[i]
      BY <1>5, <1>10, <2>2
    <3>2. CASE data[i] = 0
      BY <3>1, <3>2
    <3>3. CASE \E l \in DOMAIN hex_file : \E k \in DOMAIN hex_file[l] : Passed(l, k) /\ Covers(l, k, i)
      <4>1. PICK l \in DOMAIN hex_file : \E k \in DOMAIN hex_file[l] : Passed(l, k) /\ Covers(l, k, i)
        BY <3>3
      <4>2. PICK k \in DOMAIN hex_file[l] : Passed(l, k) /\ Covers(l, k, i)
        BY <4>1
      <4>3. Passed(l, k)' /\ Covers(l, k, i)'
        BY <1>6, <1>19, <4>2, TextStays
      <4> QED  BY <4>3
    <3> QED  BY <1>5, <3>1, <3>2, <3>3
  <2>3. CASE i \in Len(data) + 1 .. current_offset
    BY <1>10, <2>3
  <2>4. CASE i - current_offset \in 1 .. n
    <3>1. Covers(l0, k0, i)'
      <4>1. hex_file'[l0][k0] = w /\ BytesOf(w) = n
        BY <1>1, <1>2, <1>6, <1>14, <1>15
      <4> QED  BY <1>16, <2>4, <4>1 DEF Covers
    <3> QED  BY <1>20, <3>1
  <2>5. i \in 1 .. Len(data) \/ i \in Len(data) + 1 .. current_offset \/ i - current_offset \in 1 .. n
    BY <1>5, <1>9, <2>1, PartsOfData
  <2> QED  BY <2>2, <2>3, <2>4, <2>5
<1>22. /\ starting_address' = LineAddresses'[1]
       /\ current_offset' = LineAddresses'[line'] + Lengths(hex_file'[line'])[place'] - LineAddresses'[1]
       /\ Len(data') <= current_offset'
  <2>1. starting_address' = LineAddresses'[1]
    BY <1>6
  <2>2. PICK a \in Nat, b \in Nat, c \in Nat : /\ a = LineAddresses[line] /\ b = Lengths(hex_file[line])[place]
                                               /\ c = LineAddresses[1] /\ a >= c
    BY <1>7, <1>8
  <2>3. current_offset' = a + (b + n) - c
    <3>1. current_offset' = (a + b - c) + n
      BY <1>9, <1>10, <2>2
    <3>2. (a + b - c) + n = a + (b + n) - c
      <4>1. GoesOn(a, b, c, n)
        BY FurtherOn
      <4> QED  BY <4>1, Zenon DEF GoesOn
    <3> QED  BY <3>1, <3>2
  <2>4. Lengths(hex_file'[line'])[place'] = b + n
    BY <1>6, <1>8, <2>2
  <2>5. Len(data') <= current_offset'
    BY <1>9, <1>10
  <2> QED  BY <1>6, <2>1, <2>2, <2>3, <2>4, <2>5
<1>23. place' > 0 /\ place' # 0
  BY <1>7, SMTT(30)
<1> QED  BY <1>6, <1>10, <1>18, <1>21, <1>22, <1>23 DEF SoFar

(* The numbers of a line that is being loaded.                             *)
LEMMA LineOfText ==
  ASSUME hex_file \in Seq(Seq(Words)), WellFormed, Sorted, LoadedSoFar, line <= Len(hex_file)
  PROVE  /\ line \in DOMAIN hex_file /\ line \in Nat /\ line >= 1 /\ line <= Len(hex_file) /\ Len(hex_file) \in Nat
         /\ DOMAIN hex_file = 1 .. Len(hex_file)
         /\ 1 \in DOMAIN hex_file[line] /\ DOMAIN hex_file[line] = 1 .. Len(hex_file[line])
         /\ Len(hex_file[line]) \in Nat /\ place \in Nat /\ place <= Len(hex_file[line])
         /\ FirstWord = hex_file[line][1]
         /\ Lengths(hex_file[line])[0] = 0
         /\ Lengths(hex_file[line])[1] = BytesOf(hex_file[line][1])
         /\ LineAddresses[line] \in Nat /\ LineAddresses[1] \in Nat /\ LineAddresses[line] >= LineAddresses[1]
<1>1. Len(hex_file) \in Nat /\ DOMAIN hex_file = 1 .. Len(hex_file)
  BY TypedText
<1>2. line \in Nat /\ line >= 1 /\ place \in Nat /\ place <= Len(hex_file[line])
  BY <1>1 DEF LoadedSoFar
<1>3. line \in DOMAIN hex_file
  BY <1>1, <1>2
<1>4. PICK l \in DOMAIN hex_file : l = line
  BY <1>3
<1>5. /\ hex_file[l] # <<>> /\ Len(hex_file[l]) \in Nat \ {0} /\ DOMAIN hex_file[l] = 1 .. Len(hex_file[l])
      /\ Lengths(hex_file[l])[0] = 0
      /\ \A k \in 1 .. Len(hex_file[l]) :
           Lengths(hex_file[l])[k] = Lengths(hex_file[l])[k - 1] + BytesOf(hex_file[l][k])
  BY TypedText
<1>6. 1 \in 1 .. Len(hex_file[l])
  BY <1>5
<1>7. Lengths(hex_file[l])[1] = BytesOf(hex_file[l][1])
  <2>1. BytesOf(hex_file[l][1]) \in Nat
    BY <1>5, <1>6, TypedWord
  <2>2. Lengths(hex_file[l])[1] = Lengths(hex_file[l])[1 - 1] + BytesOf(hex_file[l][1])
    BY <1>5, <1>6
  <2>3. 1 - 1 = 0
    OBVIOUS
  <2> QED  BY <1>5, <2>1, <2>2, <2>3
<1>8. FirstWord = hex_file[line][1]
  BY <1>4, <1>5 DEF FirstWord
<1>9. LineAddresses[l] \in Nat /\ LineAddresses[1] \in Nat /\ LineAddresses[l] >= LineAddresses[1]
  BY FirstIsFirst
<1> QED  BY <1>1, <1>2, <1>3, <1>4, <1>5, <1>6, <1>7, <1>8, <1>9

Before(a, b, c, d) == a + b - c \in Nat /\ a + b - c <= d - c
LEMMA BeforeLine ==
  ASSUME NEW a \in Nat, NEW b \in Nat, NEW c \in Nat, NEW d \in Nat, a >= c, d >= a + b
  PROVE  Before(a, b, c, d)
BY DEF Before

(* Where the offset is when a line begins.                                 *)
LEMMA OffsetAtLine ==
  ASSUME hex_file \in Seq(Seq(Words)), WellFormed, Sorted, LoadedSoFar, SoFar, line <= Len(hex_file), line # 1, place = 0
  PROVE  /\ line - 1 \in DOMAIN hex_file
         /\ starting_address = LineAddresses[1] /\ current_offset \in Nat
         /\ current_offset = LineAddresses[line - 1] + LengthOf(hex_file[line - 1]) - LineAddresses[1]
         /\ current_offset <= LineAddresses[line] - LineAddresses[1]
<1>1. /\ line \in DOMAIN hex_file /\ line \in Nat /\ line >= 1 /\ line <= Len(hex_file) /\ Len(hex_file) \in Nat
      /\ DOMAIN hex_file = 1 .. Len(hex_file)
      /\ LineAddresses[line] \in Nat /\ LineAddresses[1] \in Nat
  BY LineOfText
<1>2. line > 1 /\ line - 1 \in DOMAIN hex_file /\ line \in DOMAIN hex_file \ {1}
  BY <1>1
<1>3. PICK m \in DOMAIN hex_file : m = line - 1
  BY <1>2
<1>4. LineAddresses[m] \in Nat /\ LineAddresses[m] >= LineAddresses[1] /\ LengthOf(hex_file[m]) \in Nat
  BY FirstIsFirst, TypedText
<1>5. /\ starting_address = LineAddresses[1]
      /\ current_offset = LineAddresses[m] + LengthOf(hex_file[m]) - LineAddresses[1]
  BY <1>2, <1>3 DEF SoFar
<1>6. LineAddresses[line] >= LineAddresses[m] + LengthOf(hex_file[m])
  BY <1>2, <1>3 DEF Sorted
<1>7. PICK a \in Nat, b \in Nat, c \in Nat, d \in Nat :
        /\ a = LineAddresses[m] /\ b = LengthOf(hex_file[m]) /\ c = LineAddresses[1] /\ d = LineAddresses[line]
        /\ a >= c /\ d >= a + b
  BY <1>1, <1>4, <1>6
<1>8. current_offset = a + b - c
  BY <1>5, <1>7
<1>9. a + b - c \in Nat /\ a + b - c <= d - c
  <2>1. Before(a, b, c, d)
    BY <1>7, BeforeLine
  <2> QED  BY <2>1 DEF Before
<1> QED  BY <1>2, <1>3, <1>5, <1>7, <1>8, <1>9

LEMMA TypedReadAddress ==
  ASSUME hex_file \in Seq(Seq(Words)), WellFormed, Sorted, LoadedSoFar, phase = "load", ReadAddress
  PROVE  LoadedSoFar'
<1>1. /\ Loading /\ line <= Len(hex_file) /\ place = 0 /\ FirstWord.colon
      /\ line' = line /\ data' = data /\ place' = 1 /\ hex_file' = hex_file
  BY DEF ReadAddress, AtLineStart, Loading
<1>2. SoFar
  BY DEF LoadedSoFar
<1>3. /\ line \in DOMAIN hex_file /\ line \in Nat /\ line >= 1 /\ line <= Len(hex_file) /\ Len(hex_file) \in Nat
      /\ 1 \in DOMAIN hex_file[line] /\ DOMAIN hex_file[line] = 1 .. Len(hex_file[line])
      /\ Len(hex_file[line]) \in Nat
      /\ FirstWord = hex_file[line][1]
      /\ Lengths(hex_file[line])[1] = BytesOf(hex_file[line][1])
      /\ LineAddresses[line] \in Nat /\ LineAddresses[1] \in Nat /\ LineAddresses[line] >= LineAddresses[1]
  BY <1>1, LineOfText
<1>4. BytesOf(hex_file[line][1]) = 0 /\ Lengths(hex_file[line])[1] = 0
  BY <1>1, <1>3 DEF BytesOf
<1>5. LineAddresses[line] = FirstWord.value
  BY <1>1, <1>3, TypedText
<1>6. LineAddresses' = LineAddresses
  BY <1>1, TextStays
<1>7. 1 <= Len(hex_file[line])
  BY <1>3
(* Nothing of the data has moved, and the address covers nothing.          *)
<1>8. ASSUME starting_address' = LineAddresses[1],
             current_offset' = LineAddresses[line] - LineAddresses[1], Len(data) <= current_offset'
      PROVE  SoFar'
  <2>1. /\ data \in Seq(0 .. 255)
        /\ \A l \in DOMAIN hex_file : \A k \in DOMAIN hex_file[l] : Passed(l, k) => Goes(l, k)
        /\ \A i \in DOMAIN data :
             \/ data[i] = 0
             \/ \E l \in DOMAIN hex_file : \E k \in DOMAIN hex_file[l] : Passed(l, k) /\ Covers(l, k, i)
    BY <1>2 DEF SoFar
  <2>2. current_offset' = LineAddresses'[line'] + Lengths(hex_file'[line'])[place'] - LineAddresses'[1]
    <3>1. LineAddresses'[line'] = LineAddresses[line] /\ LineAddresses'[1] = LineAddresses[1]
          /\ Lengths(hex_file'[line'])[place'] = 0
      BY <1>1, <1>4, <1>6
    <3>2. PICK a \in Nat, c \in Nat : a = LineAddresses[line] /\ c = LineAddresses[1]
      BY <1>3
    <3>3. a + 0 - c = a - c
      OBVIOUS
    <3> QED  BY <1>8, <3>1, <3>2, <3>3
  <2>3. ASSUME NEW l \in DOMAIN hex_file, NEW k \in DOMAIN hex_file[l]
        PROVE  /\ Passed(l, k) => Passed(l, k)'
               /\ Passed(l, k)' => Passed(l, k) \/ (l = line /\ k = 1)
               /\ Goes(l, k)' = Goes(l, k)
    <3>1. k \in 1 .. Len(hex_file[l]) /\ Len(hex_file[l]) \in Nat
      BY TypedText
    <3>2. k \in Int /\ k >= 1
      BY <3>1
    <3>3. (k <= 0 => k <= 1) /\ (k <= 1 => k = 1)
      BY <3>2
    <3>4. Goes(l, k)' = Goes(l, k)
      BY <1>1, TextStays DEF Goes
    <3> QED  BY <1>1, <3>3, <3>4 DEF Passed
  <2>4. \A l \in DOMAIN hex_file' : \A k \in DOMAIN hex_file'[l] : Passed(l, k)' => Goes(l, k)'
    <3>1. ASSUME NEW l \in DOMAIN hex_file, NEW k \in DOMAIN hex_file[l], Passed(l, k)'
          PROVE  Goes(l, k)'
      <4>1. CASE Passed(l, k)
        BY <2>1, <2>3, <4>1
      <4>2. CASE l = line /\ k = 1
        <5>1. Goes(l, k)
          BY <1>4, <4>2 DEF Goes
        <5> QED  BY <2>3, <5>1
      <4> QED  BY <2>3, <3>1, <4>1, <4>2
    <3> QED  BY <1>1, <3>1
  <2>5. ASSUME NEW i \in DOMAIN data'
        PROVE  \/ data'[i] = 0
               \/ \E l \in DOMAIN hex_file' : \E k \in DOMAIN hex_file'[l] : Passed(l, k)' /\ Covers(l, k, i)'
    <3>1. CASE data[i] = 0
      BY <1>1, <3>1
    <3>2. CASE \E l \in DOMAIN hex_file : \E k \in DOMAIN hex_file[l] : Passed(l, k) /\ Covers(l, k, i)
      <4>1. PICK l \in DOMAIN hex_file : \E k \in DOMAIN hex_file[l] : Passed(l, k) /\ Covers(l, k, i)
        BY <3>2
      <4>2. PICK k \in DOMAIN hex_file[l] : Passed(l, k) /\ Covers(l, k, i)
        BY <4>1
      <4>3. Passed(l, k)' /\ Covers(l, k, i)'
        BY <1>1, <2>3, <4>2, TextStays
      <4> QED  BY <1>1, <4>3
    <3> QED  BY <1>1, <2>1, <3>1, <3>2
  <2> QED  BY <1>1, <1>6, <1>8, <2>1, <2>2, <2>4, <2>5 DEF SoFar
<1>9. ASSUME phase' = "load", SoFar'
      PROVE  LoadedSoFar'
  <2>1. line' \in 1 .. Len(hex_file) + 1 /\ ~ (line' > Len(hex_file)) /\ place' \in Nat /\ place' <= Len(hex_file[line'])
    BY <1>1, <1>3, <1>7
  <2> QED  BY <1>1, <1>9, <2>1, TypedLoadingOn
<1>10. CASE line = 1
  <2>1. starting_address' = FirstWord.value /\ phase' = "load" /\ current_offset' = current_offset
    BY <1>10 DEF ReadAddress
  <2>2. current_offset = 0 /\ Len(data) = 0
    BY <1>1, <1>2, <1>10 DEF SoFar
  <2>3. LineAddresses[1] - LineAddresses[1] = 0
    BY <1>3
  <2> QED  BY <1>5, <1>8, <1>9, <1>10, <2>1, <2>2, <2>3
<1>11. CASE line # 1
  <2>1. starting_address = LineAddresses[1] /\ current_offset <= LineAddresses[line] - LineAddresses[1] /\ current_offset \in Nat
    BY <1>1, <1>2, <1>11, OffsetAtLine
  <2>2. Len(data) <= current_offset /\ Len(data) \in Nat
    BY <1>2 DEF SoFar
  <2>3. line > 1
    BY <1>3, <1>11
  <2>4. CASE starting_address < FirstWord.value
    <3>1. current_offset' = LineAddresses[line] - LineAddresses[1] /\ phase' = "load" /\ starting_address' = starting_address
      BY <1>5, <1>11, <2>1, <2>3, <2>4 DEF ReadAddress, OffsetOf
    <3>2. PICK a \in Int : a = LineAddresses[line] - LineAddresses[1]
      BY <1>3
    <3>3. Len(data) <= a
      BY <2>1, <2>2, <3>2
    <3> QED  BY <1>8, <1>9, <2>1, <3>1, <3>2, <3>3
  <2>5. CASE ~ (starting_address < FirstWord.value)
    <3>1. phase' = "aborted"
      BY <1>11, <2>5 DEF ReadAddress
    <3>2. LineAddresses[line] = LineAddresses[1]
      BY <1>3, <1>5, <2>1, <2>5
    <3>3. line \in 2 .. Len(hex_file)
      BY <1>3, <2>3
    <3>4. SameAddressTwice
      BY <1>1, <1>3, <3>2, <3>3 DEF SameAddressTwice
    <3>5. SameAddressTwice'
      BY <1>1, <3>4, TextStays
    <3>6. line \in 1 .. Len(hex_file) + 1 /\ ~ (line > Len(hex_file))
      BY <1>3
    <3> QED  BY <1>1, <1>7, <3>1, <3>5, <3>6 DEF LoadedSoFar
  <2> QED  BY <2>4, <2>5
<1> QED  BY <1>10, <1>11

(* A word of digits is read: what is common to the first one of a line and *)
(* the others.                                                             *)
LEMMA TypedReads ==
  ASSUME hex_file \in Seq(Seq(Words)), WellFormed, Sorted, LoadedSoFar, phase = "load", Loading,
         line <= Len(hex_file), place + 1 \in DOMAIN hex_file[line],
         ~ hex_file[line][place + 1].colon,
         starting_address = LineAddresses[1],
         current_offset = OffsetIn(line, place + 1),
         Push(hex_file[line][place + 1].value, hex_file[line][place + 1].size),
         line' = line, place' = place + 1, starting_address' = starting_address
  PROVE  LoadedSoFar'
<1>1. /\ line \in DOMAIN hex_file /\ line \in Nat /\ line >= 1 /\ Len(hex_file) \in Nat
      /\ DOMAIN hex_file[line] = 1 .. Len(hex_file[line]) /\ Len(hex_file[line]) \in Nat /\ place \in Nat
  BY LineOfText
<1>2. PICK w : w = hex_file[line][place + 1]
  OBVIOUS
<1>3. w.size \div 2 = BytesOf(w) /\ BytesOf(w) <= 8
  BY <1>1, <1>2, TypedWord
<1>4. data' = PushBack(w.value, BytesOf(w)) /\ current_offset' = current_offset + BytesOf(w) /\ phase' = phase
  BY <1>2, <1>3 DEF Push
<1>5. SoFar
  BY DEF LoadedSoFar
<1>6. SoFar'
  BY <1>1, <1>2, <1>4, <1>5, WordRead
<1>7. line' \in 1 .. Len(hex_file) + 1 /\ ~ (line' > Len(hex_file)) /\ place' \in Nat /\ place' <= Len(hex_file[line'])
  BY <1>1
<1> QED  BY <1>4, <1>6, <1>7, TypedLoadingOn

LEMMA TypedReadFirstWord ==
  ASSUME hex_file \in Seq(Seq(Words)), WellFormed, Sorted, LoadedSoFar, phase = "load", ReadFirstWord
  PROVE  LoadedSoFar'
<1>1. /\ Loading /\ line <= Len(hex_file) /\ place = 0 /\ ~ FirstWord.colon
      /\ line' = line /\ place' = 1 /\ starting_address' = starting_address
      /\ Push(FirstWord.value, FirstWord.size)
  BY DEF ReadFirstWord, AtLineStart
<1>2. /\ line \in DOMAIN hex_file /\ 1 \in DOMAIN hex_file[line] /\ FirstWord = hex_file[line][1]
      /\ Lengths(hex_file[line])[0] = 0
      /\ LineAddresses[line] \in Nat /\ LineAddresses[1] \in Nat
  BY <1>1, LineOfText
<1>3. SoFar
  BY DEF LoadedSoFar
<1>4. LineAddresses[line] = IF line = 1 THEN 0 ELSE LineAddresses[line - 1] + LengthOf(hex_file[line - 1])
  BY <1>1, <1>2, TypedText
<1>5. OffsetIn(line, 1) = LineAddresses[line] - LineAddresses[1]
  <2>1. OffsetIn(line, 1) = (LineAddresses[line] + Lengths(hex_file[line])[1 - 1]) - LineAddresses[1]
    BY DEF OffsetIn, AddressOf
  <2>2. 1 - 1 = 0 /\ LineAddresses[line] + 0 = LineAddresses[line]
    BY <1>2
  <2> QED  BY <1>2, <2>1, <2>2
<1>6. starting_address = LineAddresses[1] /\ current_offset = OffsetIn(line, 1)
  <2>1. CASE line = 1
    <3>1. starting_address = 0 /\ current_offset = 0
      BY <1>1, <1>3, <2>1 DEF SoFar
    <3>2. LineAddresses[1] = 0 /\ 0 - 0 = 0
      BY <1>4, <2>1
    <3> QED  BY <1>5, <2>1, <3>1, <3>2
  <2>2. CASE line # 1
    <3>1. /\ starting_address = LineAddresses[1]
          /\ current_offset = LineAddresses[line - 1] + LengthOf(hex_file[line - 1]) - LineAddresses[1]
      BY <1>1, <1>3, <2>2, OffsetAtLine
    <3>2. LineAddresses[line] = LineAddresses[line - 1] + LengthOf(hex_file[line - 1])
      BY <1>4, <2>2
    <3>3. PICK m : m = line - 1
      OBVIOUS
    <3>4. PICK a \in Nat, b \in Nat, c \in Nat :
            a = LineAddresses[m] /\ b = LengthOf(hex_file[m]) /\ c = LineAddresses[1]
      <4>1. m \in DOMAIN hex_file
        BY <1>1, <1>3, <2>2, <3>3, OffsetAtLine
      <4> QED  BY <1>2, <4>1, TypedText
    <3>5. LineAddresses[line] = a + b /\ current_offset = a + b - c
      BY <3>1, <3>2, <3>3, <3>4
    <3> QED  BY <1>5, <3>1, <3>4, <3>5
  <2> QED  BY <2>1, <2>2
<1>7. place + 1 = 1
  BY <1>1
<1> QED  BY <1>1, <1>2, <1>6, <1>7, TypedReads

LEMMA TypedReadWord ==
  ASSUME hex_file \in Seq(Seq(Words)), WellFormed, Sorted, LoadedSoFar, phase = "load", ReadWord
  PROVE  LoadedSoFar'
<1>1. /\ Loading /\ line <= Len(hex_file) /\ place \in 1 .. Len(hex_file[line]) - 1
      /\ line' = line /\ place' = place + 1 /\ starting_address' = starting_address
  BY DEF ReadWord
<1>2. /\ line \in DOMAIN hex_file /\ line \in Nat /\ line >= 1
      /\ DOMAIN hex_file[line] = 1 .. Len(hex_file[line]) /\ Len(hex_file[line]) \in Nat
      /\ LineAddresses[line] \in Nat /\ LineAddresses[1] \in Nat
  BY <1>1, LineOfText
<1>3. place + 1 \in DOMAIN hex_file[line] /\ place + 1 # 1 /\ (place + 1) - 1 = place /\ place > 0
  BY <1>1, <1>2
<1>4. ~ hex_file[line][place + 1].colon
  BY <1>2, <1>3, TypedWord
<1>5. Push(hex_file[line][place + 1].value, hex_file[line][place + 1].size)
  BY <1>4 DEF ReadWord
<1>6. SoFar
  BY DEF LoadedSoFar
<1>7. starting_address = LineAddresses[1]
      /\ current_offset = LineAddresses[line] + Lengths(hex_file[line])[place] - LineAddresses[1]
  BY <1>3, <1>6 DEF SoFar
<1>8. current_offset = OffsetIn(line, place + 1)
  <2>1. Lengths(hex_file[line])[place] \in Nat
    <3>1. place \in 0 .. Len(hex_file[line])
      BY <1>1, <1>2
    <3>2. Lengths(hex_file[line]) \in [0 .. Len(hex_file[line]) -> Nat]
      BY <1>2, TypedText
    <3> QED  BY <3>1, <3>2
  <2>2. PICK a \in Nat, b \in Nat, c \in Nat :
          a = LineAddresses[line] /\ b = Lengths(hex_file[line])[place] /\ c = LineAddresses[1]
    BY <1>2, <2>1
  <2>3. OffsetIn(line, place + 1) = a + b - c
    <3>1. Lengths(hex_file[line])[(place + 1) - 1] = b
      BY <1>3, <2>2
    <3>2. AddressOf(line, place + 1) = a + b
      BY <2>2, <3>1 DEF AddressOf
    <3> QED  BY <2>2, <3>2, SMTT(30) DEF OffsetIn
  <2>4. current_offset = a + b - c
    BY <1>7, <2>2
  <2> QED  BY <2>3, <2>4
<1> QED  BY <1>1, <1>3, <1>4, <1>5, <1>7, <1>8, TypedReads

LEMMA TypedEndLine ==
  ASSUME hex_file \in Seq(Seq(Words)), WellFormed, Sorted, LoadedSoFar, phase = "load", EndLine
  PROVE  LoadedSoFar'
<1>1. /\ Loading /\ line <= Len(hex_file) /\ place > 0 /\ place >= Len(hex_file[line])
      /\ line' = line + 1 /\ place' = 0 /\ hex_file' = hex_file
      /\ UNCHANGED <<phase, starting_address, current_offset, data>>
  BY DEF EndLine, Loading
<1>2. /\ line \in DOMAIN hex_file /\ line \in Nat /\ line >= 1 /\ Len(hex_file) \in Nat
      /\ DOMAIN hex_file = 1 .. Len(hex_file)
      /\ DOMAIN hex_file[line] = 1 .. Len(hex_file[line]) /\ Len(hex_file[line]) \in Nat
      /\ place \in Nat /\ place <= Len(hex_file[line])
  BY <1>1, LineOfText
<1>3. place = Len(hex_file[line]) /\ (line + 1) - 1 = line /\ line + 1 > 1
  <2>1. PICK n \in Nat : n = Len(hex_file[line]) /\ place <= n /\ place >= n
    BY <1>1, <1>2
  <2>2. place = n
    BY <1>2, <2>1
  <2> QED  BY <1>2, <2>1, <2>2
<1>4. SoFar
  BY DEF LoadedSoFar
<1>5. LineAddresses' = LineAddresses
  BY <1>1, TextStays
<1>6. /\ starting_address = LineAddresses[1]
      /\ current_offset = LineAddresses[line] + Lengths(hex_file[line])[place] - LineAddresses[1]
      /\ data \in Seq(0 .. 255) /\ Len(data) <= current_offset
      /\ \A l \in DOMAIN hex_file : \A k \in DOMAIN hex_file[l] : Passed(l, k) => Goes(l, k)
      /\ \A i \in DOMAIN data :
           \/ data[i] = 0
           \/ \E l \in DOMAIN hex_file : \E k \in DOMAIN hex_file[l] : Passed(l, k) /\ Covers(l, k, i)
  BY <1>1, <1>4 DEF SoFar
<1>7. ASSUME NEW l \in DOMAIN hex_file, NEW k \in DOMAIN hex_file[l]
      PROVE  Passed(l, k)' = Passed(l, k) /\ Goes(l, k)' = Goes(l, k)
  <2>1. k \in 1 .. Len(hex_file[l]) /\ l \in Int
    BY <1>2, TypedText
  <2>2. l < line + 1 <=> l < line \/ l = line
    BY <1>2, <2>1
  <2>3. l = line => k <= place
    BY <1>2, <1>3, <2>1
  <2>4. ~ (k <= 0)
    <3>1. Len(hex_file[l]) \in Nat
      BY TypedText
    <3> QED  BY <2>1, <3>1
  <2>5. Passed(l, k)' = Passed(l, k)
    BY <1>1, <2>2, <2>3, <2>4 DEF Passed
  <2>6. Goes(l, k)' = Goes(l, k)
    BY <1>1, TextStays DEF Goes
  <2> QED  BY <2>5, <2>6
<1>8. current_offset' = LineAddresses'[line' - 1] + LengthOf(hex_file'[line' - 1]) - LineAddresses'[1]
  <2>1. LengthOf(hex_file[line]) = Lengths(hex_file[line])[place]
    BY <1>3 DEF LengthOf
  <2>2. line' - 1 = line
    BY <1>1, <1>3
  <2>3. LengthOf(hex_file'[line' - 1]) = Lengths(hex_file[line])[place] /\ LineAddresses'[line' - 1] = LineAddresses[line]
    BY <1>1, <1>5, <2>1, <2>2
  <2> QED  BY <1>1, <1>5, <1>6, <2>3
<1>9. \A l \in DOMAIN hex_file' : \A k \in DOMAIN hex_file'[l] : Passed(l, k)' => Goes(l, k)'
  BY <1>1, <1>6, <1>7
<1>10. ASSUME NEW i \in DOMAIN data'
       PROVE  \/ data'[i] = 0
              \/ \E l \in DOMAIN hex_file' : \E k \in DOMAIN hex_file'[l] : Passed(l, k)' /\ Covers(l, k, i)'
  <2>1. CASE data[i] = 0
    BY <1>1, <2>1
  <2>2. CASE \E l \in DOMAIN hex_file : \E k \in DOMAIN hex_file[l] : Passed(l, k) /\ Covers(l, k, i)
    <3>1. PICK l \in DOMAIN hex_file : \E k \in DOMAIN hex_file[l] : Passed(l, k) /\ Covers(l, k, i)
      BY <2>2
    <3>2. PICK k \in DOMAIN hex_file[l] : Passed(l, k) /\ Covers(l, k, i)
      BY <3>1
    <3>3. Passed(l, k)' /\ Covers(l, k, i)'
      BY <1>1, <1>7, <3>2, TextStays
    <3> QED  BY <1>1, <3>3
  <2> QED  BY <1>1, <1>6, <2>1, <2>2
<1>11. line' > 1 /\ ~ (line' = 1) /\ ~ (place' > 0) /\ place' = 0
  BY <1>1, <1>3
<1>12. SoFar'
  BY <1>1, <1>5, <1>6, <1>8, <1>9, <1>10, <1>11 DEF SoFar
<1>13. line' \in 1 .. Len(hex_file) + 1 /\ place' \in Nat
  BY <1>1, <1>2
<1>14. line' <= Len(hex_file) => place' <= Len(hex_file[line'])
  <2>1. ASSUME line' <= Len(hex_file)
        PROVE  Len(hex_file[line']) \in Nat
    <3>1. line' \in DOMAIN hex_file
      BY <1>2, <1>13, <2>1
    <3> QED  BY <3>1, TypedText
  <2> QED  BY <1>1, <2>1
<1> QED  BY <1>1, <1>12, <1>13, <1>14, TypedLoadingOn

LEMMA TypedReturn ==
  ASSUME hex_file \in Seq(Seq(Words)), WellFormed, Sorted, LoadedSoFar, phase = "load", Return
  PROVE  LoadedSoFar'
<1>1. Loading /\ line > Len(hex_file) /\ phase' = "loaded" /\ UNCHANGED loader_vars /\ hex_file' = hex_file
  BY DEF Return, Loading
<1>2. SoFar'
  <2>1. SoFar
    BY DEF LoadedSoFar
  <2>2. LineAddresses' = LineAddresses
    BY <1>1, TextStays
  <2>3. \A l, k : Passed(l, k)' = Passed(l, k)
    BY <1>1 DEF Passed, loader_vars
  <2>4. \A l, k : Goes(l, k)' = Goes(l, k)
    BY <1>1, TextStays DEF Goes, loader_vars
  <2>5. \A l, k, i : Covers(l, k, i)' = Covers(l, k, i)
    BY <1>1, TextStays
  <2> QED  BY <1>1, <2>1, <2>2, <2>3, <2>4, <2>5 DEF SoFar, loader_vars
<1> QED  BY <1>1, <1>2, TypedLoadingOn DEF LoadedSoFar, loader_vars

(* Every line has a first word, which has digits or a colon.               *)
LEMMA TypedReadsSomething ==
  ASSUME hex_file \in Seq(Seq(Words)), WellFormed, Sorted, LoadedSoFar
  PROVE  ~ ReadNothing
<1>1. ASSUME ReadNothing
      PROVE  FALSE
  <2>1. line <= Len(hex_file) /\ FirstWord = NoWord
    BY <1>1 DEF ReadNothing, AtLineStart
  <2>2. line \in DOMAIN hex_file /\ 1 \in DOMAIN hex_file[line] /\ FirstWord = hex_file[line][1]
    BY <2>1, LineOfText
  <2> QED  BY <2>1, <2>2, TypedWord
<1> QED  BY <1>1

LEMMA TypedInitially ==
  ASSUME HexInit
  PROVE  TypedInv
<1>1. phase = "write" => written # Typed
  <2>1. phase = "write" => written \in Buffers
    BY DEF HexInit
  <2> QED  BY <2>1, BufferType
<1>2. hex_file \in Seq(Seq(Words))
  BY DEF HexInit
<1>3. written = Typed => phase = "type"
  <2>1. phase # "type" => written \in Buffers
    BY DEF HexInit
  <2> QED  BY <2>1, BufferType
<1> QED  BY <1>1, <1>2, <1>3 DEF TypedInv, HexInit

LEMMA TypedStep ==
  ASSUME TypedInv, [HexNext]_hex_vars
  PROVE  TypedInv'
<1>1. written' = written /\ Typed' = Typed
  BY DEF HexNext, hex_vars, WriteLine, WriteLastLine, Typing, TypeLine, TypeWord, Save, ReadAddress,
         ReadFirstWord, ReadNothing, AtLineStart, Loading, ReadWord, EndLine, Return, Done, Typed
<1>2. phase' \in {"write", "type", "load", "loaded", "aborted", "undefined"} /\ (phase' = "write" => phase = "write")
  BY DEF TypedInv, HexNext, hex_vars, WriteLine, WriteLastLine, Typing, TypeLine, TypeWord, Save, ReadAddress,
         ReadFirstWord, ReadNothing, AtLineStart, Loading, ReadWord, EndLine, Return, Done, loader_vars, Push
<1>3. CASE written # Typed
  <2>1. phase' # "type"
    BY <1>3 DEF TypedInv, HexNext, hex_vars, WriteLine, WriteLastLine, Typing, TypeLine, TypeWord, Save, ReadAddress,
         ReadFirstWord, ReadNothing, AtLineStart, Loading, ReadWord, EndLine, Return, Done, loader_vars, Push
  <2> QED  BY <1>1, <1>2, <1>3, <2>1 DEF TypedInv
<1>4. CASE written = Typed /\ phase = "type"
  <2>1. /\ hex_file \in Seq(Seq(Words)) /\ line = 1 /\ place = 0 /\ starting_address = 0 /\ current_offset = 0 /\ data = <<>>
    BY <1>4 DEF TypedInv
  <2>2. TypeLine \/ TypeWord \/ Save \/ UNCHANGED hex_vars
    BY <1>4 DEF HexNext, WriteLine, WriteLastLine, ReadAddress,
         ReadFirstWord, ReadNothing, AtLineStart, Loading, ReadWord, EndLine, Return, Done
  <2>3. UNCHANGED loader_vars
    BY <2>2 DEF TypeLine, TypeWord, Save, Typing, hex_vars
  <2>4. hex_file' \in Seq(Seq(Words))
    <3>1. CASE TypeLine
      <4>1. hex_file' = Append(hex_file, <<>>) /\ <<>> \in Seq(Words)
        BY <3>1 DEF TypeLine
      <4> QED  BY <2>1, <4>1, AppendProperties
    <3>2. CASE TypeWord
      <4>1. hex_file # <<>>
        BY <3>2 DEF TypeWord
      <4>2. PICK n \in Nat : n = Len(hex_file) /\ DOMAIN hex_file = 1 .. n /\ n \in 1 .. Len(hex_file)
        BY <2>1, <4>1, EmptySeq
      <4>3. PICK w \in Words : hex_file' = [hex_file EXCEPT ![Len(hex_file)] = Append(@, w)]
        BY <3>2 DEF TypeWord
      <4>4. hex_file[n] \in Seq(Words)
        BY <2>1, <4>2, ElementOfSeq
      <4>5. PICK e : e = Append(hex_file[n], w)
        OBVIOUS
      <4>6. e \in Seq(Words)
        BY <4>4, <4>5, AppendProperties
      <4>7. hex_file' = [hex_file EXCEPT ![n] = e]
        BY <4>2, <4>3, <4>5
      <4> QED  BY <2>1, <4>2, <4>6, <4>7, ExceptSeq
    <3>3. CASE Save \/ UNCHANGED hex_vars
      BY <2>1, <3>3 DEF Save, hex_vars
    <3> QED  BY <2>2, <3>1, <3>2, <3>3
  <2>5. phase' = "type" \/ phase' = "load"
    BY <1>4, <2>2 DEF TypeLine, TypeWord, Save, hex_vars
  <2>6. line' = 1 /\ place' = 0 /\ starting_address' = 0 /\ current_offset' = 0 /\ data' = <<>>
    BY <2>1, <2>3 DEF loader_vars
  <2>7. ASSUME phase' = "load", WellFormed'
        PROVE  LoadedSoFar'
    <3>1. SoFar'
      <4>1. ASSUME NEW l \in DOMAIN hex_file', NEW k \in DOMAIN hex_file'[l]
            PROVE  ~ Passed(l, k)'
        <5>1. l \in 1 .. Len(hex_file') /\ Len(hex_file') \in Nat
          BY <2>4
        <5>2. hex_file'[l] \in Seq(Words)
          BY <2>4
        <5>3. k \in 1 .. Len(hex_file'[l]) /\ Len(hex_file'[l]) \in Nat
          BY <5>2
        <5>4. ~ (l < 1) /\ ~ (k <= 0)
          BY <5>1, <5>3
        <5> QED  BY <2>6, <5>4 DEF Passed
      <4>2. data' \in Seq(0 .. 255) /\ Len(data') = 0 /\ DOMAIN data' = {}
        BY <2>6
      <4> QED  BY <2>6, <4>1, <4>2 DEF SoFar
    <3>2. Len(hex_file') \in Nat
      BY <2>4
    <3>3. 1 <= Len(hex_file') => Len(hex_file'[1]) \in Nat
      <4>1. 1 <= Len(hex_file') => hex_file'[1] \in Seq(Words)
        BY <2>4, <3>2
      <4> QED  BY <4>1
    <3> QED  BY <2>6, <2>7, <3>1, <3>2, <3>3 DEF LoadedSoFar
  <2> QED  BY <1>1, <1>2, <1>4, <2>4, <2>5, <2>6, <2>7 DEF TypedInv
<1>5. CASE written = Typed /\ phase # "type"
  <2>1. phase # "write" /\ hex_file \in Seq(Seq(Words))
    BY <1>5 DEF TypedInv
  <2>2. hex_file' = hex_file /\ phase' # "type"
    BY <1>5, <2>1 DEF TypedInv, HexNext, hex_vars, WriteLine, WriteLastLine, Typing, TypeLine, TypeWord, Save, ReadAddress,
         ReadFirstWord, ReadNothing, AtLineStart, Loading, ReadWord, EndLine, Return, Done, loader_vars, Push
  <2>3. WellFormed' = WellFormed /\ Sorted' = Sorted
    BY <2>2, TextStays
  <2>4. ASSUME WellFormed, Sorted
        PROVE  LoadedSoFar'
    <3>1. LoadedSoFar
      BY <1>5, <2>4 DEF TypedInv
    <3>2. CASE UNCHANGED hex_vars
      <4>1. \A l, k : Passed(l, k)' = Passed(l, k)
        BY <3>2 DEF Passed, hex_vars, loader_vars
      <4>2. \A l, k : Goes(l, k)' = Goes(l, k)
        BY <3>2, TextStays DEF Goes, hex_vars, loader_vars
      <4>3. \A l, k, i : Covers(l, k, i)' = Covers(l, k, i)
        BY <2>2, TextStays
      <4>4. LineAddresses' = LineAddresses /\ SameAddressTwice' = SameAddressTwice
        BY <2>2, TextStays
      <4>5. SoFar' = SoFar
        BY <3>2, <4>1, <4>2, <4>3, <4>4 DEF SoFar, hex_vars, loader_vars
      <4> QED  BY <3>1, <3>2, <4>4, <4>5 DEF LoadedSoFar, hex_vars, loader_vars
    <3>3. CASE phase = "load"
      <4>1. ASSUME HexNext
            PROVE  ReadAddress \/ ReadFirstWord \/ ReadNothing \/ ReadWord \/ EndLine \/ Return
        BY <3>3, <4>1 DEF HexNext, WriteLine, WriteLastLine, Typing, TypeLine, TypeWord, Save, Done
      <4> QED  BY <2>1, <2>4, <3>1, <3>2, <3>3, <4>1, TypedReadAddress, TypedReadFirstWord, TypedReadsSomething,
                  TypedReadWord, TypedEndLine, TypedReturn
    <3>4. CASE phase # "load"
      <4>1. ASSUME HexNext
            PROVE  Done
        BY <1>5, <2>1, <3>4, <4>1 DEF HexNext, WriteLine, WriteLastLine, Typing, TypeLine, TypeWord, Save, ReadAddress,
             ReadFirstWord, ReadNothing, AtLineStart, Loading, ReadWord, EndLine, Return
      <4> QED  BY <3>2, <4>1 DEF Done
    <3> QED  BY <3>3, <3>4
  <2> QED  BY <1>1, <1>2, <1>5, <2>1, <2>2, <2>3, <2>4 DEF TypedInv
<1> QED  BY <1>3, <1>4, <1>5

(* What is loaded in the end is what is stated.                            *)
LEMMA TypedIsLoaded ==
  ASSUME TypedInv
  PROVE  BytesInPlace
<1> SUFFICES ASSUME written = Typed, phase \in {"loaded", "aborted", "undefined"}, hex_file # <<>>, WellFormed, Sorted
             PROVE  \/ /\ phase = "loaded"
                       /\ \A i \in DOMAIN data :
                            LET here == {p \in Places : LineAddresses[1] + i - 1 - AddressOf(p[1], p[2]) \in
                                                          0 .. BytesOf(hex_file[p[1]][p[2]]) - 1}
                            IN  \/ here = {} /\ data[i] = 0
                                \/ \E p \in here :
                                     data[i] = Bytes(hex_file[p[1]][p[2]].value, 8)[LineAddresses[1] + i - AddressOf(p[1], p[2])]
                       /\ \A l \in DOMAIN hex_file : LengthOf(hex_file[l]) > 0 =>
                            Len(data) >= LineAddresses[l] + LengthOf(hex_file[l]) - LineAddresses[1]
                    \/ phase = "aborted" /\ SameAddressTwice
  BY DEF BytesInPlace, SameAddressTwice
<1>1. hex_file \in Seq(Seq(Words)) /\ LoadedSoFar /\ phase # "undefined"
  BY DEF TypedInv, LoadedSoFar
<1>2. CASE phase = "aborted"
  BY <1>1, <1>2 DEF LoadedSoFar
<1>3. CASE phase = "loaded"
  <2>1. /\ Len(hex_file) \in Nat /\ DOMAIN hex_file = 1 .. Len(hex_file)
        /\ \A l \in DOMAIN hex_file :
             /\ Len(hex_file[l]) \in Nat /\ DOMAIN hex_file[l] = 1 .. Len(hex_file[l])
             /\ Lengths(hex_file[l]) \in [0 .. Len(hex_file[l]) -> Nat]
             /\ Lengths(hex_file[l])[0] = 0
             /\ \A k \in 1 .. Len(hex_file[l]) :
                  Lengths(hex_file[l])[k] = Lengths(hex_file[l])[k - 1] + BytesOf(hex_file[l][k])
             /\ LengthOf(hex_file[l]) = Lengths(hex_file[l])[Len(hex_file[l])] /\ LengthOf(hex_file[l]) \in Nat
    BY <1>1, TypedText
  <2>2. SoFar /\ line \in 1 .. Len(hex_file) + 1 /\ line > Len(hex_file)
    BY <1>1, <1>3 DEF LoadedSoFar
  <2>3. \A l \in DOMAIN hex_file : l < line
    BY <2>1, <2>2
  <2>4. /\ data \in Seq(0 .. 255) /\ Len(data) \in Nat
        /\ \A l \in DOMAIN hex_file : \A k \in DOMAIN hex_file[l] : Goes(l, k)
        /\ \A i \in DOMAIN data :
             \/ data[i] = 0
             \/ \E l \in DOMAIN hex_file : \E k \in DOMAIN hex_file[l] : Covers(l, k, i)
    <3>1. data \in Seq(0 .. 255)
      BY <2>2 DEF SoFar
    <3> QED  BY <2>2, <2>3, <3>1 DEF SoFar, Passed
  (* Addresses are numbers.                                                *)
  <2>5. ASSUME NEW l \in DOMAIN hex_file, NEW k \in DOMAIN hex_file[l]
        PROVE  AddressOf(l, k) \in Nat /\ LineAddresses[1] \in Nat /\ BytesOf(hex_file[l][k]) \in Nat
    <3>1. LineAddresses[l] \in Nat /\ LineAddresses[1] \in Nat
      BY <1>1, FirstIsFirst
    <3>2. BytesOf(hex_file[l][k]) \in Nat
      BY <1>1, TypedWord
    <3>3. k - 1 \in 0 .. Len(hex_file[l])
      BY <2>1
    <3>4. Lengths(hex_file[l])[k - 1] \in Nat
      BY <2>1, <3>3
    <3> QED  BY <3>1, <3>2, <3>4 DEF AddressOf
  <2>6. ASSUME NEW i \in DOMAIN data
        PROVE  LET here == {p \in Places : LineAddresses[1] + i - 1 - AddressOf(p[1], p[2]) \in
                                             0 .. BytesOf(hex_file[p[1]][p[2]]) - 1}
               IN  \/ here = {} /\ data[i] = 0
                   \/ \E p \in here :
                        data[i] = Bytes(hex_file[p[1]][p[2]].value, 8)[LineAddresses[1] + i - AddressOf(p[1], p[2])]
    <3> DEFINE here == {p \in Places : LineAddresses[1] + i - 1 - AddressOf(p[1], p[2]) \in
                                         0 .. BytesOf(hex_file[p[1]][p[2]]) - 1}
    <3>1. i \in Nat
      BY <2>4
    <3>2. ASSUME NEW l \in DOMAIN hex_file, NEW k \in DOMAIN hex_file[l]
          PROVE  /\ <<l, k>> \in here <=> Covers(l, k, i)
                 /\ i - OffsetIn(l, k) = LineAddresses[1] + i - AddressOf(l, k)
      <4>1. PICK a \in Nat, c \in Nat, n \in Nat :
              a = AddressOf(l, k) /\ c = LineAddresses[1] /\ n = BytesOf(hex_file[l][k])
        BY <2>5
      <4>2. <<l, k>> \in Places
        BY DEF Places
      <4>3. <<l, k>> \in here <=> c + i - 1 - a \in 0 .. n - 1
        BY <4>1, <4>2
      <4>4. Covers(l, k, i) <=> i - (a - c) \in 1 .. n
        BY <4>1 DEF Covers, OffsetIn
      <4>5. c + i - 1 - a \in 0 .. n - 1 <=> i - (a - c) \in 1 .. n
        BY <3>1
      <4>6. i - OffsetIn(l, k) = LineAddresses[1] + i - AddressOf(l, k)
        BY <3>1, <4>1 DEF OffsetIn
      <4> QED  BY <4>3, <4>4, <4>5, <4>6
    <3>3. ASSUME NEW p \in here
          PROVE  /\ p[1] \in DOMAIN hex_file /\ p[2] \in DOMAIN hex_file[p[1]] /\ p = <<p[1], p[2]>>
      BY DEF Places
    <3>4. CASE here = {}
      <4>1. ~ \E l \in DOMAIN hex_file : \E k \in DOMAIN hex_file[l] : Covers(l, k, i)
        BY <3>2, <3>4
      <4> QED  BY <2>4, <3>4, <4>1
    <3>5. CASE here # {}
      <4>1. PICK p \in here : TRUE
        BY <3>5
      <4>2. PICK l \in DOMAIN hex_file : l = p[1]
        BY <3>3
      <4>3. PICK k \in DOMAIN hex_file[l] : k = p[2] /\ p = <<l, k>>
        BY <3>3, <4>2
      <4>4. Covers(l, k, i) /\ i - OffsetIn(l, k) = LineAddresses[1] + i - AddressOf(l, k)
        BY <3>2, <4>1, <4>3
      <4>5. PICK n \in Nat : n = BytesOf(hex_file[l][k])
        BY <2>5
      <4>6. PICK j \in 1 .. n : j = i - OffsetIn(l, k)
        BY <4>4, <4>5 DEF Covers
      <4>7. n > 0 /\ Goes(l, k)
        BY <2>4
      <4>8. OffsetIn(l, k) \in Nat /\ data[OffsetIn(l, k) + j] = Bytes(hex_file[l][k].value, 8)[j]
        BY <4>5, <4>7 DEF Goes
      <4>9. OffsetIn(l, k) + j = i
        BY <3>1, <4>6, <4>8
      <4>10. data[i] = Bytes(hex_file[l][k].value, 8)[LineAddresses[1] + i - AddressOf(l, k)]
        BY <4>4, <4>6, <4>8, <4>9
      <4> QED  BY <4>1, <4>2, <4>3, <4>10
    <3> QED  BY <3>4, <3>5
  <2>7. ASSUME NEW l \in DOMAIN hex_file, LengthOf(hex_file[l]) > 0
        PROVE  Len(data) >= LineAddresses[l] + LengthOf(hex_file[l]) - LineAddresses[1]
    <3>1. PICK n \in Nat : n = Len(hex_file[l])
      BY <2>1
    <3>2. PICK a \in Nat, c \in Nat, size \in Nat : a = LineAddresses[l] /\ c = LineAddresses[1] /\ size = Len(data)
      BY <1>1, <2>4, FirstIsFirst
    <3>3. PICK f \in [0 .. n -> Nat] : f = Lengths(hex_file[l])
      BY <2>1, <3>1
    (* The last word with digits ends where the line does.                 *)
    <3> DEFINE G == {k \in 0 .. n : f[k] > 0 => size >= a + f[k] - c}
    <3>4. 0 \in G
      BY <2>1, <3>3
    <3>5. ASSUME NEW k \in 0 .. n - 1, k \in G
          PROVE  k + 1 \in G
      <4>1. k + 1 \in 1 .. n /\ k + 1 \in DOMAIN hex_file[l] /\ (k + 1) - 1 = k
        BY <2>1, <3>1
      <4>2. PICK m \in Nat : m = BytesOf(hex_file[l][k + 1])
        BY <2>5, <4>1
      <4>3. f[k + 1] = f[k] + m /\ f[k] \in Nat
        <5>1. Lengths(hex_file[l])[k + 1] = Lengths(hex_file[l])[(k + 1) - 1] + BytesOf(hex_file[l][k + 1])
          BY <2>1, <3>1, <4>1
        <5>2. f[k + 1] = f[(k + 1) - 1] + m
          BY <3>3, <4>2, <5>1
        <5> QED  BY <4>1, <5>2
      <4>4. CASE m = 0
        <5>1. f[k + 1] = f[k]
          BY <4>3, <4>4
        <5> QED  BY <3>5, <4>1, <5>1
      <4>5. CASE m # 0
        <5>1. PICK o \in Nat : o = OffsetIn(l, k + 1) /\ o + m <= size
          BY <2>4, <3>2, <4>1, <4>2, <4>5 DEF Goes
        <5>2. AddressOf(l, k + 1) = a + f[k]
          BY <3>2, <3>3, <4>1 DEF AddressOf
        <5>3. o = a + f[k] - c
          BY <3>2, <5>1, <5>2, SMTT(30) DEF OffsetIn
        <5>4. a + f[k + 1] - c = o + m
          BY <4>3, <5>3, SMTT(30)
        <5> QED  BY <4>1, <5>1, <5>4
      <4> QED  BY <4>4, <4>5
    <3>6. \A k \in 0 .. n : k \in G
      <4> HIDE DEF G
      <4>1. 0 \in Int /\ n \in Int
        OBVIOUS
      <4> QED  BY <3>4, <3>5, <4>1, Climb
    <3>7. n \in G /\ f[n] = LengthOf(hex_file[l])
      BY <2>1, <3>1, <3>3, <3>6
    <3> QED  BY <2>7, <3>2, <3>7
  <2> QED  BY <1>3, <2>6, <2>7
<1> QED  BY <1>1, <1>2, <1>3

(* What LoadHexFile makes of a file that somebody has typed, lines of an   *)
(* address and words of at most eight bytes with the addresses in order,   *)
(* are the bytes of the words where the addresses say they are.            *)
THEOREM BytesInPlaceCorrect == HexSpec => []BytesInPlace
<1>1. HexInit => TypedInv
  BY TypedInitially
<1>2. TypedInv /\ [HexNext]_hex_vars => TypedInv'
  BY TypedStep
<1>3. TypedInv => BytesInPlace
  BY TypedIsLoaded
<1> QED  BY <1>1, <1>2, <1>3, PTL DEF HexSpec

=============================================================================
