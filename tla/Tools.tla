-------------------------------- MODULE Tools -------------------------------
(***************************************************************************)
(* The command line programs xyuv-header, xyuv-encode and xyuv-decode, run *)
(* one after the other on the same files.  xyuv-header takes a batch of    *)
(* files and may fail at any of them; what it has written by then stays.   *)
(*                                                                         *)
(* A path is [stem, suffix], suffix "" for none.  A file is a sequence of  *)
(* items [kind, frame] or [kind, data]; data is [id, bytes, zeros]: where  *)
(* its bytes come from, how many they are, and the zeros that follow them. *)
(* A frame is [format, data].  Names of templates and matrices stand for   *)
(* what the configuration manager finds under them; a format's siting is   *)
(* its two sample points, each known by the siting it is from.             *)
(***************************************************************************)
EXTENDS Naturals, SequencesExt

CONSTANTS
  Files,          \* the files there are at first: a function of paths
  Commands,       \* command lines, parsed
  MaxRuns,        \* programs run
  TemplateStore,  \* [subsampling, origin, depth, valid] of a template's name
  SitingStore,    \* the subsampling of a siting's name
  MatrixStore,    \* names of conversion matrices
  Unwritable,     \* paths that cannot be opened for writing
  Unreliable,     \* paths where a write may break off
  Word            \* the number of values of a uint32_t

(* Inputs and outputs are lists.  xyuv-header does not look whether the     *)
(* description of an output, [suffix].json, is one of the inputs.          *)
StripSuffix(p) == [p EXCEPT !.suffix = "xyuv"]
MetaPath(p) == [p EXCEPT !.suffix = @ \o ".json"]
ASSUME ToolsAssumption ==
  \A c \in Commands :
    /\ c.inputs \in Seq(ToSet(c.inputs)) /\ c.outputs \in Seq(ToSet(c.outputs))
    /\ c.prog = "header" =>
         \A p \in ToSet(c.outputs) \cup {StripSuffix(q) : q \in ToSet(c.inputs)} : MetaPath(p) \notin ToSet(c.inputs)

(* No output is the description of another one.                            *)
ASSUME DescriptionsAssumption ==
  \A c \in Commands :
    c.prog = "header" =>
      \A p, q \in ToSet(c.outputs) \cup {StripSuffix(r) : r \in ToSet(c.inputs)} : MetaPath(p) # q

(* Frames and data are as described above, and sizes are numbers: a frame  *)
(* has as many bytes as its format says.                                   *)
IsData(d) == d = [id |-> d.id, bytes |-> d.bytes, zeros |-> d.zeros] /\ d.bytes \in Nat /\ d.zeros \in Nat
IsFormat(f) ==
  /\ f = [template |-> f.template, siting |-> f.siting, matrix |-> f.matrix, w |-> f.w, h |-> f.h,
          origin |-> f.origin, size |-> f.size]
  /\ f.siting = [u |-> f.siting.u, v |-> f.siting.v]
  /\ f.w \in Nat /\ f.h \in Nat /\ f.size \in Nat
IsFrame(frm) ==
  /\ frm = [format |-> frm.format, data |-> frm.data]
  /\ IsFormat(frm.format) /\ IsData(frm.data)
  /\ frm.data.bytes + frm.data.zeros = frm.format.size
IsItem(x) == (x.kind = "frame" => IsFrame(x.frame)) /\ (x.kind \in {"bytes", "hex"} => IsData(x.data))
ASSUME FilesAssumption ==
  /\ \A p \in DOMAIN Files : Files[p] \in Seq(ToSet(Files[p])) /\ \A k \in DOMAIN Files[p] : IsItem(Files[p][k])
  /\ \A c \in Commands : c.w \in Nat /\ c.h \in Nat /\ c.templates \in Seq(ToSet(c.templates))
  /\ \A t \in DOMAIN TemplateStore : TemplateStore[t].depth \in Nat

VARIABLES
  files,    \* the files there are now
  command,  \* the command being run
  pc,       \* "idle", "arguments", "open", "load", "write", "ended"
  file,     \* the input being handled
  frame,    \* what was loaded from it
  good,     \* is the stream to the concatenated file fine?
  result,   \* how the command ended: "ok", "error", "abort", "undefined"
  before,   \* the files there were when it started
  runs      \* commands started

vars == <<files, command, pc, file, frame, good, result, before, runs>>

Put(p, content) == [q \in DOMAIN files \cup {p} |-> IF q = p THEN content ELSE files[q]]

-----------------------------------------------------------------------------
(* Data and files.                                                         *)

SizeOf(data) == data.bytes + data.zeros
AtMost(n, limit) == IF n < limit THEN n ELSE limit

(* The first n bytes.                                                      *)
Take(data, n) == LET m == AtMost(data.bytes, n) IN [data EXCEPT !.bytes = m, !.zeros = n - m]

(* A hex file is made of words of four bytes; the last one is filled up.   *)
WholeWordsMutant(data) == Take(data, 4 * (SizeOf(data) \div 4))
WholeWords(data) == Take(data, 4 * ((SizeOf(data) + 3) \div 4))

RawSuffixes == {"bin", "raw", "yuv"}
HexSuffixesOfInputs == {"hex", "dump"}

(* Less than a frame: what is left of a write that broke off.              *)
Broken == [kind |-> "broken"]

(* The siting of a frame that goes into a file: the point of v is put in   *)
(* the place of u's, and v's own place is never set.                       *)
Unset == <<>>
SitingLost(frm) == [frm EXCEPT !.format.siting = [u |-> @.v, v |-> Unset]]
InStream(frm) == [kind |-> "frame", frame |-> SitingLost(frm)]

Written(frm, p) ==
  CASE p.suffix = "xyuv"        -> InStream(frm)
    [] p.suffix = "hex"         -> [kind |-> "hex", data |-> WholeWords(frm.data)]
    [] p.suffix \in RawSuffixes -> [kind |-> "bytes", data |-> frm.data]

CanWrite(p) == p.suffix \in RawSuffixes \cup {"xyuv", "hex"} /\ p \notin Unwritable

(* The data in a file of the given kind.                                   *)
Content(fs, p, kind) ==
  IF Len(fs[p]) = 1 /\ fs[p][1].kind = kind THEN fs[p][1].data
  ELSE [id |-> <<>>, bytes |-> 0, zeros |-> 0]

(* create_format for a command's image.                                    *)
Accepted(template, siting) ==
  TemplateStore[template].subsampling = SitingStore[siting] /\ TemplateStore[template].valid
PointsOf(siting) == [u |-> <<siting, "u">>, v |-> <<siting, "v">>]
FormatOf(template, siting, matrix, w, h) ==
  [template |-> template, siting |-> PointsOf(siting), matrix |-> matrix, w |-> w, h |-> h,
   origin |-> TemplateStore[template].origin, size |-> TemplateStore[template].depth * w * h]

Failed(how) == [result |-> how]
Loaded(frm) == [result |-> "ok", frame |-> frm]

(* Files that are not in the format, or end too early, trip an assertion.  *)
LoadXYUVFile(fs, p) ==
  CASE p \notin DOMAIN fs -> Failed("error")
    [] p \in DOMAIN fs /\ fs[p] # <<>> /\ Head(fs[p]).kind = "frame" -> Loaded(Head(fs[p]).frame)
    [] OTHER -> Failed("abort")

LoadBytes(fs, format, p, kind, too_short) ==
  CASE p \notin DOMAIN fs -> Failed("error")
    [] p \in DOMAIN fs /\ SizeOf(Content(fs, p, kind)) >= format.size
         -> Loaded([format |-> format, data |-> Take(Content(fs, p, kind), format.size)])
    [] OTHER -> Failed(too_short)

(* An .xyuv file has a format of its own, which is kept.                   *)
LoadConvertFrame(fs, format, p) ==
  CASE p.suffix = "xyuv"                -> LoadXYUVFile(fs, p)
    [] p.suffix \in RawSuffixes         -> LoadBytes(fs, format, p, "bytes", "abort")
    [] p.suffix \in HexSuffixesOfInputs -> LoadBytes(fs, format, p, "hex", "error")
    [] OTHER                            -> Failed("error")

FlippedIf(flip, frm) ==
  IF flip THEN [frm EXCEPT !.format.origin = IF @ = "upper_left" THEN "lower_left" ELSE "upper_left"]
  ELSE frm

(* convert_frame: new data, made of the old by way of the two formats.     *)
ConvertFrame(frm, format) ==
  [format |-> format,
   data |-> [id |-> Append(frm.data.id, <<frm.format, format>>), bytes |-> format.size, zeros |-> 0]]

-----------------------------------------------------------------------------
(* The arguments of xyuv-header.                                           *)

OutputNames ==
  CASE ~ command.writeout                                        -> <<>>
    [] command.writeout /\ command.outputs # <<>>                  -> command.outputs
    [] command.writeout /\ command.outputs = <<>> /\ command.cat   -> <<StripSuffix(command.inputs[1])>>
    [] OTHER -> [k \in DOMAIN command.inputs |-> StripSuffix(command.inputs[k])]

(* The name of the first input is asked for although there is none.        *)
NamesUndefined == command.writeout /\ command.outputs = <<>> /\ command.cat /\ command.inputs = <<>>

OneOrEach(list) == Len(list) \in {1, Len(command.inputs)}
Pick(list, k) == IF Len(list) = 1 THEN list[1] ELSE list[k]

InputsAsOutputs ==
  \/ ~ IsInjective(OutputNames)
  \/ ~ OneOrEach(OutputNames)
OutputsTwice ==
  \/ ToSet(OutputNames) \cap ToSet(command.inputs) # {}
  \/ ~ OneOrEach(OutputNames)
BadOutputs ==
  \/ ~ IsInjective(OutputNames)
  \/ ToSet(OutputNames) \cap ToSet(command.inputs) # {}
  \/ ~ OneOrEach(OutputNames)

BadFormats ==
  \/ \E k \in DOMAIN command.templates : command.templates[k] \notin DOMAIN TemplateStore
  \/ \E k \in DOMAIN command.sitings : command.sitings[k] \notin DOMAIN SitingStore
  \/ \E k \in DOMAIN command.matrices : command.matrices[k] \notin MatrixStore
  \/ ~ OneOrEach(command.templates) \/ ~ OneOrEach(command.sitings) \/ ~ OneOrEach(command.matrices)
  \/ /\ Len(command.sitings) = 1
     /\ Len(command.templates) > 1
     /\ \E k \in DOMAIN command.templates :
          SitingStore[command.sitings[1]] # TemplateStore[command.templates[k]].subsampling

BadInputs == command.inputs = <<>> \/ (command.w * command.h) % Word = 0

(* The frames go to one stream, which is opened once and appended to.      *)
Concatenates == command.cat \/ (command.writeout /\ Len(OutputNames) = 1 /\ Len(command.inputs) > 1)

-----------------------------------------------------------------------------
Init ==
  /\ files = Files
  /\ command \in Commands
  /\ pc = "idle"
  /\ file = 1
  /\ frame = Failed("none")
  /\ good = TRUE
  /\ result = "none"
  /\ before = files
  /\ runs = 0

End(how) == pc' = "ended" /\ result' = how

StartCommand ==
  /\ pc \in {"idle", "ended"}
  /\ result # "undefined"
  /\ runs < MaxRuns
  /\ command' \in Commands
  /\ pc' = IF command'.prog = "header" THEN "arguments" ELSE "load"
  /\ file' = 1
  /\ good' = TRUE
  /\ result' = "none"
  /\ before' = files
  /\ runs' = runs + 1
  /\ UNCHANGED <<files, frame>>

(* Nothing is written before all arguments have been checked.              *)
CheckArguments ==
  /\ pc = "arguments"
  /\ CASE NamesUndefined -> End("undefined")
       [] ~ NamesUndefined /\ ((command.writeout /\ BadOutputs) \/ BadFormats \/ BadInputs) -> End("error")
       [] OTHER -> pc' = (IF Concatenates THEN "open" ELSE "load") /\ UNCHANGED result
  /\ UNCHANGED <<files, command, file, frame, good, before, runs>>

OpenMutant(p) == Put(p, <<>>)
OpenForAppending(p) == IF p \in DOMAIN files THEN files ELSE Put(p, <<>>)

(* Without --no-writeout there is a name to open.                          *)
OpenOutput ==
  /\ pc = "open"
  /\ \/ /\ OutputNames = <<>>
        /\ End("undefined")
        /\ UNCHANGED files
     \/ /\ OutputNames # <<>>
        /\ OutputNames[1] \in Unwritable
        /\ End("error")
        /\ UNCHANGED files
     \/ /\ OutputNames # <<>>
        /\ OutputNames[1] \notin Unwritable
        /\ files' = OpenForAppending(OutputNames[1])
        /\ pc' = "load"
        /\ UNCHANGED result
  /\ UNCHANGED <<command, file, frame, good, before, runs>>

(* create_format for an input's place in the batch, and the input itself.  *)
HeaderLoads(fs, k) ==
  LET t == Pick(command.templates, k)
      st == Pick(command.sitings, k)
  IN  IF ~ Accepted(t, st) THEN Failed("error")
      ELSE LoadConvertFrame(fs, FormatOf(t, st, Pick(command.matrices, k), command.w, command.h), command.inputs[k])

(* A stream's buffer is lost when an assertion ends the program, and when  *)
(* it cannot be written: what may be in the file of what was put into it.  *)
InFileAtLeast(p) == IF p \in DOMAIN before THEN Len(before[p]) ELSE 0
PartsOf(p, content) ==
  {SubSeq(content, 1, k) : k \in InFileAtLeast(p) .. Len(content)}
    \cup {Append(SubSeq(content, 1, k), Broken) : k \in InFileAtLeast(p) .. Len(content) - 1}

Appending == command.prog = "header" /\ command.writeout /\ command.cat

Load(loads) ==
  /\ pc = "load"
  /\ \/ /\ loads.result = "ok"
        /\ frame' = Loaded(FlippedIf(command.flip, loads.frame))
        /\ pc' = "write"
        /\ UNCHANGED <<result, files>>
     \/ /\ loads.result # "ok"
        /\ End(loads.result)
        /\ IF loads.result = "abort" /\ Appending
           THEN \E part \in PartsOf(OutputNames[1], files[OutputNames[1]]) : files' = Put(OutputNames[1], part)
           ELSE UNCHANGED files
        /\ UNCHANGED frame
  /\ UNCHANGED <<command, file, good, before, runs>>

LoadInput == command.prog = "header" /\ Load(HeaderLoads(files, file))

MoreInputs == file < Len(command.inputs)

NextInput ==
  /\ file' = IF MoreInputs THEN file + 1 ELSE file
  /\ IF MoreInputs THEN pc' = "load" /\ UNCHANGED result ELSE End("ok")

(* A write breaks off: it is noticed at once, or not before the buffer is  *)
(* flushed, which after the last write nobody looks at.                    *)
MayBreak(p) == p \in Unreliable

AppendFrame ==
  LET out == OutputNames[1]
      all == Append(files[out], InStream(frame.frame))
  IN  /\ pc = "write"
      /\ Appending
      /\ \/ /\ good
            /\ files' = Put(out, all)
            /\ NextInput
            /\ UNCHANGED good
         \/ /\ good /\ MayBreak(out)
            /\ \E part \in PartsOf(out, all) \ {all} : files' = Put(out, part)
            /\ good' = FALSE
            /\ \/ NextInput
               \/ End("abort") /\ UNCHANGED file
         \/ /\ ~ good
            /\ End("abort")
            /\ UNCHANGED <<files, good, file>>
      /\ UNCHANGED <<command, frame, before, runs>>

(* What WriteMetadata leaves behind.                                       *)
WithMeta(p) == IF command.meta THEN Put(MetaPath(p), <<[kind |-> "json", frame |-> frame.frame]>>) ELSE files
MetaFails(p) == command.meta /\ MetaPath(p) \in Unwritable

(* Both writes are tried together: what is thrown skips the rest of them.  *)
WriteFrame(p, old) == [q \in DOMAIN old \cup {p} |-> IF q = p THEN <<Written(frame.frame, p)>> ELSE old[q]]
BreakFrame(p, old) == [q \in DOMAIN old \cup {p} |-> IF q = p THEN <<Broken>> ELSE old[q]]

WriteOutput ==
  LET out == OutputNames[file]
      named == file \in DOMAIN OutputNames
  IN  /\ pc = "write"
      /\ command.prog = "header" /\ command.writeout /\ ~ command.cat
      /\ \/ /\ ~ named
            /\ End("undefined")
            /\ UNCHANGED <<files, file>>
         \/ /\ named /\ MetaFails(out)
            /\ NextInput
            /\ UNCHANGED files
         \/ /\ named /\ ~ MetaFails(out) /\ ~ CanWrite(out)
            /\ files' = WithMeta(out)
            /\ NextInput
         \/ /\ named /\ ~ MetaFails(out) /\ CanWrite(out)
            /\ files' = WriteFrame(out, WithMeta(out))
            /\ NextInput
         \/ /\ named /\ ~ MetaFails(out) /\ CanWrite(out) /\ MayBreak(out)
            /\ files' = BreakFrame(out, WithMeta(out))
            /\ \/ NextInput
               \/ End("abort") /\ UNCHANGED file
      /\ UNCHANGED <<command, frame, good, before, runs>>

SuppressWriteout ==
  /\ pc = "write"
  /\ command.prog = "header" /\ ~ command.writeout
  /\ NextInput
  /\ UNCHANGED <<files, command, frame, good, before, runs>>

-----------------------------------------------------------------------------
(* xyuv-encode and xyuv-decode: one input, one output.                     *)

In == command.inputs[1]
Out == command.outputs[1]
T == command.templates[1]
S == command.sitings[1]
Found == T \in DOMAIN TemplateStore /\ S \in DOMAIN SitingStore /\ command.matrices[1] \in MatrixStore

(* Inputs other than .xyuv are left to libraries that may not be there.    *)
EncodeLoads ==
  LET old == LoadXYUVFile(files, In)
  IN  CASE ~ Found \/ In.suffix # "xyuv"                        -> Failed("error")
        [] Found /\ In.suffix = "xyuv" /\ old.result # "ok"     -> old
        [] Found /\ In.suffix = "xyuv" /\ old.result = "ok"
             -> IF ~ Accepted(T, S) THEN Failed("error")
                ELSE Loaded(ConvertFrame(old.frame,
                       FormatOf(T, S, command.matrices[1], old.frame.format.w, old.frame.format.h)))

(* The format is given with every argument, or by the file.                *)
Given == command.templates # <<>> \/ command.w # 0
AllGiven == command.templates # <<>> /\ command.w # 0

DecodeLoads ==
  CASE In.suffix = "xyuv" /\ Given     -> Failed("error")
    [] In.suffix = "xyuv" /\ ~ Given   -> LoadXYUVFile(files, In)
    [] In.suffix # "xyuv" /\ ~ AllGiven -> Failed("error")
    [] In.suffix # "xyuv" /\ AllGiven
         -> IF ~ Found \/ ~ Accepted(T, S) THEN Failed("error")
            ELSE LoadConvertFrame(files, FormatOf(T, S, command.matrices[1], command.w, command.h), In)

EncodeInput == command.prog = "encode" /\ Load(EncodeLoads)
DecodeInput == command.prog = "decode" /\ Load(DecodeLoads)

(* The metadata comes last.                                                *)
WriteOne ==
  /\ pc = "write"
  /\ command.prog \in {"encode", "decode"}
  /\ \/ /\ ~ CanWrite(Out)
        /\ End("error")
        /\ UNCHANGED files
     \/ /\ CanWrite(Out) /\ ~ MetaFails(Out)
        /\ files' = WriteFrame(Out, WithMeta(Out))
        /\ End("ok")
     \/ /\ CanWrite(Out) /\ MetaFails(Out)
        /\ files' = WriteFrame(Out, files)
        /\ End("error")
     \/ /\ CanWrite(Out) /\ MayBreak(Out)
        /\ \/ files' = BreakFrame(Out, files) /\ End(IF MetaFails(Out) THEN "error" ELSE "abort")
           \/ files' = BreakFrame(Out, WithMeta(Out)) /\ ~ MetaFails(Out) /\ End("ok")
  /\ UNCHANGED <<command, file, frame, good, before, runs>>

Stopped ==
  /\ pc = "ended"
  /\ runs = MaxRuns \/ result = "undefined"
  /\ UNCHANGED vars

Next ==
  \/ StartCommand \/ CheckArguments \/ OpenOutput \/ LoadInput \/ AppendFrame \/ WriteOutput
  \/ SuppressWriteout \/ EncodeInput \/ DecodeInput \/ WriteOne \/ Stopped

Spec == Init /\ [][Next]_vars

-----------------------------------------------------------------------------
InBatch == command.prog = "header" /\ pc \in {"load", "write", "ended"} /\ result # "undefined"

(* The inputs of a batch that are done with.                               *)
Handled == IF result = "ok" THEN DOMAIN command.inputs ELSE 1 .. file - 1

(* What comes of input k when it is handled on its own.                    *)
Alone(k) == FlippedIf(command.flip, HeaderLoads(before, k).frame)

Untouched(p) ==
  /\ p \in DOMAIN files <=> p \in DOMAIN before
  /\ p \in DOMAIN files => files[p] = before[p]

(* A batch makes of every input what a run with that input alone would     *)
(* have made of the files there were at first, and a failure at one input  *)
(* neither undoes the outputs before it nor reaches those after it.        *)
OutputsMatchInputs ==
  InBatch /\ command.writeout /\ ~ Concatenates =>
    \A k \in DOMAIN OutputNames :
      LET out == OutputNames[k]
      IN  IF k \in Handled /\ CanWrite(out) /\ ~ MetaFails(out)
          THEN files[out] \in {<<Written(Alone(k), out)>>} \cup (IF MayBreak(out) THEN {<<Broken>>} ELSE {})
          ELSE Untouched(out) \/ (k = file /\ result = "abort" /\ files[out] = <<Broken>>)

(* Concatenating leaves what was in the file, appends whole frames in the  *)
(* order of the inputs, and puts nothing after one that broke off. Frames  *)
(* are missing only after an assertion or a failing write: an input that   *)
(* makes the program throw loses none of those before it.                  *)
CatAppends ==
  LET out == OutputNames[1]
      old == IF out \in DOMAIN before THEN before[out] ELSE <<>>
      upto(m) == old \o [k \in 1 .. m |-> InStream(Alone(k))]
      n == Cardinality(Handled)
  IN  InBatch /\ Appending /\ out \in DOMAIN files =>
        \/ files[out] = upto(n)
        \/ /\ result = "abort" \/ MayBreak(out)
           /\ \E m \in 0 .. n : files[out] \in {upto(m), Append(upto(m), Broken)}
        \/ Untouched(out) /\ Handled = {}

(* No program changes a file that is not an output of its command or the   *)
(* description of one; xyuv-header leaves its inputs as they are and,      *)
(* without write-out, writes nothing; nor does it after bad arguments.     *)
Outputs == IF command.prog = "header" THEN ToSet(OutputNames) ELSE {Out}
Inputs == IF command.prog = "header" THEN ToSet(command.inputs) ELSE {}
MayChange == (Outputs \cup (IF command.meta THEN {MetaPath(p) : p \in Outputs} ELSE {})) \ Inputs
OnlyOutputsChange ==
  pc \in {"load", "write", "ended"} /\ result # "undefined" =>
    \A p \in (DOMAIN files \cup DOMAIN before) \ MayChange : Untouched(p)

(* What a program has written it can load again, from every kind of file,  *)
(* given the format the frame has: the same image, lines, planes and       *)
(* colours.  From bytes and words it is the very same frame; an .xyuv file *)
(* keeps all of it but the siting, which comes back as it was stored.      *)
AsKept(frm, p) == IF p.suffix = "xyuv" THEN SitingLost(frm) ELSE frm
WrittenCanBeLoaded ==
  LET out == IF command.prog = "header" THEN OutputNames[file] ELSE Out
  IN  pc = "ended" /\ result = "ok" /\ command.writeout /\ ~ command.cat /\ CanWrite(out) /\ ~ MetaFails(out)
      => files[out] = <<Broken>> \/ LoadConvertFrame(files, frame.frame.format, out) = Loaded(AsKept(frame.frame, out))

=============================================================================
