------------------------- MODULE PreprocessorProofs -------------------------
(***************************************************************************)
(* For every set of input files: include_stack stays inside its array; and *)
(* without `include the scanner captures exactly while a construct is      *)
(* open.                                                                   *)
(***************************************************************************)
EXTENDS Preprocessor, TLAPS, SequenceTheorems

\* A sequence, whatever it holds.
IsSeq(s) == \E S : s \in Seq(S)

LEMMA EmptyIsSeq ==
  ASSUME NEW s, s = <<>>
  PROVE  IsSeq(s) /\ Len(s) = 0
<1>1. s \in Seq({}) /\ Len(s) = 0
  OBVIOUS
<1> QED BY <1>1 DEF IsSeq

LEMMA AppendIsSeq ==
  ASSUME NEW s, IsSeq(s), NEW e
  PROVE  /\ IsSeq(Append(s, e)) /\ Append(s, e) # <<>>
         /\ Len(s) \in Nat /\ Len(Append(s, e)) = Len(s) + 1
<1>1. PICK S : s \in Seq(S)
  BY DEF IsSeq
<1> DEFINE T == S \cup {e}
<1>2. s \in Seq(T)
  <2>1. Len(s) \in Nat
    BY <1>1, LenProperties
  <2>2. s \in [1..Len(s) -> T]
    BY <1>1, LenProperties, ElementOfSeq
  <2> QED BY <2>1, <2>2, SeqDef
<1>3. e \in T
  OBVIOUS
<1> HIDE DEF T
<1>4. /\ Append(s, e) \in Seq(T) /\ Append(s, e) # <<>>
      /\ Len(Append(s, e)) = Len(s) + 1
  BY <1>2, <1>3, AppendProperties
<1> QED BY <1>2, <1>4, LenProperties DEF IsSeq

Fits == IsSeq(include_stack) /\ Len(include_stack) <= MAX_INCLUDE_DEPTH

LEMMA FitsInit == PPInit => Fits
<1> SUFFICES ASSUME PPInit
             PROVE  Fits
  OBVIOUS
<1>1. include_stack = <<>>
  BY DEF PPInit
<1>2. IsSeq(include_stack) /\ Len(include_stack) = 0
  BY <1>1, EmptyIsSeq
<1> QED BY <1>2, IncludeAssumption DEF Fits

LEMMA PushFits ==
  ASSUME Fits, Len(include_stack) < MAX_INCLUDE_DEPTH,
         NEW e, include_stack' = Append(include_stack, e)
  PROVE  Fits'
<1>1. /\ IsSeq(include_stack') /\ Len(include_stack) \in Nat
      /\ Len(include_stack') = Len(include_stack) + 1
  BY AppendIsSeq DEF Fits
<1>2. Len(include_stack') <= MAX_INCLUDE_DEPTH
  BY <1>1, IncludeAssumption
<1> QED BY <1>1, <1>2 DEF Fits

LEMMA PopFits ==
  ASSUME Fits, include_stack # <<>>, include_stack' = Pop(include_stack)
  PROVE  Fits'
<1>0. PICK S : include_stack \in Seq(S)
  BY DEF Fits, IsSeq
<1>1. Len(include_stack) \in Nat \ {0}
  BY <1>0, EmptySeq, LenProperties
<1> DEFINE n == Len(include_stack) - 1
<1>2. 1 \in Int /\ n \in Int /\ \A i \in 1..n : include_stack[i] \in S
  BY <1>0, <1>1, ElementOfSeq
<1>3. n \in Nat /\ n <= MAX_INCLUDE_DEPTH
  BY <1>1, IncludeAssumption DEF Fits
<1>4. include_stack' = SubSeq(include_stack, 1, n)
  BY DEF Pop
<1> HIDE DEF n
<1>5. /\ SubSeq(include_stack, 1, n) \in Seq(S)
      /\ Len(SubSeq(include_stack, 1, n)) = IF 1 <= n THEN n - 1 + 1 ELSE 0
  BY <1>2, SubSeqProperties
<1>6. Len(include_stack') = IF 1 <= n THEN n - 1 + 1 ELSE 0
  BY <1>4, <1>5, Zenon
<1>7. Len(include_stack') = n
  BY <1>3, <1>6
<1>8. include_stack' \in Seq(S)
  BY <1>4, <1>5, Zenon
<1>9. Len(include_stack') <= MAX_INCLUDE_DEPTH
  BY <1>3, <1>7
<1> QED BY <1>8, <1>9 DEF Fits, IsSeq

LEMMA FitsStep == Fits /\ [PPNext]_ppvars => Fits'
<1> SUFFICES ASSUME Fits, [PPNext]_ppvars
             PROVE  Fits'
  OBVIOUS
<1>1. Len(include_stack) \in Nat
  BY LenProperties DEF Fits, IsSeq
<1>2. CASE include_stack' = include_stack
  BY <1>2 DEF Fits
<1>3. CASE include
  <2>1. CASE include_stack' = include_stack
    BY <2>1, <1>2
  <2>2. CASE include_stack' # include_stack
    <3>1. ~IncludesFull /\ include_stack' = Append(include_stack, Resume)
      BY <1>3, <2>2 DEF include
    <3>2. Len(include_stack) < MAX_INCLUDE_DEPTH
      BY <3>1, <1>1, IncludeAssumption DEF IncludesFull
    <3> QED BY <3>1, <3>2, PushFits
  <2> QED BY <2>1, <2>2
<1>4. CASE end_of_include
  <2>1. include_stack # <<>> /\ include_stack' = Pop(include_stack)
    BY <1>4 DEF end_of_include
  <2> QED BY <2>1, PopFits
<1>5. CASE UNCHANGED ppvars
  BY <1>2, <1>5 DEF ppvars, scanner
<1>6. CASE text \/ define \/ undef \/ use \/ let_declaration \/ open \/ label \/ close
  BY <1>2, <1>6 DEF text, define, undef, use, let_declaration, open, label, close, Read
<1>7. CASE evaluate \/ return
  BY <1>2, <1>7 DEF evaluate, return, scanner
<1>8. CASE end_of_file
  BY <1>2, <1>8 DEF end_of_file
<1>9. CASE Stopped
  BY <1>5, <1>9 DEF Stopped
<1> QED BY <1>3, <1>4, <1>5, <1>6, <1>7, <1>8, <1>9 DEF PPNext

\* include_stack[64] is never written beyond its end, whatever files include
\* each other (the `include rule of vpp.l tests the depth first).
THEOREM IncludesStayInside == PPSpec => []IncludesFit
<1>1. Fits => IncludesFit
  BY DEF Fits, IncludesFit
<1> QED BY <1>1, FitsInit, FitsStep, PTL DEF PPSpec

-----------------------------------------------------------------------------
(* Jobs whose files are sequences of items without `include.               *)

FilesOf(j) == {j.files[k] : k \in 1..Len(j.files)}
NoIncludes ==
  \A j \in Jobs :
    /\ Len(j.files) \in Nat \ {0}
    /\ \A f \in FilesOf(j) :
         /\ Len(j.sources[f]) \in Nat
         /\ \A k \in 1..Len(j.sources[f]) : j.sources[f][k].type # "INCLUDE"

\* Where the scanner stands.
InFiles ==
  /\ job \in Jobs
  /\ file_cnt \in 0..Len(job.files)
  /\ buffer.file \in FilesOf(job) /\ buffer.at \in Nat \ {0}
  /\ buffer = [file |-> buffer.file, at |-> buffer.at]
  /\ include_stack = <<>>

\* What it has captured.
Sequences == IsSeq(cstack) /\ IsSeq(code_pointer)

Exact ==
  /\ mode \in {"INITIAL", "COPY", "MPP"}
  /\ loop_struct_count \in Nat
  /\ exited = "" /\ scanning =>
       /\ mode = "COPY" <=> loop_struct_count > 0
       /\ loop_struct_count > 0 <=> cstack # <<>>
       /\ code_pointer # <<>> => cstack # <<>>
  /\ ~scanning => loop_struct_count = 0 /\ code_pointer = <<>>

CaptureInv == Sequences /\ Exact

CInv == InFiles /\ CaptureInv

LEMMA CInvInit == NoIncludes /\ PPInit => CInv
<1> SUFFICES ASSUME NoIncludes, PPInit
             PROVE  CInv
  OBVIOUS
<1>1. InFiles
  <2>1. /\ job \in Jobs /\ file_cnt = Len(job.files) /\ include_stack = <<>>
        /\ buffer = [file |-> job.files[1], at |-> 1]
    BY DEF PPInit
  <2>2. Len(job.files) \in Nat \ {0}
    BY <2>1 DEF NoIncludes
  <2>3. job.files[1] \in FilesOf(job) /\ file_cnt \in 0..Len(job.files)
    BY <2>1, <2>2 DEF FilesOf
  <2> QED BY <2>1, <2>3 DEF InFiles
<1>2. CaptureInv
  <2>1. /\ mode = "INITIAL" /\ cstack = <<>> /\ code_pointer = <<>>
        /\ loop_struct_count = 0 /\ scanning = TRUE
    BY DEF PPInit
  <2>2. IsSeq(cstack) /\ IsSeq(code_pointer)
    BY <2>1, EmptyIsSeq
  <2> QED BY <2>1, <2>2 DEF CaptureInv, Sequences, Exact
<1> QED BY <1>1, <1>2 DEF CInv

LEMMA NotAnInclude == NoIncludes /\ InFiles => ~include /\ ~end_of_include
<1> SUFFICES ASSUME NoIncludes, InFiles
             PROVE  ~include /\ ~end_of_include
  OBVIOUS
<1>1. ~end_of_include
  BY DEF InFiles, end_of_include
<1>2. Len(Source) \in Nat /\ \A k \in 1..Len(Source) : Source[k].type # "INCLUDE"
  BY DEF NoIncludes, InFiles, Source
<1>3. ~AtEnd => buffer.at \in 1..Len(Source)
  BY <1>2 DEF AtEnd, InFiles
<1>4. ~Scan({"INCLUDE"})
  BY <1>2, <1>3 DEF Scan, Item
<1> QED BY <1>1, <1>4 DEF include

\* Reading an item, or none, keeps the scanner in its files.
LEMMA ReadStep ==
  ASSUME InFiles, Read \/ UNCHANGED scanner
  PROVE  InFiles'
<1>1. CASE UNCHANGED scanner
  BY <1>1 DEF InFiles, scanner, FilesOf
<1>2. CASE Read
  <2>1. /\ job' = job /\ file_cnt' = file_cnt /\ include_stack' = include_stack
        /\ buffer' = [file |-> buffer.file, at |-> buffer.at + 1]
    BY <1>2 DEF Read, InFiles
  <2> QED BY <2>1 DEF InFiles, FilesOf
<1> QED BY <1>1, <1>2

LEMMA FileStep ==
  ASSUME NoIncludes, InFiles, end_of_file
  PROVE  InFiles'
<1>1. Len(job.files) \in Nat \ {0} /\ file_cnt \in 0..Len(job.files) /\ file_cnt > 0
  BY DEF NoIncludes, InFiles, end_of_file, Running
<1>2. job' = job /\ include_stack' = include_stack
  BY DEF end_of_file
<1>3. CASE file_cnt' = file_cnt /\ buffer' = buffer
  BY <1>2, <1>3 DEF InFiles, FilesOf
<1>4. CASE /\ file_cnt' = file_cnt - 1
           /\ buffer' = IF file_cnt > 1
                         THEN [file |-> job.files[Len(job.files) - file_cnt + 2],
                               at |-> 1]
                         ELSE buffer
  <2>1. file_cnt' \in 0..Len(job.files)
    BY <1>1, <1>4
  <2>2. CASE file_cnt > 1
    <3>1. Len(job.files) - file_cnt + 2 \in 1..Len(job.files)
      BY <1>1, <2>2
    <3> QED BY <1>2, <1>4, <2>1, <2>2, <3>1 DEF InFiles, FilesOf
  <2>3. CASE ~(file_cnt > 1)
    BY <1>2, <1>4, <2>1, <2>3 DEF InFiles, FilesOf
  <2> QED BY <2>2, <2>3
<1> QED BY <1>3, <1>4 DEF end_of_file

LEMMA CapturedIsSeq == CaptureInv => IsSeq(Captured)
BY AppendIsSeq DEF CaptureInv, Sequences, Exact, Captured

LEMMA TextStep ==
  ASSUME CaptureInv, text \/ define \/ undef \/ use
  PROVE  CaptureInv'
<1>1. /\ exited = "" /\ exited' = "" /\ scanning /\ scanning' = scanning
      /\ cstack' = cstack /\ loop_struct_count' = loop_struct_count /\ mode' = mode
  BY DEF text, define, undef, use, Scan, Running
<1>2. CASE code_pointer' = code_pointer
  BY <1>1, <1>2 DEF CaptureInv, Sequences, Exact
<1>3. CASE mode = "COPY" /\ \E e : code_pointer' = Append(code_pointer, e)
  <2>1. IsSeq(code_pointer') /\ cstack # <<>>
    BY <1>1, <1>3, AppendIsSeq DEF CaptureInv, Sequences, Exact
  <2> QED BY <1>1, <2>1 DEF CaptureInv, Sequences, Exact
<1> QED BY <1>2, <1>3 DEF text, define, undef, use, store_it

LEMMA LetStep ==
  ASSUME CaptureInv, let_declaration
  PROVE  CaptureInv'
<1>1. /\ exited = "" /\ exited' = "" /\ scanning /\ scanning'
      /\ loop_struct_count' = loop_struct_count /\ mode' = mode
  BY Zenon DEF let_declaration, Scan, Running
<1>2. CASE loop_struct_count > 0
  <2>n. loop_struct_count \in Nat /\ mode = "COPY"
    BY <1>1, <1>2, Zenon DEF CaptureInv, Exact
  <2>0. loop_struct_count # 0
    BY <1>2, <2>n
  <2>1. cstack' = Append(Captured, Item) /\ code_pointer' = <<>>
    BY <2>0, Zenon DEF let_declaration
  <2>2. IsSeq(cstack') /\ cstack' # <<>> /\ IsSeq(code_pointer')
    BY <2>1, CapturedIsSeq, AppendIsSeq, EmptyIsSeq
  <2>3. Exact'
    BY <1>1, <1>2, <2>n, <2>1, <2>2 DEF Exact
  <2> QED BY <2>2, <2>3 DEF CaptureInv, Sequences
<1>3. CASE loop_struct_count = 0
  <2>0. ~(loop_struct_count > 0)
    BY <1>3
  <2>1. cstack' = cstack /\ code_pointer' = code_pointer
    BY <2>0, Zenon DEF let_declaration
  <2> QED BY <1>1, <2>1 DEF CaptureInv, Sequences, Exact
<1> QED BY <1>2, <1>3, Zenon DEF let_declaration

LEMMA OpenStep ==
  ASSUME CaptureInv, open
  PROVE  CaptureInv'
<1>0. loop_struct_count' = loop_struct_count + 1
  BY DEF open, Opened
<1>1. /\ exited' = "" /\ scanning' /\ mode' = "COPY"
      /\ cstack' = Append(Captured, Item) /\ code_pointer' = <<>>
  BY Zenon DEF open, Scan, Running
<1>2. IsSeq(cstack') /\ cstack' # <<>> /\ IsSeq(code_pointer')
  BY <1>1, CapturedIsSeq, AppendIsSeq, EmptyIsSeq
<1>3. loop_struct_count \in Nat
  BY DEF CaptureInv, Exact
<1>4. loop_struct_count' \in Nat /\ loop_struct_count' > 0
  BY <1>0, <1>3
<1>5. Exact'
  BY <1>1, <1>2, <1>4, Zenon DEF Exact
<1> QED BY <1>2, <1>5 DEF CaptureInv, Sequences

LEMMA LabelStep ==
  ASSUME CaptureInv, label
  PROVE  CaptureInv'
<1>1. /\ exited = "" /\ scanning /\ scanning' = scanning /\ code_pointer' = <<>>
      /\ loop_struct_count' = loop_struct_count /\ mode' = mode
  BY DEF label, Scan, Running
<1>0. IsSeq(code_pointer')
  BY <1>1, EmptyIsSeq
<1>2. CASE exited' = "label outside a region" /\ cstack' = cstack
  BY <1>0, <1>1, <1>2 DEF CaptureInv, Sequences, Exact
<1>3. CASE Captured # <<>> /\ cstack' = Append(Captured, Item) /\ exited' = exited
  <2>1. IsSeq(cstack') /\ cstack' # <<>>
    BY <1>3, CapturedIsSeq, AppendIsSeq
  <2>2. cstack # <<>>
    BY <1>1, <1>3 DEF CaptureInv, Sequences, Exact, Captured
  <2> QED BY <1>0, <1>1, <1>3, <2>1, <2>2 DEF CaptureInv, Sequences, Exact
<1> QED BY <1>2, <1>3 DEF label

LEMMA CloseStep ==
  ASSUME CaptureInv, close
  PROVE  CaptureInv'
<1>1. exited = "" /\ scanning /\ code_pointer' = <<>>
  BY DEF close, Scan, Running
<1>0. IsSeq(code_pointer')
  BY <1>1, EmptyIsSeq
<1>2. CASE Captured = <<>>
  <2>1. /\ exited' = "end outside a region"
        /\ UNCHANGED <<cstack, loop_struct_count, mode, scanning>>
    BY <1>2 DEF close
  <2> QED BY <1>0, <1>1, <2>1 DEF CaptureInv, Sequences, Exact
<1>3. CASE Captured # <<>>
  <2>1. loop_struct_count > 0 /\ mode = "COPY" /\ loop_struct_count \in Nat
    BY <1>1, <1>3 DEF CaptureInv, Sequences, Exact, Captured
  <2>0. loop_struct_count # 0
    BY <2>1
  <2>2. exited' = "" /\ cstack' = Append(Captured, Item) /\ mode' = "COPY"
    BY <1>1, <1>3, <2>0, <2>1, Zenon DEF close, ModeAfter
  <2>m. loop_struct_count' = loop_struct_count - 1
    BY <1>3, <2>0, Zenon DEF close
  <2>3. IsSeq(cstack') /\ cstack' # <<>>
    BY <2>2, CapturedIsSeq, AppendIsSeq
  <2>4. CASE loop_struct_count = 1
    <3>1. ~scanning'
      BY <1>3, <2>4 DEF close, eval_stack
    <3>0. loop_struct_count' = 0 /\ loop_struct_count' \in Nat
      BY <2>m, <2>4
    <3>2. Exact'
      BY <1>1, <2>2, <3>0, <3>1, Zenon DEF Exact
    <3> QED BY <1>0, <2>3, <3>2 DEF CaptureInv, Sequences
  <2>5. CASE loop_struct_count # 1
    <3>1. scanning'
      BY <1>1, <1>3, <2>5, Zenon DEF close
    <3>0. loop_struct_count' \in Nat /\ loop_struct_count' > 0
      BY <2>1, <2>m, <2>5
    <3>2. Exact'
      BY <1>1, <2>2, <2>3, <3>0, <3>1, Zenon DEF Exact
    <3> QED BY <1>0, <2>3, <3>2 DEF CaptureInv, Sequences
  <2> QED BY <2>4, <2>5
<1> QED BY <1>2, <1>3

LEMMA CInvStep == NoIncludes /\ CInv /\ [PPNext]_ppvars => CInv'
<1> SUFFICES ASSUME NoIncludes, InFiles, CaptureInv, [PPNext]_ppvars
             PROVE  InFiles' /\ CaptureInv'
  BY DEF CInv
<1>1. ~include /\ ~end_of_include
  BY NotAnInclude
<1>2. CASE text \/ define \/ undef \/ use
  BY <1>2, TextStep, ReadStep DEF text, define, undef, use
<1>3. CASE let_declaration
  BY <1>3, LetStep, ReadStep DEF let_declaration
<1>4. CASE open
  BY <1>4, OpenStep, ReadStep DEF open
<1>5. CASE label
  BY <1>5, LabelStep, ReadStep DEF label
<1>6. CASE close
  BY <1>6, CloseStep, ReadStep DEF close
<1>7. CASE evaluate
  <2>1. UNCHANGED <<scanner, capture, mode, scanning, exited>>
    BY <1>7 DEF evaluate
  <2> QED BY <2>1, ReadStep DEF CaptureInv, Sequences, Exact, capture
<1>8. CASE return
  <2>1. /\ UNCHANGED <<scanner, code_pointer, loop_struct_count, exited>>
        /\ cstack' = <<>> /\ mode' = "INITIAL" /\ scanning' = TRUE /\ ~scanning
    BY <1>8 DEF return
  <2>2. Sequences'
    BY <2>1, EmptyIsSeq DEF CaptureInv, Sequences
  <2>3. loop_struct_count' = 0 /\ code_pointer' = <<>> /\ scanning'
    BY <2>1, Zenon DEF CaptureInv, Exact
  <2>4. Exact'
    BY <2>1, <2>3 DEF Exact
  <2> QED BY <2>1, <2>2, <2>4, ReadStep DEF CaptureInv
<1>9. CASE end_of_file
  <2>1. UNCHANGED <<capture, mode, scanning>> /\ exited = ""
    BY <1>9 DEF end_of_file, Running
  <2>2. CaptureInv'
    BY <2>1 DEF CaptureInv, Sequences, Exact, capture
  <2> QED BY <1>9, <2>2, FileStep
<1>10. CASE UNCHANGED ppvars
  BY <1>10, ReadStep DEF CaptureInv, Sequences, Exact, ppvars, capture
<1>11. CASE Stopped
  BY <1>10, <1>11 DEF Stopped
<1> QED BY <1>1, <1>2, <1>3, <1>4, <1>5, <1>6, <1>7, <1>8, <1>9, <1>10, <1>11
        DEF PPNext

\* Without `include, text is captured exactly while a construct is open, in
\* every sequence of files: the start state of the scanner, the count of open
\* constructs and the region agree (the actions of vpp.y).
THEOREM CaptureIsExact == NoIncludes => (PPSpec => []CapturesOpenRegions)
<1> SUFFICES ASSUME NoIncludes
             PROVE  PPSpec => []CapturesOpenRegions
  OBVIOUS
<1>1. PPInit => CInv
  BY CInvInit
<1>2. CInv /\ [PPNext]_ppvars => CInv'
  BY CInvStep
<1>3. CInv => CapturesOpenRegions
  BY DEF CInv, CaptureInv, Exact, CapturesOpenRegions
<1> QED BY <1>1, <1>2, <1>3, PTL DEF PPSpec
=============================================================================
