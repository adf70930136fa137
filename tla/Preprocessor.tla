---------------------------- MODULE Preprocessor ----------------------------
(***************************************************************************)
(* The scanner and the grammar actions of the PML preprocessor (pml/vpp.l, *)
(* pml/vpp.y) around EvalStack.  Outside of regions a line takes effect at *)
(* once (mode INITIAL).  A directive that opens a construct starts to      *)
(* capture: text and directives are kept (mode COPY) until as many         *)
(* constructs are closed as were opened, and then eval_stack walks them.   *)
(* All of the state is global: it lives on from an included file to the    *)
(* including one and from one input file to the next.                      *)
(*                                                                         *)
(* A source is a sequence of items, one per line.  The text of a macro is  *)
(* a function of its name.  Lines that the grammar rejects are left out.   *)
(***************************************************************************)
EXTENDS EvalStack

CONSTANTS
  Jobs,               \* records: sources, items by file name; files, the inputs
  MAX_INCLUDE_DEPTH   \* entries of include_stack: 64 in the code

ASSUME IncludeAssumption == MAX_INCLUDE_DEPTH \in Nat \ {0}

VARIABLES
  job,                \* the files of this run of the translator
  file_cnt,           \* input files left, the current one included
  buffer,             \* the file being read and the next item in it
  include_stack,      \* what to go on with after an included file
  mode,               \* start state of the scanner between two directives
  cstack,             \* the nodes of the open region
  code_pointer,       \* captured text that is not in a node yet
  loop_struct_count,  \* constructs that are open
  scanning,           \* FALSE while eval_stack runs
  exited              \* why the translator has given up, or ""

scanner == <<job, file_cnt, buffer, include_stack>>
capture == <<cstack, code_pointer, loop_struct_count>>
ppvars  == <<vars, scanner, capture, mode, scanning, exited>>

Openers == Conditionals \cup Loops \cup {"SWITCH"}
Closers == LoopEnds \cup {"ENDIF", "ENDSWITCH"}
Labels  == {"ELSE", "CASE", "BREAKSW", "DEFAULT"}

Source == job.sources[buffer.file]
AtEnd  == buffer.at > Len(Source)
Item   == Source[buffer.at]

Running == exited = "" /\ file_cnt > 0 /\ mode # "MPP"
Scan(types) == Running /\ scanning /\ ~AtEnd /\ Item.type \in types
Read == /\ buffer' = [buffer EXCEPT !.at = @ + 1]
        /\ UNCHANGED <<job, file_cnt, include_stack>>

-----------------------------------------------------------------------------
(* Lines that are no directives of the grammar.                            *)

store_it(kind, name) ==
  code_pointer' = Append(code_pointer, [kind |-> kind, name |-> name])

text ==
  /\ Scan({"TEXT"}) /\ Read
  /\ \/ /\ mode = "INITIAL"
        /\ out' = Append(out, <<Item.name, 0>>)
        /\ UNCHANGED code_pointer
     \/ /\ mode = "COPY"
        /\ store_it("text", Item.name)
        /\ UNCHANGED out
  /\ UNCHANGED <<program, ll, active, conditionals, loops, switches, values,
                 defines, errors, cstack, loop_struct_count, mode, scanning,
                 exited>>

define ==
  /\ Scan({"DEFINE"}) /\ Read
  /\ \/ /\ mode = "INITIAL"
        /\ defines' = defines \cup {Item.name}
        /\ UNCHANGED code_pointer
     \/ /\ mode = "COPY"
        /\ store_it("define", Item.name)
        /\ UNCHANGED defines
  /\ UNCHANGED <<program, ll, active, conditionals, loops, switches, values,
                 out, errors, cstack, loop_struct_count, mode, scanning, exited>>

\* The macro goes at once, in both modes; the line itself is text.
undef ==
  /\ Scan({"UNDEF"}) /\ Read
  /\ defines' = defines \ {Item.name}
  /\ \/ /\ mode = "INITIAL"
        /\ out' = Append(out, <<"undef", 0>>)
        /\ UNCHANGED code_pointer
     \/ /\ mode = "COPY"
        /\ store_it("text", "undef")
        /\ UNCHANGED out
  /\ UNCHANGED <<program, ll, active, conditionals, loops, switches, values,
                 errors, cstack, loop_struct_count, mode, scanning, exited>>

\* A captured macro that is defined is expanded when it is captured, other
\* names when they are printed.
use ==
  /\ Scan({"USE"}) /\ Read
  /\ \/ /\ mode = "INITIAL"
        /\ LET shown == print_variable(Item.name, defines)
           IN /\ out' = out \o shown
              /\ errors' = IF shown = <<>> THEN errors \cup {"not defined"} ELSE errors
        /\ UNCHANGED code_pointer
     \/ /\ mode = "COPY"
        /\ store_it(IF Item.name \in defines THEN "text" ELSE "variable", Item.name)
        /\ UNCHANGED <<out, errors>>
  /\ UNCHANGED <<program, ll, active, conditionals, loops, switches, values,
                 defines, cstack, loop_struct_count, mode, scanning, exited>>

-----------------------------------------------------------------------------
(* Directives of the grammar.                                              *)

CodeDropped == cstack
Captured == IF code_pointer = <<>> THEN cstack
            ELSE Append(cstack, [type |-> "CODE", items |-> code_pointer])

Assign(var, ep) ==
  LET n == evaluate_expression(ep, values)
  IN [v \in DOMAIN values \cup {var} |-> IF v = var THEN n ELSE values[v]]

\* In a region a variable is given its value when the region is evaluated,
\* unless it is new: then it is created with its value when it is captured.
let_declaration ==
  /\ Scan({"LET"}) /\ Read
  /\ \/ /\ loop_struct_count > 0
        /\ cstack' = Append(Captured, Item)
        /\ code_pointer' = <<>>
        /\ values' = IF Item.var \in DOMAIN values THEN values
                     ELSE Assign(Item.var, Item.ep)
     \/ /\ loop_struct_count = 0
        /\ values' = Assign(Item.var, Item.ep)
        /\ UNCHANGED <<cstack, code_pointer>>
  /\ UNCHANGED <<program, ll, active, conditionals, loops, switches, defines,
                 out, errors, loop_struct_count, mode, scanning, exited>>

Opened     == loop_struct_count + 1

open ==
  /\ Scan(Openers) /\ Read
  /\ cstack' = Append(Captured, Item)
  /\ code_pointer' = <<>>
  /\ loop_struct_count' = Opened
  /\ mode' = "COPY"
  /\ values' = IF Item.type = "FOR" THEN Assign(Item.var, Item.init) ELSE values
  /\ UNCHANGED <<program, ll, active, conditionals, loops, switches, defines,
                 out, errors, scanning, exited>>

label ==
  /\ Scan(Labels) /\ Read
  /\ code_pointer' = <<>>
  /\ \/ /\ Captured = <<>>
        /\ exited' = "label outside a region"
        /\ UNCHANGED cstack
     \/ /\ Captured # <<>>
        /\ cstack' = Append(Captured, Item)
        /\ UNCHANGED exited
  /\ UNCHANGED <<vars, loop_struct_count, mode, scanning>>

eval_stack(nodes) ==
  /\ scanning' = FALSE
  /\ program' = [nodes |-> nodes]
  /\ ll' = 1
  /\ active' = TRUE
  /\ for_stack' = <<>>
  /\ switch_stack' = <<>>
  /\ switch_struct' = create_switch_structure(nodes)
  /\ eval_first' = create_loop_structure(nodes)

\* The start state after a construct is closed: the one before the directive
\* if others are open; without any, the code leaves it as it was for the
\* directive.
ModeStays == "MPP"
ModeReset == IF loop_struct_count = 0 THEN "MPP" ELSE "INITIAL"
ModeAfter == IF loop_struct_count = 0 THEN "MPP" ELSE mode

close ==
  /\ Scan(Closers) /\ Read
  /\ code_pointer' = <<>>
  /\ \/ /\ Captured = <<>>
        /\ exited' = "end outside a region"
        /\ UNCHANGED <<vars, cstack, loop_struct_count, mode, scanning>>
     \/ /\ Captured # <<>>
        /\ cstack' = Append(Captured, Item)
        /\ mode' = ModeAfter
        /\ loop_struct_count' = IF loop_struct_count = 0 THEN 0
                                ELSE loop_struct_count - 1
        /\ IF loop_struct_count = 1
             THEN /\ eval_stack(cstack')
                  /\ UNCHANGED <<conditionals, world, errors>>
             ELSE UNCHANGED <<vars, scanning>>
        /\ UNCHANGED exited

\* One step of eval_stack, and its return.
evaluate ==
  /\ Running /\ ~scanning
  /\ \/ check_for_if \/ check_for_else \/ handle_endif
     \/ print_out_code \/ let
     \/ LoopEntered \/ LoopedBack \/ LoopEnd
     \/ switch \/ case \/ breaksw \/ default \/ endswitch
     \/ Passed
  /\ UNCHANGED <<scanner, capture, mode, scanning, exited>>

return ==
  /\ Running /\ ~scanning /\ Done
  /\ scanning' = TRUE
  /\ cstack' = <<>>
  /\ mode' = "INITIAL"
  /\ UNCHANGED <<vars, scanner, code_pointer, loop_struct_count, exited>>

-----------------------------------------------------------------------------
(* Files.                                                                  *)

IncludesFullLate == Len(include_stack) > MAX_INCLUDE_DEPTH
IncludesFull     == Len(include_stack) >= MAX_INCLUDE_DEPTH

\* What is kept of the including file: it goes on behind the directive, in
\* the start state of the directive.
Resume == [file |-> buffer.file, at |-> buffer.at + 1, state |-> mode]

include ==
  /\ Scan({"INCLUDE"})
  /\ \/ /\ IncludesFull
        /\ exited' = "include nesting limit"
        /\ UNCHANGED <<buffer, include_stack>>
     \/ /\ ~IncludesFull
        /\ include_stack' = Append(include_stack, Resume)
        /\ buffer' = [file |-> Item.file, at |-> 1]
        /\ UNCHANGED exited
  /\ UNCHANGED <<vars, job, file_cnt, capture, mode, scanning>>

\* yywrap is called at the end of every file, included or not, and looks at
\* the last node of the region.
Reported ==
  /\ cstack # <<>>
  /\ Top(cstack).type \in Openers \cup {"ELSE", "CASE", "BREAKSW"}

yywrap ==
  errors' = IF Reported THEN errors \cup {"declaration not terminated"} ELSE errors

end_of_include ==
  /\ Running /\ scanning /\ AtEnd /\ include_stack # <<>>
  /\ yywrap
  /\ buffer' = [file |-> Top(include_stack).file, at |-> Top(include_stack).at]
  /\ mode' = Top(include_stack).state
  /\ include_stack' = Pop(include_stack)
  /\ UNCHANGED <<program, ll, active, conditionals, loops, switches, world,
                 job, file_cnt, capture, scanning, exited>>

\* The next file is read if the parser has counted no error.
end_of_file ==
  /\ Running /\ scanning /\ AtEnd /\ include_stack = <<>>
  /\ yywrap
  /\ \/ /\ "not defined" \in errors
        /\ exited' = "preprocessor error"
        /\ UNCHANGED <<file_cnt, buffer>>
     \/ /\ "not defined" \notin errors
        /\ file_cnt' = file_cnt - 1
        /\ buffer' = IF file_cnt > 1
                       THEN [file |-> job.files[Len(job.files) - file_cnt + 2],
                             at |-> 1]
                       ELSE buffer
        /\ UNCHANGED exited
  /\ UNCHANGED <<program, ll, active, conditionals, loops, switches, world,
                 job, include_stack, capture, mode, scanning>>

Stopped == ~Running /\ UNCHANGED ppvars

PPInit ==
  /\ job \in Jobs
  /\ file_cnt = Len(job.files)
  /\ buffer = [file |-> job.files[1], at |-> 1]
  /\ include_stack = <<>>
  /\ mode = "INITIAL"
  /\ cstack = <<>> /\ code_pointer = <<>> /\ loop_struct_count = 0
  /\ scanning = TRUE
  /\ exited = ""
  /\ program = [nodes |-> <<>>] /\ ll = 1 /\ active = TRUE
  /\ Head_Loop_Stack = <<>> /\ for_stack = <<>> /\ switch_stack = <<>>
  /\ switch_struct = create_switch_structure(<<>>)
  /\ eval_first = create_loop_structure(<<>>)
  /\ values = InitialValues /\ defines = InitialDefines
  /\ out = <<>> /\ errors = {}

PPNext ==
  \/ text \/ define \/ undef \/ use
  \/ let_declaration \/ open \/ label \/ close
  \/ evaluate \/ return
  \/ include \/ end_of_include \/ end_of_file
  \/ Stopped

PPSpec == PPInit /\ [][PPNext]_ppvars

\* The translator is one sequential program.
PPFairSpec == PPSpec /\ WF_ppvars(PPNext)

-----------------------------------------------------------------------------
Finished == file_cnt = 0

\* include_stack, include_nl_count and include_fname are not written beyond
\* their end, however files include each other.
IncludesFit == Len(include_stack) <= MAX_INCLUDE_DEPTH

\* Text is captured exactly while a construct is open, also across the
\* boundaries of files, if every file closes what it opens.
CapturesOpenRegions ==
  exited = "" /\ scanning =>
    /\ mode = "COPY" <=> loop_struct_count > 0
    /\ loop_struct_count > 0 <=> cstack # <<>>
    /\ code_pointer # <<>> => cstack # <<>>

\* "Detect missing end declaration statements at EOF": whoever ends with an
\* open construct is told so.
UnterminatedReported ==
  Finished /\ loop_struct_count > 0 => "declaration not terminated" \in errors

\* Who is told of a declaration that is not terminated has left one open.
ReportsAreTrue ==
  Finished /\ "declaration not terminated" \in errors => loop_struct_count > 0

\* The translator ends, also when files include themselves.
Ends == <>(Finished \/ exited # "")
=============================================================================
