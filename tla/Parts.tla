-------------------------------- MODULE Parts --------------------------------
(***************************************************************************)
(* The parts of the system that share no state with the others, side by    *)
(* side: the ring under a run queue (Runqueue, extended), vsnprintf()      *)
(* (PrintFmt), string.c (Strings), mailbox_call() (Mailbox) and the shell  *)
(* with the image loader (Shell).  A behaviour is one of any one of them:  *)
(* `part' says whose, and the variables of the others stay absent.         *)
(***************************************************************************)
EXTENDS Runqueue, Integers

CONSTANTS
  IntBits, LongBits, IntArgs, Widths, NumFlags, Sizes, MaxDirectives, MAXERROR,
  StringCells, Char, StringIntBits, NumChar, Bases,
  Buffer, Foreign, Depth, Unread,
  KernelEnd, BootStart, BootSize, Word, CMD_SIZE, Base, Width, ImageSizes, Addrs,
  Typed, RamCells

VARIABLES
  part, at, mem,
  asked, fmt, pos, args, e, size, b,
  call, d, s, n, ret,
  requests, answers, content, msg, reused,
  script, line, printed, faulty, cmd, res, image_size, image_addr, nread, i

printfmt == <<asked, fmt, pos, args, e, size, b>>
strings  == <<call, d, s, n, ret>>
mailbox  == <<requests, answers, content, msg, reused>>
shell    == <<script, line, printed, faulty, cmd, res, image_size, image_addr, nread, i>>
allvars  == <<vars, part, at, mem, printfmt, strings, mailbox, shell>>

F == INSTANCE PrintFmt
S == INSTANCE Strings WITH MemSize <- StringCells, IntBits <- StringIntBits
B == INSTANCE Mailbox
U == INSTANCE Shell WITH Sizes <- ImageSizes, MemSize <- RamCells

ASSUME PartsAssumption ==
  /\ F!PrintFmtAssumption /\ S!StringsAssumption
  /\ B!MailboxAssumption /\ U!ShellAssumption

NoPrintFmt ==
  /\ asked = NULL /\ fmt = NULL /\ pos = NULL /\ args = NULL /\ e = NULL
  /\ size = NULL /\ b = NULL
NoStrings == call = NULL /\ d = NULL /\ s = NULL /\ n = NULL /\ ret = NULL
NoMailbox ==
  requests = NULL /\ answers = NULL /\ content = NULL /\ msg = NULL /\ reused = NULL
NoShell ==
  /\ script = NULL /\ line = NULL /\ printed = NULL /\ faulty = FALSE /\ cmd = NULL /\ res = NULL
  /\ image_size = NULL /\ image_addr = NULL /\ nread = NULL /\ i = NULL
NoMem == mem = NULL

PartsInit ==
  /\ Init
  /\ \/ /\ part = "runqueue"
        /\ at = NULL /\ NoMem /\ NoPrintFmt /\ NoStrings /\ NoMailbox /\ NoShell
     \/ part = "printfmt" /\ F!Init /\ NoMem /\ NoStrings /\ NoMailbox /\ NoShell
     \/ part = "strings" /\ S!Init /\ NoPrintFmt /\ NoMailbox /\ NoShell
     \/ part = "mailbox" /\ B!Init /\ NoMem /\ NoPrintFmt /\ NoStrings /\ NoShell
     \/ part = "shell" /\ U!Init /\ NoPrintFmt /\ NoStrings /\ NoMailbox

RunqueueStep ==
  /\ part = "runqueue" /\ Next
  /\ UNCHANGED <<part, at, mem, printfmt, strings, mailbox, shell>>
PrintFmtStep ==
  /\ part = "printfmt" /\ F!Next
  /\ UNCHANGED <<vars, part, mem, strings, mailbox, shell>>
StringsStep ==
  /\ part = "strings" /\ S!Next
  /\ UNCHANGED <<vars, part, printfmt, mailbox, shell>>
MailboxStep ==
  /\ part = "mailbox" /\ B!Next
  /\ UNCHANGED <<vars, part, mem, printfmt, strings, shell>>
ShellStep ==
  /\ part = "shell" /\ U!Next
  /\ UNCHANGED <<vars, part, printfmt, strings, mailbox>>

PartsNext == RunqueueStep \/ PrintFmtStep \/ StringsStep \/ MailboxStep \/ ShellStep

(* Each part is scheduled as if it were alone: the program is never held   *)
(* up for ever, nor is the GPU or the uploader it works with.              *)
Program ==
  \/ PrintFmtStep
  \/ part = "mailbox" /\ B!mailbox_call /\ MailboxStep
  \/ part = "shell" /\ U!Run /\ ShellStep
Partner ==
  \/ part = "mailbox" /\ B!GPU /\ MailboxStep
  \/ part = "shell" /\ U!Uploader /\ ShellStep

PartsSpec ==
  /\ PartsInit /\ [][PartsNext]_allvars
  /\ WF_allvars(Program) /\ WF_allvars(Partner)
-----------------------------------------------------------------------------
(* What the modules state of their parts; more in the comments there.      *)
Of(p, inv) == part = p => inv

(* Every part keeps to its types: string writes stay inside the memory and  *)
(* the buffer (F, S), the mailbox inside its queues (B), the shell inside   *)
(* its line (U), the ring's positions inside the array (TypeOK).            *)
PartsTypeOK ==
  /\ TypeOK
  /\ Of("printfmt", F!TypeOK) /\ Of("strings", S!TypeOK)
  /\ Of("mailbox", B!TypeOK)  /\ Of("shell", U!TypeOK)

(* vsnprintf() writes what the directives ask for (PrintFmt).               *)
PrintsWhatWasAsked == Of("printfmt", F!PrintsWhatWasAsked)

(* Each function of string.c returns and leaves what it says (Strings).     *)
DoesWhatItSays == Of("strings", S!DoesWhatItSays)

(* mailbox_call() returns with its response in the buffer (Mailbox).        *)
ResponseThere == Of("mailbox", B!ResponseThere)

(* Until the copy is over nothing overwrites the running kernel, and then   *)
(* nothing overwrites the bootstrap code that copies (Shell).               *)
RamIntact == Of("shell", U!KernelIntact /\ U!BootstrapIntact)

(* An image is started only as it was sent (Shell).                         *)
StartsSentImage == Of("shell", U!StartsSentImage)

(* vsnprintf() comes to an end (Terminates), mailbox_call() returns        *)
(* (CallReturns) and an upload ends with the new image running, unless the *)
(* line corrupts or loses a byte (UploadStarts).                           *)
UnderWay ==
  \/ part = "printfmt" /\ ~F!Done
  \/ part = "mailbox" /\ B!Calling
  \/ part = "shell" /\ ~U!Uploaded
WorkEnds == UnderWay ~> ~UnderWay
=============================================================================
