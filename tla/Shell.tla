-------------------------------- MODULE Shell --------------------------------
(***************************************************************************)
(* The shell of user/shell.c at work with scripts/image_uploader.py: the   *)
(* command loop with gets_s(), loadimg(), which receives a new kernel      *)
(* image next to the running one, and bootstrap_func(), which copies it to *)
(* its place and jumps there.                                              *)
(*                                                                         *)
(* The line carries bytes, some of which the properties tell apart: bytes  *)
(* of the image, by their place in it, and the CRC, taken as one byte that *)
(* no other image has.  It may corrupt or lose one of them: the UART has   *)
(* no flow control.  A 4-byte number is Width bytes of base Base here, and *)
(* the 8-byte unit of bootstrap_func() is Word cells.                      *)
(***************************************************************************)
EXTENDS Integers, Sequences, Powers

CONSTANTS
  KernelEnd,             \* _KERNEL_END; the kernel starts at 0
  BootStart, BootSize,   \* the bootstrap section in it
  Word, CMD_SIZE,
  Base, Width,
  Sizes, Addrs,          \* of the images that are uploaded
  Typed,                 \* how much of Text may have been typed before
  MemSize                \* an address never wraps: physaddr_t has 64 bits

ShellAssumption ==
  /\ Word \in Nat \ {0} /\ CMD_SIZE \in Nat \ {0, 1}
  /\ BootStart \in Nat /\ BootSize \in Nat /\ KernelEnd \in Nat
  /\ BootStart + BootSize <= KernelEnd
  /\ Base \in Nat /\ Base > 3 /\ Width \in Nat \ {0}
  /\ Typed \in Nat /\ MemSize \in Nat
  /\ \A end \in {KernelEnd, 2 * Power(Base, Width)} :
       end + Power(Base, Width) + Word + BootSize <= MemSize
  /\ Sizes \subseteq Word .. Power(Base, Width)-1      \* an image is no shorter than a word
  /\ Addrs \subseteq 0 .. Power(Base, Width)-1

(* Characters; a command line is the word "loadimg" or something else.     *)
LOADIMG == 1
CR == 2
NL == 3
Text == <<0, NL>> \o <<0, 0, CR>> \o <<0, 0, 0, 0, NL>>
LineEnds == {0, 2, 5, 10}

Byte(v)   == [k |-> "byte", v |-> v]
Image(n)  == [i \in 1..n |-> [k |-> "image", v |-> i]]
CRC(n)    == [k |-> "crc", v |-> n]     \* of Image(n)
Bad       == [k |-> "bad", v |-> 0]
Kernel(a) == [k |-> "kernel", v |-> a]
Number(x) == [i \in 1..Width |-> Byte((x \div Power(Base, Width-i)) % Base)]

VARIABLES
  script,       \* what the uploader has still to do
  line,         \* bytes on their way to the shell
  printed,      \* lines on their way to the uploader
  faulty,       \* the line has corrupted or lost a byte
  at,           \* where the shell is
  cmd,          \* gets_s()'s buffer up to idx, getuint32_be()'s up to nread
  res, i,       \* of getuint32_be(); i also of the two copying loops
  image_size, image_addr, nread,
  mem

host == <<script, faulty>>
vars == <<script, line, printed, faulty, at, cmd, res, image_size, image_addr, nread,
          i, mem>>

READLINE == [k |-> "readline", v |-> 0]

Bytes(s) == [j \in 1..Len(s) |-> Byte(s[j])]

Init ==
  /\ \E size \in Sizes, addr \in Addrs :
       script = Bytes(<<LOADIMG, NL>>) \o <<READLINE>> \o Number(size) \o <<READLINE>>
                \o Number(addr) \o <<READLINE, CRC(size)>> \o Image(size)
  /\ \E n \in LineEnds : n <= Typed /\ line = Bytes(SubSeq(Text, 1, n))
  /\ printed = 0 /\ faulty = FALSE
  /\ at = "gets" /\ cmd = <<>>
  /\ res = 0 /\ image_size = 0 /\ image_addr = 0 /\ nread = 0 /\ i = 0
  /\ mem = [a \in 0..MemSize-1 |-> IF a < KernelEnd THEN Kernel(a) ELSE Bad]
-----------------------------------------------------------------------------
(* The uploader and the line. *)
local == <<at, cmd, res, image_size, image_addr, nread, i, mem>>

ReadLine ==
  /\ script # <<>> /\ Head(script) = READLINE /\ printed > 0
  /\ script' = Tail(script) /\ printed' = printed - 1
  /\ UNCHANGED <<line, faulty, local>>

Send ==
  /\ script # <<>> /\ Head(script) # READLINE
  /\ line' = Append(line, Head(script))
  /\ script' = Tail(script)
  /\ UNCHANGED <<printed, faulty, local>>

Damaged(byte) ==
  IF byte.k = "byte" THEN {Byte(v) : v \in 0..Base-1} \ {byte} ELSE {Bad}

SendFaulty ==
  /\ script # <<>> /\ Head(script) # READLINE /\ ~faulty
  /\ faulty' = TRUE
  /\ \/ UNCHANGED line
     \/ \E byte \in Damaged(Head(script)) : line' = Append(line, byte)
  /\ script' = Tail(script)
  /\ UNCHANGED <<printed, local>>
-----------------------------------------------------------------------------
(* gets_s(): a line is echoed and ends with its NL or when the buffer is   *)
(* full; the last character gives way to the NUL.                          *)
Value(byte) == byte.v % Base
getchar == IF Value(Head(line)) = CR THEN NL ELSE Value(Head(line))

FullOneLater(idx) == idx = CMD_SIZE
Full(idx) == idx + 1 = CMD_SIZE

gets_s ==
  /\ at = "gets" /\ line # <<>>
  /\ line' = Tail(line)
  /\ printed' = printed + (IF getchar = NL THEN 1 ELSE 0)
  /\ IF getchar = NL \/ Full(Len(cmd))
     THEN at' = "command" /\ UNCHANGED cmd
     ELSE at' = at /\ cmd' = Append(cmd, getchar)
  /\ UNCHANGED <<host, res, image_size, image_addr, nread, i, mem>>

(* strcmp() with the commands; any other than loadimg prints a line.       *)
Command ==
  /\ at = "command" /\ cmd' = <<>>
  /\ IF cmd = <<LOADIMG>>
     THEN at' = "size" /\ UNCHANGED printed
     ELSE at' = "gets" /\ printed' = printed + 1
  /\ UNCHANGED <<host, line, res, image_size, image_addr, nread, i, mem>>

(***************************************************************************)
(* getuint32_be(): pl011_uart_read() gives what has arrived of the bytes   *)
(* still wanted.  cmd holds the bytes; when there are Width of them a loop *)
(* makes a number of them.                                                 *)
(***************************************************************************)
Least(m, n) == IF m < n THEN m ELSE n
Arrived(wanted) == 1 .. Least(wanted, Len(line))

FromTheEnd(buf, j) == buf[Len(buf) - j]
FromTheFront(buf, j) == buf[j + 1]

ReadBytes ==
  /\ at \in {"size", "addr"} /\ Len(cmd) < Width
  /\ \E k \in Arrived(Width - Len(cmd)) :
       cmd' = cmd \o SubSeq(line, 1, k) /\ line' = SubSeq(line, k+1, Len(line))
  /\ UNCHANGED <<host, printed, at, res, image_size, image_addr, nread, i, mem>>

AddByte ==
  /\ at \in {"size", "addr"} /\ Len(cmd) = Width /\ i < Width
  /\ res' = (res * Base + Value(FromTheFront(cmd, i))) % Power(Base, Width)
  /\ i' = i + 1
  /\ UNCHANGED <<host, line, printed, at, cmd, image_size, image_addr, nread, mem>>

Returned ==
  /\ Len(cmd) = Width /\ i = Width
  /\ cmd' = <<>> /\ res' = 0 /\ i' = 0
  /\ printed' = printed + 1

GotSize ==
  /\ at = "size" /\ Returned
  /\ at' = "addr" /\ image_size' = res
  /\ UNCHANGED <<host, line, image_addr, nread, mem>>

GotAddr ==
  /\ at = "addr" /\ Returned
  /\ at' = "checksum" /\ image_addr' = res
  /\ UNCHANGED <<host, line, image_size, nread, mem>>

ReadChecksum ==
  /\ at = "checksum" /\ line # <<>>
  /\ cmd' = <<Head(line)>> /\ line' = Tail(line)
  /\ at' = "image"
  /\ UNCHANGED <<host, printed, res, image_size, image_addr, nread, i, mem>>
-----------------------------------------------------------------------------
(* loadimg(): where everything goes. *)
ROUNDUP(a, n) == ((a + n - 1) \div n) * n

ImageEnd == image_addr + image_size
BehindKernel == KernelEnd
BehindImage == ImageEnd
tmp_image_addr == IF KernelEnd >= ImageEnd THEN KernelEnd ELSE ImageEnd

InPlace == BootStart
new_bootstrap_addr == ROUNDUP(tmp_image_addr + image_size, Word)

Stored(a, s) ==
  [b \in DOMAIN mem |-> IF b \in a .. a + Len(s) - 1 THEN s[b - a + 1] ELSE mem[b]]
Stretch(a, n) == [j \in 1..n |-> mem[a + j - 1]]

ReadImage ==
  /\ at = "image"
  /\ IF nread < image_size
     THEN \E k \in Arrived(image_size - nread) :
            /\ mem' = Stored(tmp_image_addr + nread, SubSeq(line, 1, k))
            /\ line' = SubSeq(line, k+1, Len(line))
            /\ nread' = nread + k
            /\ UNCHANGED at
     ELSE at' = "check" /\ nread' = 0 /\ UNCHANGED <<mem, line>>
  /\ UNCHANGED <<host, printed, cmd, res, image_size, image_addr, i>>

NotCompared == TRUE
ChecksumRight == cmd = <<CRC(image_size)>>
                 /\ Stretch(tmp_image_addr, image_size) = Image(image_size)

Check ==
  /\ at = "check" /\ cmd' = <<>>
  /\ IF ChecksumRight
     THEN at' = "move" /\ UNCHANGED printed
     ELSE at' = "gets" /\ printed' = printed + 3
  /\ UNCHANGED <<host, line, res, image_size, image_addr, nread, i, mem>>

(* The bootstrap section is copied byte by byte and called.                *)
MoveBootstrap ==
  /\ at = "move"
  /\ IF i < BootSize
     THEN /\ mem' = Stored(new_bootstrap_addr + i, <<mem[BootStart + i]>>)
          /\ i' = i + 1 /\ UNCHANGED at
     ELSE at' = "bootstrap" /\ i' = 0 /\ UNCHANGED mem
  /\ UNCHANGED <<host, line, printed, cmd, res, image_size, image_addr, nread>>

(* bootstrap_func(): the image goes to its place in units of a word.       *)
bootstrap_func ==
  /\ at = "bootstrap"
  /\ IF i < ROUNDUP(image_size, Word) \div Word
     THEN /\ mem' = Stored(image_addr + i*Word,
                           Stretch(tmp_image_addr + i*Word, Word))
          /\ i' = i + 1 /\ UNCHANGED at
     ELSE at' = "started" /\ UNCHANGED <<mem, i>>
  /\ UNCHANGED <<host, line, printed, cmd, res, image_size, image_addr, nread>>

Uploader == ReadLine \/ Send
Run ==
  \/ gets_s \/ Command \/ ReadBytes \/ AddByte \/ GotSize \/ GotAddr
  \/ ReadChecksum \/ ReadImage \/ Check \/ MoveBootstrap \/ bootstrap_func

Next == Uploader \/ SendFaulty \/ Run

Fairness == WF_vars(Uploader) /\ WF_vars(Run)
Spec == Init /\ [][Next]_vars
FairSpec == Spec /\ Fairness
-----------------------------------------------------------------------------
(* Nothing is stored outside the memory or the command's buffer.           *)
TypeOK ==
  /\ at \in {"gets", "command", "size", "addr", "checksum", "image", "check",
             "move", "bootstrap", "started"}
  /\ at \in {"gets", "command"} => Len(cmd) < CMD_SIZE
  /\ image_size \in 0..Power(Base, Width)-1 /\ image_addr \in 0..Power(Base, Width)-1
  /\ nread \in 0..image_size
  /\ new_bootstrap_addr + BootSize <= MemSize

(* Until bootstrap_func() runs, the old kernel, which executes all this,   *)
(* is untouched, wherever the new image is to go and whatever came in      *)
(* place of its size and address.                                          *)
KernelIntact ==
  at \notin {"bootstrap", "started"} =>
    \A a \in 0..KernelEnd-1 : mem[a] = Kernel(a)

(* bootstrap_func() does not overwrite itself, nor the stack above it,     *)
(* although it writes whole words and may round up into the region behind. *)
BootstrapIntact ==
  at \in {"bootstrap", "started"} =>
    \A j \in 0..BootSize-1 : mem[new_bootstrap_addr + j] = Kernel(BootStart + j)

(* What is started is, byte for byte, an image that was sent: the copy     *)
(* does not overwrite what it has still to read, and no fault of the line  *)
(* gets past the checksum.                                                 *)
StartsSentImage ==
  at = "started" => Stretch(image_addr, image_size) = Image(image_size)

(* An upload over a line without faults ends with the new image running,   *)
(* whatever was typed before.                                              *)
Uploaded == at = "started" \/ faulty
UploadStarts == <>Uploaded
=============================================================================
