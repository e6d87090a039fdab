------------------------------- MODULE Screen ------------------------------
(***************************************************************************)
(* The screen of both kernels: io.c, devices.c and the calls that write on *)
(* it.  "later" is the kernel in ZeOSSysenter/zeos, which has all of them, *)
(* "earlier" the one in zeOSpparri, whose write is another one and which   *)
(* echoes keys.  Calls and interrupt handlers are not interrupted, so that *)
(* each one is a single action, and all that is left of one is the cursor. *)
(*                                                                         *)
(* Cells are numbered along the rows, as in the video memory at 0xb8000;   *)
(* positions stay below 256, so that their conversion to Byte is left out. *)
(***************************************************************************)
EXTENDS UserMemory, SequencesExt

CONSTANTS
  NUM_ROWS,     \* 25 in the code
  NUM_COLUMNS,  \* 80 in the code
  FIRST_ROW,    \* the row of the cursor at boot, 19 in the code
  BootText,     \* characters main prints before user mode
  TAM_BUFFER,   \* the kernel buffer of sys_write (BUFFER_SIZE in the earlier kernel)
  Newlines,     \* addresses that hold a new line
  Addrs, Sizes, \* arguments of write
  SpriteAddrs,  \* where the records of sprites are
  Positions,    \* coordinates passed to gotoXY and spritePut
  Colors,       \* colours passed to SetColor
  Sprites,      \* sprites: rows x, columns y, content; << >> is NULL
  Numbers       \* numbers that programs print

ASSUME ScreenAssumption ==
  /\ {NUM_ROWS, NUM_COLUMNS, TAM_BUFFER} \subseteq Nat \ {0}
  /\ FIRST_ROW \in 0 .. NUM_ROWS - 1
  /\ Addrs \cup SpriteAddrs \subseteq 0 .. ADDRESS_RANGE - 1
  /\ Sizes \cup Positions \cup Colors \cup Numbers \subseteq Int
  /\ \A size \in Sizes : 2 * size <= ADDRESS_RANGE
  /\ \E n \in Numbers : \A m \in Numbers : m <= n
  /\ BootText \in Seq(STRING)

(* The content of a sprite is what its loops over rows and columns read.   *)
ASSUME SpriteAssumption ==
  \A sp \in Sprites :
    /\ sp.x \in Int /\ sp.y \in Int /\ sp.content \in Seq(STRING)
    /\ sp.x > 0 /\ sp.y > 0 /\ sp.content # << >> => Len(sp.content) = sp.x * sp.y

VARIABLES
  kernel,          \* which of the two
  copyPage,        \* the page after the data is mapped, as fork may leave it
  x, y,            \* the cursor: column and row
  textColor,       \* text colour, 0x2 in the earlier kernel
  textBackground,  \* background, 0x0 in the earlier kernel
  last             \* history: the last call, its result, what it printed and
                   \* the cells it wrote

vars == << kernel, copyPage, x, y, textColor, textBackground, last >>

-----------------------------------------------------------------------------
(* Printing.  p is a cursor p.x, p.y together with the cells written.      *)

NewLine(p) == [p EXCEPT !.x = 0, !.y = (@ + 1) % NUM_ROWS]

Wrap(p) == IF p.x >= NUM_COLUMNS THEN NewLine(p) ELSE p

printc(p, c) ==
  IF c = "\n" THEN NewLine(p)
  ELSE Wrap([p EXCEPT !.x = @ + 1, !.cells = @ \cup {p.y * NUM_COLUMNS + p.x}])

printc_xy(p, mx, my, c) ==
  [printc([p EXCEPT !.x = mx, !.y = my], c) EXCEPT !.x = p.x, !.y = p.y]

printk(p, string) == FoldLeft(printc, p, string)

Cursor == [x |-> x, y |-> y, cells |-> {}]

(* The end of a call that leaves cursor and cells p and returns ret.       *)
Done(call, ret, printed, p) ==
  /\ x' = p.x /\ y' = p.y
  /\ last' = [call |-> call, ret |-> ret, printed |-> printed, cells |-> p.cells]
  /\ UNCHANGED << kernel, copyPage >>

(* A call that returns an error, and changes nothing.                      *)
Refused(call, errno) == Done(call, errno, << >>, Cursor)

-----------------------------------------------------------------------------
Init ==
  /\ kernel \in {"later", "earlier"}
  /\ copyPage \in BOOLEAN /\ (copyPage => kernel = "later")
  /\ LET p == printk([x |-> 0, y |-> FIRST_ROW, cells |-> {}], BootText)
     IN x = p.x /\ y = p.y
  /\ textColor = 2
  /\ textBackground = 0
  /\ last = [call |-> [op |-> "boot"], ret |-> "ok", printed |-> << >>, cells |-> {}]

(* The page fault handlers do not return.                                  *)
Running == last.ret # "page_fault"

(* The pages of the kernel but NULL, those of the program, and perhaps the *)
(* next one.                                                               *)
Mapped(addr) == PageOf(addr) \in 1 .. (IF copyPage THEN USER_END ELSE USER_END - 1)

-----------------------------------------------------------------------------
(* write.                                                                  *)

(* Mutant: the buffer and the offset both advance.                         *)
MutDoubleStride == 2 * TAM_BUFFER

(* How far apart the chunks of TAM_BUFFER bytes are read.                  *)
Stride == TAM_BUFFER

(* The earlier kernel advances the pointer, and adds the bytes it has      *)
(* written to it once more.                                                *)
EarlierStride == 2 * TAM_BUFFER

(* The chunks a write copies from addr on, the last of them the rest.      *)
Chunks(addr, nbytes, stride) ==
  [i \in 1 .. (nbytes + TAM_BUFFER - 1) \div TAM_BUFFER |->
     copy_from_user(addr + (i - 1) * stride,
                    IF i * TAM_BUFFER < nbytes THEN TAM_BUFFER
                                               ELSE nbytes - (i - 1) * TAM_BUFFER)]

CharAt(addr) == IF addr \in Newlines THEN "\n" ELSE "c"

sys_write_console(p, bytes) == printk(p, [i \in DOMAIN bytes |-> CharAt(bytes[i])])

(* Chunk after chunk is copied and printed until the rest is done or the   *)
(* kernel faults on a page that is not mapped.                             *)
WriteChunks(call, chunks) ==
  LET faults == {i \in DOMAIN chunks : \E k \in DOMAIN chunks[i] : ~ Mapped(chunks[i][k])}
      done == IF faults = {} THEN Len(chunks)
              ELSE (CHOOSE i \in faults : \A j \in faults : i <= j) - 1
      printed == FlattenSeq(SubSeq(chunks, 1, done))
  IN Done(call, IF faults = {} THEN "ok" ELSE "page_fault", printed,
          sys_write_console(Cursor, printed))

(* check_fd, with the permission to write.                                 *)
check_fd(fd) == fd = 1

sys_write(fd, addr, nbytes) ==
  LET call == [op |-> "write", addr |-> addr, size |-> nbytes]
  IN /\ Running /\ kernel = "later"
     /\ \/ ~ check_fd(fd) /\ Refused(call, "EBADF")
        \/ check_fd(fd) /\ nbytes < 0 /\ Refused(call, "EINVAL")
        \/ /\ check_fd(fd) /\ nbytes >= 0
           /\ ~ access_ok(kernel, "VERIFY_READ", addr, nbytes)
           /\ Refused(call, "EFAULT")
        \/ /\ check_fd(fd) /\ nbytes >= 0
           /\ access_ok(kernel, "VERIFY_READ", addr, nbytes)
           /\ WriteChunks(call, Chunks(addr, nbytes, Stride))
     /\ UNCHANGED << textColor, textBackground >>

(* sys_write of the earlier kernel, which asks whether the block may be    *)
(* written.                                                                *)
EarlierWrite(fd, addr, size) ==
  LET call == [op |-> "write", addr |-> addr, size |-> size]
      ok == access_ok(kernel, "VERIFY_WRITE", addr, size)
  IN /\ Running /\ kernel = "earlier"
     /\ \/ ~ check_fd(fd) /\ Refused(call, "EBADF")
        \/ check_fd(fd) /\ addr = 0 /\ Refused(call, "EFAULT")
        \/ check_fd(fd) /\ addr # 0 /\ size < 0 /\ Refused(call, "EINVAL")
        \/ check_fd(fd) /\ addr # 0 /\ size >= 0 /\ ~ ok /\ Refused(call, "EFAULT")
        \/ /\ check_fd(fd) /\ addr # 0 /\ size >= 0 /\ ok
           /\ WriteChunks(call, Chunks(addr, size, EarlierStride))
     /\ UNCHANGED << textColor, textBackground >>

-----------------------------------------------------------------------------
(* Cursor, colours, sprites.                                               *)

(* Mutant: the row may be one too large.                                   *)
MutOneRowMore(posX, posY) == posX \in 0 .. NUM_ROWS /\ posY \in 0 .. NUM_COLUMNS - 1

OnScreen(posX, posY) == posX \in 0 .. NUM_ROWS - 1 /\ posY \in 0 .. NUM_COLUMNS - 1

cursor_move(posX, posY) ==
  \/ OnScreen(posX, posY) /\ Done([op |-> "goto"], "ok", << >>, [Cursor EXCEPT !.x = posY, !.y = posX])
  \/ ~ OnScreen(posX, posY) /\ Refused([op |-> "goto"], "EINVAL")

sys_gotoXY(posX, posY) ==
  /\ Running /\ kernel = "later"
  /\ cursor_move(posX, posY)
  /\ UNCHANGED << textColor, textBackground >>

asthetic_change(color, background) ==
  \/ /\ {color, background} \subseteq 0 .. 15
     /\ textColor' = color
     /\ textBackground' = background
     /\ Done([op |-> "color"], "ok", << >>, Cursor)
  \/ /\ ~ {color, background} \subseteq 0 .. 15
     /\ Refused([op |-> "color"], "EINVAL")
     /\ UNCHANGED << textColor, textBackground >>

sys_SetColor(color, background) ==
  /\ Running /\ kernel = "later"
  /\ asthetic_change(color, background)

(* Row after row, until the end or a NUL in the content.  Only the corner  *)
(* has been checked: what is too wide goes on in the next row, and what is *)
(* too high, or too wide in the last row, beyond the rows of the screen.   *)
(* (The pointer content itself is not checked either, io.c:97 is commented *)
(* out: a content that cannot be read is not modelled.)                    *)
DrawContent(posX, posY, sp) ==
  LET at(p, k) == printc_xy(p, posX + ((k - 1) % sp.y), posY + ((k - 1) \div sp.y), sp.content[k])
      nuls == {k \in DOMAIN sp.content : sp.content[k] = "NUL"}
      n == IF nuls = {} THEN Len(sp.content)
           ELSE (CHOOSE k \in nuls : \A j \in nuls : k <= j) - 1
  IN [cursor |-> FoldLeft(at, Cursor, [k \in 1 .. n |-> k]),
      ret |-> IF nuls = {} THEN "ok" ELSE "EFAULT"]

spriteDraw(call, posX, posY, addr, sp) ==
  LET ok == access_ok(kernel, "VERIFY_READ", addr, 3 * WORD)
      drawable == OnScreen(posY, posX)
      empty == sp.content = << >>
      size == sp.x \in 1 .. NUM_ROWS /\ sp.y \in 1 .. NUM_COLUMNS
      d == DrawContent(posX, posY, sp)
  IN \/ ~ ok /\ Refused(call, "EINVAL")
     \/ ok /\ ~ drawable /\ Refused(call, "EINVAL")
     \/ ok /\ drawable /\ ~ Mapped(addr + 3 * WORD - 1) /\ Refused(call, "page_fault")
     \/ ok /\ drawable /\ Mapped(addr + 3 * WORD - 1) /\ empty /\ Refused(call, "EFAULT")
     \/ /\ ok /\ drawable /\ Mapped(addr + 3 * WORD - 1) /\ ~ empty /\ ~ size
        /\ Refused(call, "EINVAL")
     \/ /\ ok /\ drawable /\ Mapped(addr + 3 * WORD - 1) /\ ~ empty /\ size
        /\ Done(call, d.ret, << >>, d.cursor)

(* Mutant: the coordinates are not exchanged.                              *)
MutNotSwapped(posX, posY, addr, sp) ==
  /\ Running /\ kernel = "later"
  /\ spriteDraw([op |-> "sprite", row |-> posX, col |-> posY, sprite |-> sp], posX, posY, addr, sp)
  /\ UNCHANGED << textColor, textBackground >>

(* For the program posX is the row; for spriteDraw it is the column.       *)
sys_spritePut(posX, posY, addr, sp) ==
  /\ Running /\ kernel = "later"
  /\ spriteDraw([op |-> "sprite", row |-> posX, col |-> posY, sprite |-> sp], posY, posX, addr, sp)
  /\ UNCHANGED << textColor, textBackground >>

(* Keys of the earlier kernel appear in the corner; those without a        *)
(* character as a 'C'.                                                     *)
kbd_routine ==
  /\ Running /\ kernel = "earlier"
  /\ Done([op |-> "echo"], "ok", << >>, printc_xy(Cursor, 0, 0, "c"))
  /\ UNCHANGED << textColor, textBackground >>

-----------------------------------------------------------------------------
(* Numbers.                                                                *)

MaxNumber == CHOOSE n \in Numbers : \A m \in Numbers : m <= n

(* The digits of a number, the last one first.                             *)
Digits(base) ==
  LET d[n \in 0 .. MaxNumber] == IF n = 0 THEN << >> ELSE << n % base >> \o d[n \div base]
  IN d

(* Mutant: the digits are left in the order they are found.                *)
MutNotReversed(a) == IF a = 0 THEN << 0 >> ELSE IF a < 0 THEN << >> ELSE Digits(10)[a]

(* A negative number has no digits.                                        *)
itoa(a) == IF a = 0 THEN << 0 >> ELSE IF a < 0 THEN << >> ELSE Reverse(Digits(10)[a])

(* The number is unsigned; each digit is a write of its own, the buffer    *)
(* read from its end.                                                      *)
put_hex(num) ==
  IF num = 0 THEN << 0 >>
  ELSE [i \in 1 .. Len(Digits(16)[num]) |-> Digits(16)[num][Len(Digits(16)[num]) + 1 - i]]

(* A program prints a number: itoa and a write of strlen bytes, as perror  *)
(* does, or put_hex.  The buffer is on its stack, which write accepts.     *)
PrintNumber(n, base, digits) ==
  /\ Running
  /\ Done([op |-> "number", n |-> n, base |-> base], "ok", digits,
          printk(Cursor, [i \in DOMAIN digits |-> "c"]))
  /\ UNCHANGED << textColor, textBackground >>

-----------------------------------------------------------------------------
Next ==
  \/ \E fd \in {0, 1}, addr \in Addrs, size \in Sizes : sys_write(fd, addr, size)
  \/ \E fd \in {0, 1}, addr \in Addrs, size \in Sizes : EarlierWrite(fd, addr, size)
  \/ \E posX, posY \in Positions : sys_gotoXY(posX, posY)
  \/ \E color, background \in Colors : sys_SetColor(color, background)
  \/ \E posX, posY \in Positions, addr \in SpriteAddrs, sp \in Sprites :
       sys_spritePut(posX, posY, addr, sp)
  \/ kbd_routine
  \/ \E n \in Numbers : PrintNumber(n, 10, itoa(n))
  \/ \E n \in Numbers : n >= 0 /\ kernel = "later" /\ PrintNumber(n, 16, put_hex(n))

Spec == Init /\ [][Next]_vars

-----------------------------------------------------------------------------
(* Type invariant: cursor and colours stay in range, whatever is printed   *)
(* from where.                                                             *)
ScreenTypeOK ==
  /\ kernel \in {"later", "earlier"}
  /\ copyPage \in BOOLEAN
  /\ x \in 0 .. NUM_COLUMNS - 1
  /\ y \in 0 .. NUM_ROWS - 1
  /\ textColor \in 0 .. 15
  /\ textBackground \in 0 .. 15

Cells == 0 .. NUM_ROWS * NUM_COLUMNS - 1

(* A write that succeeds prints the bytes of the block, each of them once  *)
(* and in order, however the loops over chunks, words and bytes cut it.    *)
(* The earlier kernel does so for blocks that fit in its buffer.           *)
WritesWhatWasAsked ==
  last.call.op = "write" /\ last.ret = "ok" /\ (kernel = "later" \/ last.call.size <= TAM_BUFFER)
    => last.printed = [i \in 1 .. last.call.size |-> last.call.addr + i - 1]

(* A block inside the pages of the program is never refused and never      *)
(* makes the kernel fault, and one outside is refused; what gets through   *)
(* wrongly is only what ends in the page after the data.                   *)
BlockEnd == last.call.addr + last.call.size - 1
AccessChecked ==
  last.call.op = "write" /\ last.ret # "EBADF" /\ last.call.size > 0
    /\ (kernel = "later" \/ last.call.size <= TAM_BUFFER) =>
      IF PageOf(last.call.addr) >= USER_FIRST_PAGE /\ BlockEnd < USER_END * PAGE_SIZE
      THEN last.ret = "ok"
      ELSE last.ret = "EFAULT" \/ BlockEnd \in USER_END * PAGE_SIZE .. (USER_END + 1) * PAGE_SIZE - 1

(* However far beyond the checked block the doubled step of the earlier    *)
(* kernel reads, what a write prints comes from the pages of the program,  *)
(* or from the page after them when it is mapped: the kernel stops with a  *)
(* page fault before it shows memory of its own.                           *)
PrintsUserBytes ==
  last.call.op = "write" =>
    \A k \in DOMAIN last.printed :
      last.printed[k] \in USER_FIRST_PAGE * PAGE_SIZE
                           .. (IF copyPage THEN USER_END + 1 ELSE USER_END) * PAGE_SIZE - 1

Fits(call) ==
  /\ call.row + call.sprite.x <= NUM_ROWS
  /\ call.col + call.sprite.y <= NUM_COLUMNS

(* A sprite that fits between its corner and the edges of the screen is    *)
(* drawn there and nowhere else, in whole unless it has a NUL or a new     *)
(* line; only one that does not fit ever writes beyond the screen, and it  *)
(* stays in the memory of a second one, for which the video memory has     *)
(* room.                                                                   *)
DrawnInPlace ==
  /\ last.call.op = "sprite" /\ last.cells # {} /\ Fits(last.call) =>
       LET place == {r * NUM_COLUMNS + c : r \in last.call.row .. last.call.row + last.call.sprite.x - 1,
                                           c \in last.call.col .. last.call.col + last.call.sprite.y - 1}
       IN /\ last.cells \subseteq place
          /\ last.ret = "ok" /\ (\A k \in DOMAIN last.call.sprite.content :
                                   last.call.sprite.content[k] # "\n")
               => last.cells = place
  /\ last.call.op # "sprite" \/ Fits(last.call) => last.cells \subseteq Cells
  /\ last.cells \subseteq 0 .. 2 * NUM_ROWS * NUM_COLUMNS - 1

Value(digits, base) ==
  LET add(v, d) == v * base + d IN FoldLeft(add, 0, digits)

(* What is printed for a number reads back as that number, without zeros   *)
(* in front.                                                               *)
NumberReadsBack ==
  last.call.op = "number" /\ last.call.n >= 0 =>
    /\ Value(last.printed, last.call.base) = last.call.n
    /\ last.printed[1] = 0 => last.call.n = 0
=============================================================================
