--------------------------------- MODULE Spi ---------------------------------
(***************************************************************************)
(* st7735/spi.cpp and st7735.cpp: the driver of a colour display on an SPI *)
(* bus. The driver prepares a transaction, starts it and goes on while the *)
(* hardware shifts out byte after byte, reading the FIFO or the chain of   *)
(* DMA buffers and the level of the D/C pin at that time. Each function of *)
(* the driver is the sequence of what it does to the hardware. The display *)
(* is external. A pixel is two bytes, a colour and one more.               *)
(***************************************************************************)
EXTENDS Integers, Sequences, SequencesExt, FiniteSetsExt

CONSTANTS
    mWidth, mHeight, mYoffs,
    kMaxTransferLen,    \* bytes in the FIFO, a multiple of 4
    kDmaMaxBufSize,     \* bytes in one DMA buffer
    Black, Colors,
    Areas,              \* where the application draws, for each way to do it
    MaxCalls            \* bound: how many calls of the application

\* Sizes are positive, the FIFO's is a multiple of four, coordinates fit in two
\* bytes, and the areas are on the screen.
OnScreen(a) ==
    /\ a \in [x : Nat, y : Nat, w : Nat \ {0}, h : Nat \ {0}]
    /\ a.x + a.w <= mWidth /\ a.y + a.h <= mHeight
SpiAssumption ==
    /\ {mWidth, mHeight, kMaxTransferLen, kDmaMaxBufSize} \subseteq Nat \ {0}
    /\ kMaxTransferLen % 4 = 0 /\ mYoffs \in Nat
    /\ mWidth <= 65536 /\ mHeight + mYoffs <= 65536
    /\ Black \in Nat /\ Colors \subseteq Nat
    /\ \A kind \in {"fill", "pixel", "blit", "again", "image", "pixels"} : \A a \in Areas[kind] : OnScreen(a)

VARIABLES
    todo,       \* what the driver has yet to do
    fifo, dc,   \* the data registers and the level of the pin
    descs,      \* mDmaDescs: the chain of DMA buffers
    left,       \* bytes that the running transaction has yet to send
    source,     \* and where they come from
    display,    \* the display: its window, command, arguments and memory
    screen,     \* what the application has asked for, as far as that is claimed
    calls

spiVars == <<todo, fifo, dc, descs, left, source, display, screen, calls>>

Cells == (0 .. mWidth - 1) \X (0 .. mHeight - 1)
busy == left > 0

Init ==
    /\ todo = <<>> /\ fifo = <<>> /\ dc = 0 /\ descs = <<>>
    /\ left = 0 /\ source = <<>> /\ calls = 0
    /\ screen = [cell \in Cells |-> Black]
    /\ display = [cols |-> <<0, 0>>, rows |-> <<0, 0>>, cmd |-> 0, args |-> <<>>, at |-> 0,
                  mem |-> [cell \in Cells |-> Black]]
-----------------------------------------------------------------------------
\* SpiMaster.

Do(op, arg) == [op |-> op, arg |-> arg]
waitDone == <<Do("wait", 0)>>
noWait == <<>>

fifoSend(len) == waitDone \o <<Do("send", len)>>
spiSendVal(wait, bytes) == (IF wait THEN waitDone ELSE <<>>) \o <<Do("fifo", bytes)>> \o fifoSend(Len(bytes))

\* How many pieces of this size hold so many bytes, the last perhaps shorter.
Pieces(len, size) == (len + size - 1) \div size
Piece(data, size, i) == SubSeq(data, (i - 1) * size + 1, Min({i * size, Len(data)}))

\* Data are sent in portions of the FIFO's size; but each of them is read from the
\* start of the data again, where src is set on every turn (spi.cpp:159).
Portion(data, i) == SubSeq(data, 1, Len(Piece(data, kMaxTransferLen, i)))
spiSend(data) ==
    FlattenSeq([i \in 1 .. Pieces(Len(data), kMaxTransferLen) |->
        waitDone \o <<Do("fifo", Portion(data, i))>> \o fifoSend(Len(Portion(data, i)))])

\* fifoMemset: so many words of four bytes.
fifoMemset(pixel, nWords) == <<Do("fifo", [i \in 1 .. 4 * nWords |-> pixel[((i + 1) % 2) + 1]])>>

Chain(data) == [i \in 1 .. Pieces(Len(data), kDmaMaxBufSize) |-> Piece(data, kDmaMaxBufSize, i)]

MountWait == waitDone
dmaMountBuffer(data) == MountWait \o <<Do("descs", Chain(data))>>
dmaUnmountBuffer == waitDone \o <<Do("descs", <<>>)>>
dmaResend(len) == <<Do("dma", len)>>
dmaSend(data) == dmaMountBuffer(data) \o dmaResend(Len(data))
-----------------------------------------------------------------------------
\* St7735Driver.

setDcPin(level) == <<Do("dc", level)>>
CASET == 42  RASET == 43  RAMWR == 44  SLPOUT == 17  COLMOD == 58  MADCTL == 54
INVON == 33  NORON == 19  DISPON == 41

CmdWait == waitDone
sendCmd(opcode) == CmdWait \o setDcPin(0) \o spiSendVal(FALSE, <<opcode>>)
sendData(bytes) == waitDone \o setDcPin(1) \o spiSendVal(TRUE, bytes)
sendBuffer(bytes) == waitDone \o setDcPin(1) \o spiSend(bytes)
sendCmdData(opcode, bytes) == waitDone \o sendCmd(opcode) \o sendData(bytes)

PixelsWait == waitDone
prepareSendPixels == PixelsWait \o setDcPin(1)
sendNextPixel(pixel) == spiSendVal(TRUE, pixel)

BigEndian(n) == <<(n \div 256) % 256, n % 256>>
setWriteWindowCoords(x1, y1, x2, y2) ==
    sendCmdData(CASET, BigEndian(x1) \o BigEndian(x2))
    \o sendCmdData(RASET, BigEndian(y1 + mYoffs) \o BigEndian(y2 + mYoffs))
    \o sendCmd(RAMWR)

EndOf(from, size) == from + size - 1
setWriteWindow(x, y, w, h) == setWriteWindowCoords(x, y, EndOf(x, w), EndOf(y, h))

\* The FIFO is filled once and sent as often as it takes.
SendFifo(num, bufSize) ==
    FlattenSeq([i \in 1 .. Pieces(num, bufSize) |-> fifoSend(Min({num - (i - 1) * bufSize, bufSize}))])

fillRect(x, y, w, h, pixel) ==
    LET num == 2 * (w * h)
        bufSize == Min({num, kMaxTransferLen})
    IN  setWriteWindow(x, y, w, h) \o waitDone \o fifoMemset(pixel, (bufSize + 3) \div 4)
        \o setDcPin(1) \o SendFifo(num, bufSize)

setPixel(x, y, pixel) == setWriteWindowCoords(x, y, x, y) \o sendData(pixel)
dmaBlit(x, y, w, h, data) == setWriteWindow(x, y, w, h) \o prepareSendPixels \o dmaSend(data)
dmaBlitAgain(x, y, w, h) == setWriteWindow(x, y, w, h) \o prepareSendPixels \o dmaResend(2 * (w * h))

displayReset ==
    sendCmd(SLPOUT) \o sendCmdData(COLMOD, <<85>>) \o sendCmdData(MADCTL, <<32>>)
    \o sendCmd(INVON) \o sendCmd(NORON) \o fillRect(0, 0, mWidth, mHeight, <<Black, Black>>)
    \o sendCmd(DISPON)
-----------------------------------------------------------------------------
\* The driver's next step, which waits while a transaction runs if it must.

Step ==
    /\ todo # <<>>
    /\ LET op == Head(todo).op
           arg == Head(todo).arg
           Start(n, bytes) == left' = n /\ source' = bytes
           Keep == UNCHANGED <<left, source>>
       IN  /\ op = "wait" => ~busy
           /\ fifo' = IF op = "fifo" THEN arg ELSE fifo
           /\ dc' = IF op = "dc" THEN arg ELSE dc
           /\ descs' = IF op = "descs" THEN arg ELSE descs
           /\ CASE op = "send" -> Start(arg, <<"fifo", 0>>)
                [] op = "dma" -> Start(arg, <<"dma", 0>>)
                [] OTHER -> Keep
    /\ todo' = Tail(todo)
    /\ UNCHANGED <<display, screen, calls>>

\* The display takes the last argument of its command: of a window's, or the second
\* byte of a pixel, whose place is the next one in the window.
SetColumns(d, args) == [d EXCEPT !.cols = <<256 * args[1] + args[2], 256 * args[3] + args[4]>>, !.args = <<>>]
SetRows(d, args) == [d EXCEPT !.rows = <<256 * args[1] + args[2], 256 * args[3] + args[4]>>, !.args = <<>>]
Paint(d, args) ==
    LET w == d.cols[2] - d.cols[1] + 1
        cell == <<d.cols[1] + (d.at % w), d.rows[1] + (d.at \div w) - mYoffs>>
    IN  [d EXCEPT !.at = @ + 1, !.args = <<>>,
                  !.mem = IF cell \in Cells THEN [@ EXCEPT ![cell] = args[1]] ELSE @]

\* The display takes a byte.
Receive(d, level, byte) ==
    LET args == Append(d.args, byte)
    IN  CASE level = 0 -> [d EXCEPT !.cmd = byte, !.args = <<>>, !.at = 0]
          [] level = 1 /\ d.cmd = CASET /\ Len(args) = 4 -> SetColumns(d, args)
          [] level = 1 /\ d.cmd = RASET /\ Len(args) = 4 -> SetRows(d, args)
          [] level = 1 /\ d.cmd = RAMWR /\ Len(args) = 2 -> Paint(d, args)
          [] OTHER -> [d EXCEPT !.args = args]

\* The hardware sends a byte from where the transaction's data are now.
Shift ==
    /\ busy
    /\ LET data == IF source[1] = "fifo" THEN fifo ELSE FlattenSeq(descs)
           byte == IF source[2] < Len(data) THEN data[source[2] + 1] ELSE 0
       IN  display' = Receive(display, dc, byte)
    /\ left' = left - 1
    /\ source' = [source EXCEPT ![2] = @ + 1]
    /\ UNCHANGED <<todo, fifo, dc, descs, screen, calls>>
-----------------------------------------------------------------------------
\* Calls of the application, while the last transaction may still run. It draws in
\* areas of the screen.

Area(x, y, w, h) == [x |-> x, y |-> y, w |-> w, h |-> h]
CellsOf(a) == (a.x .. EndOf(a.x, a.w)) \X (a.y .. EndOf(a.y, a.h))
\* Which of the area's pixels this is, row after row.
Nth(a, cell) == cell[1] - a.x + a.w * (cell[2] - a.y)

Pixels(a) == 0 .. a.w * a.h - 1

\* The area's pixels get these colours.
Drawn(mem, a, colors) ==
    [cell \in Cells |-> IF cell \in CellsOf(a) THEN colors[Nth(a, cell)] ELSE mem[cell]]

Call(steps, a, colors) ==
    /\ todo = <<>> /\ calls < MaxCalls
    /\ todo' = steps
    /\ screen' = Drawn(screen, a, colors)
    /\ calls' = calls + 1
    /\ UNCHANGED <<fifo, dc, descs, left, source, display>>

Plain(a, c) == [n \in Pixels(a) |-> c]
\* An image, whose colours alternate, and its bytes.
Alternating(a, c) == [n \in Pixels(a) |-> IF n % 2 = 0 THEN c ELSE Black]
Image(a, c) ==
    [i \in 1 .. 2 * (a.w * a.h) |-> IF i % 2 = 1 THEN Alternating(a, c)[(i - 1) \div 2] ELSE Black]

Whole == Area(0, 0, mWidth, mHeight)
Reset == Call(displayReset, Whole, Plain(Whole, Black))
Fill(a, c) == Call(fillRect(a.x, a.y, a.w, a.h, <<c, Black>>), a, Plain(a, c))
Pixel(a, c) ==
    LET one == Area(a.x, a.y, 1, 1)
    IN  Call(setPixel(a.x, a.y, <<c, Black>>), one, Plain(one, c))
Blit(a, c) == Call(dmaBlit(a.x, a.y, a.w, a.h, Image(a, c)), a, Alternating(a, c))
BlitAgain(a) ==
    LET bytes == FlattenSeq(descs)
    IN  /\ Len(bytes) >= 2 * (a.w * a.h)
        /\ Call(dmaBlitAgain(a.x, a.y, a.w, a.h), a, [n \in Pixels(a) |-> bytes[2 * n + 1]])
Unmount ==
    LET none == Area(0, 0, 0, 0)
    IN  descs # <<>> /\ Call(dmaUnmountBuffer, none, Plain(none, Black))

\* An image sent through the FIFO, in portions. What is shown is claimed of the pixels
\* in the first one only: the others repeat it.
Unclaimed == -1
FirstPortion(a, c) ==
    [n \in Pixels(a) |-> IF 2 * n < kMaxTransferLen THEN Alternating(a, c)[n] ELSE Unclaimed]
SendImage(a, c) ==
    Call(setWriteWindow(a.x, a.y, a.w, a.h) \o sendBuffer(Image(a, c)), a, FirstPortion(a, c))

\* Pixels sent one by one, as the text renderer does.
SendPixels(a, c) ==
    Call(setWriteWindow(a.x, a.y, a.w, a.h) \o prepareSendPixels
         \o FlattenSeq([i \in 1 .. a.w * a.h |-> sendNextPixel(<<c, Black>>)]), a, Plain(a, c))

Next ==
    \/ Step \/ Shift \/ Reset \/ Unmount
    \/ \E a \in Areas.again : BlitAgain(a)
    \/ \E c \in Colors :
        \/ \E a \in Areas.fill : Fill(a, c)
        \/ \E a \in Areas.pixel : Pixel(a, c)
        \/ \E a \in Areas.blit : Blit(a, c)
        \/ \E a \in Areas.image : SendImage(a, c)
        \/ \E a \in Areas.pixels : SendPixels(a, c)
-----------------------------------------------------------------------------
\* When the driver and the hardware are done the display shows what was asked
\* for: no byte was taken from a FIFO or a DMA chain that was already meant for
\* the next transaction, or with the level of the D/C pin meant for the next one
\* (st7735.cpp:107-119, 177-194, spi.cpp:144, 208). Of an image larger than the FIFO
\* that goes through it only the first portion is claimed: spiSend() sends wrong
\* pixels in the others, inside the image (spi.cpp:159).
DisplayShowsCalls ==
    todo = <<>> /\ ~busy =>
        \A cell \in Cells : screen[cell] # Unclaimed => display.mem[cell] = screen[cell]
=============================================================================
