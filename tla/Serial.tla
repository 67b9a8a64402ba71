------------------------------- MODULE Serial -------------------------------
(***************************************************************************)
(* The serial port, drivers/serial/serial.c.                               *)
(*                                                                         *)
(* uart is the chip: what it has to send (tx, one byte at most without a   *)
(* FIFO) and what it has received (rx).  The kernel writes or reads one    *)
(* byte at a time, with a test of the line status and then an access; an   *)
(* interrupt may fall between the two, and its handler may log.            *)
(***************************************************************************)
EXTENDS Integers, Sequences

CONSTANTS FifoDepth, MaxSent, MaxReceived

VARIABLES uart, g_serial_ready, serial_at, put, sent, got, clipped, overrun

serialVars == <<uart, g_serial_ready, serial_at, put, sent, got, clipped, overrun>>

Depth == IF uart.fifo THEN FifoDepth ELSE 1

\* A port that does not answer leaves the driver not ready
serial_init(exists) ==
  /\ serial_at = "off"
  /\ g_serial_ready' = exists
  /\ serial_at' = "idle"
  /\ UNCHANGED <<uart, put, sent, got, clipped, overrun>>

\* The access to the data register; a byte the chip has no room for is lost
Written(c) ==
  uart' = IF Len(uart.tx) < Depth THEN [uart EXCEPT !.tx = Append(@, c)] ELSE uart

\* serial_putc: the test, and then the access
putc_test ==
  /\ serial_at = "idle" /\ Len(put) < MaxSent
  /\ ~g_serial_ready \/ uart.tx = <<>>
  /\ serial_at' = IF g_serial_ready THEN "putc" ELSE "idle"
  /\ UNCHANGED <<uart, g_serial_ready, put, sent, got, clipped, overrun>>

putc_write ==
  /\ serial_at = "putc"
  /\ Written(Len(put) + 1)
  /\ put' = Append(put, Len(put) + 1)
  /\ clipped' = (clipped \/ (uart.tx # <<>> /\ ~uart.fifo))
  /\ serial_at' = "idle"
  /\ UNCHANGED <<g_serial_ready, sent, got, overrun>>

\* serial_getc
getc_test ==
  /\ serial_at = "idle" /\ g_serial_ready
  /\ uart.rx # <<>>
  /\ serial_at' = "getc"
  /\ UNCHANGED <<uart, g_serial_ready, put, sent, got, clipped, overrun>>

\* Reading an empty register gives no byte that was received
getc_read ==
  /\ serial_at = "getc"
  /\ got' = Append(got, IF uart.rx = <<>> THEN 0 ELSE Head(uart.rx))
  /\ uart' = IF uart.rx = <<>> THEN uart ELSE [uart EXCEPT !.rx = Tail(@)]
  /\ serial_at' = "idle"
  /\ UNCHANGED <<g_serial_ready, put, sent, clipped, overrun>>

\* The cause the chip reports: received data before room to send
Cause == IF uart.rx # <<>> THEN 2 ELSE 1


\* The handler drains what was received for cause 4, which no 16550 reports
serial_handle_irq ==
  /\ g_serial_ready
  /\ uart' = IF Cause = 4 THEN [uart EXCEPT !.rx = <<>>] ELSE uart
  /\ UNCHANGED <<g_serial_ready, serial_at, put, sent, got, clipped, overrun>>

\* A handler logs one byte: its serial_putc waits until all has been sent
handler_logs ==
  /\ g_serial_ready /\ Len(put) < MaxSent
  /\ put' = Append(put, Len(put) + 1)
  /\ sent' = sent \o uart.tx
  /\ uart' = [uart EXCEPT !.tx = <<Len(put) + 1>>]
  /\ UNCHANGED <<g_serial_ready, serial_at, got, clipped, overrun>>

\* The line: a byte leaves, a byte arrives
uart_sends ==
  /\ uart.tx # <<>>
  /\ sent' = Append(sent, Head(uart.tx)) /\ uart' = [uart EXCEPT !.tx = Tail(@)]
  /\ UNCHANGED <<g_serial_ready, serial_at, put, got, clipped, overrun>>

uart_receives ==
  /\ uart.arrived < MaxReceived
  /\ IF Len(uart.rx) < Depth
     THEN uart' = [uart EXCEPT !.rx = Append(@, uart.arrived + 1), !.arrived = @ + 1] /\ UNCHANGED overrun
     ELSE uart' = [uart EXCEPT !.arrived = @ + 1] /\ overrun' = TRUE
  /\ UNCHANGED <<g_serial_ready, serial_at, put, sent, got, clipped>>

SerialInit(fifos) ==
  /\ uart \in {[fifo |-> f, tx |-> <<>>, rx |-> <<>>, arrived |-> 0] : f \in fifos}
  /\ g_serial_ready = FALSE /\ serial_at = "off"
  /\ put = <<>> /\ sent = <<>> /\ got = <<>> /\ clipped = FALSE /\ overrun = FALSE

SerialNext ==
  \/ \E exists \in BOOLEAN : serial_init(exists)
  \/ putc_test \/ putc_write \/ getc_test \/ getc_read
  \/ serial_handle_irq \/ handler_logs \/ uart_sends \/ uart_receives
-----------------------------------------------------------------------------
=============================================================================
