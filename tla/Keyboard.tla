------------------------------ MODULE Keyboard ------------------------------
(***************************************************************************)
(* The keyboard of kernel/drivers/input/keyboard.c and the console read of *)
(* sys_read (descriptor 0): an interrupt handler turns scan codes into     *)
(* bytes of a ring, a process takes them out. The system call starts with  *)
(* interrupts off and is atomic until it finds no key; from its first      *)
(* "sti; sched_sleep(1)" on it runs with interrupts on and the handler may *)
(* come between any two of its steps. The handler itself is never          *)
(* interrupted: while it has bytes to push nothing else moves. One process *)
(* reads the console at a time.                                            *)
(***************************************************************************)
EXTENDS Integers, Sequences

CONSTANTS BufferSize,  \* BUFFER_SIZE, 128
          MaxTyped,    \* bound: bytes that enter the ring
          MaxWant      \* bound: the largest read

ASSUME KbdAssumption == /\ BufferSize \in Nat \ {0}
                        /\ MaxTyped \in Nat
                        /\ MaxWant \in Nat

VARIABLES kbuf, khead, ktail,      \* kbd_buffer, kbd_head, kbd_tail
          kshift, kcaps, ke0,
          kpend,                   \* bytes the running handler still has to push
          raw,                     \* ICANON is off in global_termios
          kpc, kwant, kcount, kif, kc,  \* the reader: step, count, read_count,
                                        \* interrupt flag, the byte it holds
          typed, ntyped,           \* observer: the bytes pushed, in order
          got, ngot                \* observer: the bytes read, in order

kring == <<kbuf, khead, ktail, typed, ntyped>>
kmods == <<kshift, kcaps, ke0>>
kreader == <<kpc, kwant, kcount, kif, kc, got, ngot>>
kvars == <<kring, kmods, kpend, raw, kreader>>

Byte == 0 .. 255

Codes == {"e0", "shift", "unshift", "caps", "a", "1", "up", "release"}

KInit ==
    /\ kbuf = [i \in 0 .. BufferSize - 1 |-> 0]
    /\ khead = 0 /\ ktail = 0
    /\ kshift = FALSE /\ kcaps = FALSE /\ ke0 = FALSE
    /\ kpend = <<>>
    /\ raw = FALSE
    /\ kpc = "idle" /\ kwant = 0 /\ kcount = 0 /\ kif = TRUE /\ kc = 0
    /\ typed = [i \in 0 .. MaxTyped - 1 |-> 0] /\ ntyped = 0
    /\ got = [i \in 0 .. MaxTyped - 1 |-> 0] /\ ngot = 0

KInc(i) == IF i + 1 = BufferSize THEN 0 ELSE i + 1

-----------------------------------------------------------------------------
(* keyboard_handler.                                                       *)

\* What a key puts into the buffer: a letter and a digit stand for the two
\* tables (caps lock only turns letters), an arrow for the escape sequences.
Bytes(sc) ==
    IF ke0 /\ sc = "up" THEN <<27, 91, 65>>
    ELSE IF ~ke0 /\ sc = "a" THEN IF kshift # kcaps THEN <<65>> ELSE <<97>>
    ELSE IF ~ke0 /\ sc = "1" THEN IF kshift THEN <<33>> ELSE <<49>>
    ELSE <<>>

\* The release of a shift key is looked for before the e0 prefix, which then
\* stays set for the next code.
Scan(sc) ==
    /\ kif /\ kpend = <<>>
    /\ ntyped + Len(Bytes(sc)) <= MaxTyped
    /\ kpend' = Bytes(sc)
    /\ ke0' = (sc = "e0" \/ (sc = "unshift" /\ ke0))
    /\ kshift' = (sc # "unshift" /\ (kshift \/ (sc = "shift" /\ ~ke0)))
    /\ kcaps' = IF sc = "caps" /\ ~ke0 THEN ~kcaps ELSE kcaps
    /\ UNCHANGED <<kring, raw, kreader>>

\* Faulty variant: the full ring is told from the empty one too late.
PushOverruns ==
    /\ kpend # <<>>
    /\ kbuf' = [kbuf EXCEPT ![khead] = Head(kpend)]
    /\ khead' = KInc(khead)
    /\ typed' = [typed EXCEPT ![ntyped] = Head(kpend)]
    /\ ntyped' = ntyped + 1
    /\ kpend' = Tail(kpend)
    /\ UNCHANGED <<ktail, kmods, raw, kreader>>

\* One byte enters the ring. When it is full the rest is dropped.
Push ==
    /\ kpend # <<>>
    /\ IF KInc(khead) # ktail
       THEN /\ kbuf' = [kbuf EXCEPT ![khead] = Head(kpend)]
            /\ khead' = KInc(khead)
            /\ typed' = [typed EXCEPT ![ntyped] = Head(kpend)]
            /\ ntyped' = ntyped + 1
            /\ kpend' = Tail(kpend)
       ELSE kpend' = <<>> /\ UNCHANGED <<kbuf, khead, typed, ntyped>>
    /\ UNCHANGED <<ktail, kmods, raw, kreader>>

-----------------------------------------------------------------------------
(* The console read of sys_read, and keyboard_getc.                        *)

ReadStart(n) ==
    /\ kpc = "idle" /\ kpend = <<>>
    /\ kpc' = IF raw /\ n = 0 THEN "idle" ELSE "check"
    /\ kif' = (raw /\ n = 0)
    /\ kwant' = n /\ kcount' = 0
    /\ UNCHANGED <<kring, kmods, kpend, raw, kc, got, ngot>>

\* Faulty variant: the read waits until the whole buffer is filled.
CheckWaitsForAll ==
    /\ kpc = "check" /\ kpend = <<>>
    /\ \/ /\ khead = ktail /\ (kcount = 0 \/ kcount < kwant)
          /\ kif' = TRUE
          /\ UNCHANGED <<kpc, kc>>
       \/ /\ khead # ktail /\ kcount < kwant
          /\ kpc' = "store"
          /\ kc' = kbuf[ktail]
          /\ UNCHANGED kif
       \/ /\ kcount = kwant /\ (khead # ktail \/ kcount > 0)
          /\ kpc' = "idle"
          /\ kif' = TRUE
          /\ UNCHANGED kc
    /\ UNCHANGED <<kring, kmods, kpend, raw, kwant, kcount, got, ngot>>

\* keyboard_data_ready: a key to take, or nothing yet and the process sleeps
\* for a tick, or the read is over.
Check ==
    /\ kpc = "check" /\ kpend = <<>>
    /\ \/ /\ khead = ktail /\ kcount = 0
          /\ kif' = TRUE
          /\ UNCHANGED <<kpc, kc>>
       \/ /\ khead # ktail /\ kcount < kwant
          /\ kpc' = "store"
          /\ kc' = kbuf[ktail]
          /\ UNCHANGED kif
       \/ /\ IF khead = ktail THEN kcount > 0 ELSE kcount = kwant
          /\ kpc' = "idle"
          /\ kif' = TRUE
          /\ UNCHANGED kc
    /\ UNCHANGED <<kring, kmods, kpend, raw, kwant, kcount, got, ngot>>

\* keyboard_getc has read the byte and now moves kbd_tail; the byte goes to
\* the program, unless its buffer is bad (copied is FALSE) and the call fails.
Take(copied) ==
    /\ kpc = "store" /\ kpend = <<>>
    /\ ktail' = KInc(ktail)
    /\ got' = [got EXCEPT ![ngot] = kc]
    /\ ngot' = ngot + 1
    /\ kcount' = kcount + 1
    /\ kpc' = IF copied THEN "check" ELSE "idle"
    /\ kif' = (kif \/ ~copied)
    /\ kc' = 0
    /\ UNCHANGED <<kbuf, khead, typed, ntyped, kmods, kpend, raw, kwant>>

\* ioctl TCSETS.
SetMode(r) ==
    /\ kpc = "idle" /\ kpend = <<>>
    /\ raw' = r
    /\ UNCHANGED <<kring, kmods, kpend, kreader>>

Reader == Check \/ \E copied \in BOOLEAN : Take(copied)

KNext ==
    \/ \E sc \in Codes : Scan(sc)
    \/ Push
    \/ \E n \in 0 .. MaxWant : ReadStart(n)
    \/ Reader
    \/ \E r \in BOOLEAN : SetMode(r)

KSpec == KInit /\ [][KNext]_kvars

\* The handler runs to its end; the reader is woken after its tick and the
\* scheduler lets it run (sched_live), and a keyboard is too slow to keep the
\* processor in its handler.
KFairness == WF_kvars(Push) /\ SF_kvars(Reader)

-----------------------------------------------------------------------------
(* Properties.                                                             *)

\* Every byte a program reads from the console is the next one that was typed:
\* none is lost once it is in the ring, none read twice, none reordered, also
\* when the handler runs in the middle of keyboard_getc or the ring is full.
InOrder == ngot <= ntyped /\ \A i \in 0 .. ngot - 1 : got[i] = typed[i]

\* A read that finds a key in the ring comes back to its program.
KeyIsRead == (kpc # "idle" /\ khead # ktail) ~> kpc = "idle"
=============================================================================
