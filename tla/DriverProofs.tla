---------------------------- MODULE DriverProofs ----------------------------
(***************************************************************************)
(* What the drivers of the keyboard (Keyboard), the SATA disks (Ahci) and  *)
(* the network adapters (Nic) promise, for every size of their rings and   *)
(* every number of ports.                                                  *)
(***************************************************************************)
EXTENDS Keyboard, Ahci, Nic, TLAPS

USE ZenonT(30), SMTT(30)

-----------------------------------------------------------------------------
(* The keyboard.                                                           *)


KPlaces == 0 .. BufferSize - 1

\* How many bytes wait in the ring, and where the k-th of them is.
KUsed == IF khead >= ktail THEN khead - ktail ELSE khead - ktail + BufferSize

KPos(k) == IF ktail + k < BufferSize THEN ktail + k ELSE ktail + k - BufferSize

KType ==
    /\ kbuf \in [KPlaces -> Byte]
    /\ khead \in KPlaces /\ ktail \in KPlaces
    /\ kpend \in Seq(Byte)
    /\ ntyped \in Nat /\ ngot \in Nat
    /\ typed \in [0 .. MaxTyped - 1 -> Byte]
    /\ got \in [0 .. MaxTyped - 1 -> Byte]
    /\ kc \in Byte

\* The ring holds the bytes typed and not yet read, in order, and a byte the
\* reader has fetched is still the oldest of them.
KInv ==
    /\ KType
    /\ ntyped + Len(kpend) <= MaxTyped
    /\ ntyped = ngot + KUsed
    /\ \A k \in KPlaces : k < KUsed => kbuf[KPos(k)] = typed[ngot + k]
    /\ kpc = "store" => khead # ktail /\ kc = kbuf[ktail]
    /\ \A i \in 0 .. ngot - 1 : got[i] = typed[i]

LEMMA KInitInv == KInit => KInv
  BY SMTT(30), KbdAssumption DEF KInit, KInv, KType, KPlaces, KUsed, KPos, Byte

\* A key's bytes are bytes.
LEMMA BytesType == ASSUME NEW sc \in Codes PROVE Bytes(sc) \in Seq(Byte)
<1>1. <<27, 91, 65>> \in Seq(Byte)
  BY SMTT(30) DEF Byte
<1>2. <<65>> \in Seq(Byte) /\ <<97>> \in Seq(Byte) /\ <<33>> \in Seq(Byte)
      /\ <<49>> \in Seq(Byte) /\ <<>> \in Seq(Byte)
  BY SMTT(30) DEF Byte
<1> QED BY <1>1, <1>2, Zenon DEF Bytes

\* A push keeps the ring in order: it writes the free place after the last
\* waiting byte.
LEMMA PushInv == KInv /\ Push => KInv'
<1> SUFFICES ASSUME KInv, Push PROVE KInv'
  OBVIOUS
<1>1. CASE KInc(khead) = ktail
  <2>1. kpend' = <<>> /\ UNCHANGED <<kbuf, khead, ktail, typed, ntyped, kpc, kc, got, ngot>>
    BY <1>1 DEF Push, kreader
  <2>2. <<>> \in Seq(Byte) /\ Len(<<>>) = 0 /\ Len(kpend) \in Nat
    BY SMTT(30) DEF KInv, KType
  <2>3. ntyped + 0 <= MaxTyped
    BY SMTT(30), <2>2, KbdAssumption DEF KInv, KType
  <2> QED BY <2>1, <2>2, <2>3 DEF KInv, KType, KUsed, KPos
<1>2. CASE KInc(khead) # ktail
  <2>1. /\ kpend # <<>>
        /\ kbuf' = [kbuf EXCEPT ![khead] = Head(kpend)]
        /\ khead' = KInc(khead)
        /\ typed' = [typed EXCEPT ![ntyped] = Head(kpend)]
        /\ ntyped' = ntyped + 1
        /\ kpend' = Tail(kpend)
        /\ UNCHANGED <<ktail, kpc, kc, got, ngot>>
    BY <1>2 DEF Push, kreader
  <2>2. /\ Len(kpend) \in Nat \ {0} /\ Head(kpend) \in Byte
        /\ Tail(kpend) \in Seq(Byte) /\ Len(Tail(kpend)) = Len(kpend) - 1
    BY SMTT(30), <2>1 DEF KInv, KType
  <2>3. ntyped \in 0 .. MaxTyped - 1
    BY SMTT(30), <2>2, KbdAssumption DEF KInv, KType
  <2>4. khead' \in KPlaces /\ KUsed' = KUsed + 1 /\ KUsed \in Nat
    BY SMTT(30), <1>2, <2>1, KbdAssumption DEF KInv, KType, KInc, KPlaces, KUsed
  <2>5. KType'
    BY SMTT(30), <2>1, <2>2, <2>3, <2>4 DEF KInv, KType
  <2>6. ntyped' + Len(kpend') <= MaxTyped /\ ntyped' = ngot' + KUsed'
    BY SMTT(30), <2>1, <2>2, <2>4, KbdAssumption DEF KInv, KType
  <2>7. ASSUME NEW k \in KPlaces, k < KUsed'
        PROVE  kbuf'[KPos(k)'] = typed'[ngot' + k]
    <3>1. KPos(k)' = KPos(k) /\ KPos(k) \in KPlaces
      <4>1. KPos(k)' = KPos(k)
        BY <2>1 DEF KPos
      <4>2. KPos(k) \in KPlaces
        BY SMTT(30), KbdAssumption DEF KPos, KInv, KType, KPlaces
      <4> QED BY <4>1, <4>2
    <3>2. CASE k = KUsed
      <4>1. KPos(k) = khead /\ ngot + k = ntyped
        BY SMTT(30), <3>2, KbdAssumption DEF KPos, KUsed, KInv, KType, KPlaces
      <4> QED BY <4>1, <3>1, <2>1, <2>3 DEF KInv, KType
    <3>3. CASE k < KUsed
      <4>1. KPos(k) # khead /\ ngot + k # ntyped
        BY SMTT(30), <3>3, KbdAssumption DEF KPos, KUsed, KInv, KType, KPlaces
      <4>2. kbuf[KPos(k)] = typed[ngot + k]
        BY <3>3 DEF KInv
      <4> QED BY SMTT(30), <4>1, <4>2, <3>1, <2>1 DEF KInv, KType
    <3> QED BY SMTT(30), <3>2, <3>3, <2>4, <2>7 DEF KPlaces
  <2>8. kpc' = "store" => khead' # ktail' /\ kc' = kbuf'[ktail']
    BY <1>2, <2>1 DEF KInv, KType
  <2>9. \A i \in 0 .. ngot' - 1 : got'[i] = typed'[i]
    <3>1. ngot <= ntyped
      BY SMTT(30), <2>4 DEF KInv, KType
    <3> QED BY SMTT(30), <3>1, <2>1, <2>3 DEF KInv, KType
  <2> QED BY <2>5, <2>6, <2>7, <2>8, <2>9 DEF KInv
<1> QED BY <1>1, <1>2

\* Taking the oldest byte moves it to the bytes read and the ring up by one.
LEMMA TakeInv == ASSUME NEW copied \in BOOLEAN PROVE KInv /\ Take(copied) => KInv'
<1> SUFFICES ASSUME KInv, Take(copied) PROVE KInv'
  OBVIOUS
<1>1. /\ kpc = "store" /\ kpc' # "store"
      /\ ktail' = KInc(ktail) /\ got' = [got EXCEPT ![ngot] = kc]
      /\ ngot' = ngot + 1 /\ kc' = 0
      /\ UNCHANGED <<kbuf, khead, typed, ntyped, kpend>>
  BY DEF Take
<1>2. khead # ktail /\ kc = kbuf[ktail]
  BY <1>1 DEF KInv
<1>3. ktail' \in KPlaces /\ KUsed \in Nat \ {0} /\ KUsed' = KUsed - 1 /\ KUsed <= BufferSize
  BY SMTT(30), <1>1, <1>2, KbdAssumption DEF KInv, KType, KInc, KPlaces, KUsed
<1>4. ngot < ntyped /\ ntyped <= MaxTyped
  <2>1. Len(kpend) \in Nat
    BY SMTT(30) DEF KInv, KType
  <2> QED BY SMTT(30), <2>1, <1>3, KbdAssumption DEF KInv, KType
<1>5. ngot \in 0 .. MaxTyped - 1
  BY SMTT(30), <1>4, KbdAssumption DEF KInv, KType
<1>6. kc = typed[ngot]
  <2>1. 0 \in KPlaces /\ KPos(0) = ktail
    BY SMTT(30), KbdAssumption DEF KPos, KPlaces, KInv, KType
  <2>2. kbuf[KPos(0)] = typed[ngot + 0]
    <3>1. 0 < KUsed
      BY SMTT(30), <1>3
    <3> QED BY <2>1, <3>1 DEF KInv
  <2> QED BY SMTT(30), <1>2, <2>1, <2>2 DEF KInv, KType
<1>7. KType'
  <2>1. kc \in Byte /\ 0 \in Byte
    BY SMTT(30) DEF KInv, KType, Byte
  <2>2. ngot + 1 \in Nat
    BY SMTT(30), <1>5
  <2>3. got' \in [0 .. MaxTyped - 1 -> Byte]
    BY <1>1, <2>1 DEF KInv, KType
  <2> QED BY <1>1, <1>3, <2>1, <2>2, <2>3 DEF KInv, KType
<1>8. ntyped' + Len(kpend') <= MaxTyped /\ ntyped' = ngot' + KUsed'
  BY SMTT(30), <1>1, <1>3 DEF KInv, KType
<1>9. ASSUME NEW k \in KPlaces, k < KUsed'
      PROVE  kbuf'[KPos(k)'] = typed'[ngot' + k]
  <2>1. k + 1 \in KPlaces /\ k + 1 < KUsed
    BY SMTT(30), <1>3, <1>9, KbdAssumption DEF KPlaces
  <2>2. KPos(k)' = KPos(k + 1)
    BY SMTT(30), <1>1, <1>2, <1>9, KbdAssumption DEF KPos, KInc, KPlaces, KInv, KType, KUsed
  <2>3. kbuf[KPos(k + 1)] = typed[ngot + (k + 1)]
    BY <2>1 DEF KInv
  <2>4. ngot + (k + 1) = ngot' + k
    BY SMTT(30), <1>1 DEF KPlaces, KInv, KType
  <2> QED BY <2>2, <2>3, <2>4, <1>1
<1>10. \A i \in 0 .. ngot' - 1 : got'[i] = typed'[i]
  BY SMTT(30), <1>1, <1>5, <1>6 DEF KInv, KType
<1> QED BY <1>1, <1>7, <1>8, <1>9, <1>10 DEF KInv

LEMMA KNextInv == KInv /\ [KNext]_kvars => KInv'
<1> SUFFICES ASSUME KInv, [KNext]_kvars PROVE KInv'
  OBVIOUS
<1>1. ASSUME NEW sc \in Codes, Scan(sc) PROVE KInv'
  <2>1. kpend' = Bytes(sc) /\ ntyped + Len(Bytes(sc)) <= MaxTyped
        /\ UNCHANGED <<kbuf, khead, ktail, typed, ntyped, kpc, kc, got, ngot>>
    BY <1>1 DEF Scan, kring, kreader
  <2> QED BY <2>1, BytesType DEF KInv, KType, KUsed, KPos
<1>2. CASE Push
  BY <1>2, PushInv
<1>3. ASSUME NEW n \in 0 .. MaxWant, ReadStart(n) PROVE KInv'
  BY <1>3 DEF ReadStart, kring, KInv, KType, KUsed, KPos
<1>4. CASE Check
  BY <1>4 DEF Check, kring, KInv, KType, KUsed, KPos
<1>5. ASSUME NEW copied \in BOOLEAN, Take(copied) PROVE KInv'
  BY <1>5, TakeInv
<1>6. ASSUME NEW r \in BOOLEAN, SetMode(r) PROVE KInv'
  BY <1>6 DEF SetMode, kring, kreader, KInv, KType, KUsed, KPos
<1>7. CASE UNCHANGED kvars
  BY <1>7 DEF kvars, kring, kreader, KInv, KType, KUsed, KPos
<1> QED BY <1>1, <1>2, <1>3, <1>4, <1>5, <1>6, <1>7 DEF KNext, Reader

\* Every byte read from the console is the next one typed (keyboard_handler,
\* keyboard_getc): none lost in the ring, read twice or out of order.
THEOREM ConsoleInOrder == KSpec => []InOrder
<1>1. KInv => InOrder
  BY SMTT(30), KbdAssumption DEF KInv, KType, KUsed, KPlaces, InOrder
<1> QED BY KInitInv, KNextInv, <1>1, PTL DEF KSpec

-----------------------------------------------------------------------------
(* The SATA driver. As long as no command was given up that a port may     *)
(* still do, every port is quiet but the one ahci_send_cmd waits for, and  *)
(* that one has taken nothing but the command in the table.                *)

PortFields == {"ci", "err", "halted", "job", "disk"}

Quiet(s) == s.job = NoCommand /\ (s.ci => s.halted)

PortInv(s) ==
  /\ PortFields \subseteq DOMAIN s
  /\ s.ci \in BOOLEAN /\ s.err \in BOOLEAN /\ s.halted \in BOOLEAN /\ DOMAIN s.disk = Lbas
  /\ s.err => s.halted
  /\ s.halted => s.job = NoCommand

\* What a command has done once it is done.
CommandDone(s, data) ==
  /\ cmdtable.op = "read" => data = s.disk[cmdtable.lba]
  /\ cmdtable.op = "write" => s.disk[cmdtable.lba] = cmdtable.block

CommandOut(s, snd) ==
  /\ snd.port \in SataPorts /\ cmdtable.buf = given
  /\ cmdtable.op \in {"read", "write"} => cmdtable.lba \in Lbas
  /\ cmdtable.op = "write" => cmdtable.block \in expected[snd.port][cmdtable.lba]
  /\ s.job \in {NoCommand, cmdtable} /\ (s.job # NoCommand => s.ci)
  /\ ~s.ci /\ ~s.err => CommandDone(s, snd.data)

SataInv ==
  /\ DOMAIN sata = SataPorts /\ DOMAIN expected = SataPorts
  /\ \A p \in SataPorts : /\ PortInv(sata[p]) /\ DOMAIN expected[p] = Lbas
                          /\ \A l \in Lbas : sata[p].disk[l] \in expected[p][l]
                          /\ ~sender.wait \/ p # sender.port => Quiet(sata[p])
  /\ {"wait", "ok", "port", "data"} \subseteq DOMAIN sender
  /\ sender.wait \in BOOLEAN /\ sender.ok \in BOOLEAN
  /\ sender.wait => CommandOut(sata[sender.port], sender)
  /\ ~sender.wait /\ sender.ok /\ cmdtable.op = "read" =>
       sender.data = sata[sender.port].disk[cmdtable.lba]

AInv == stray \in BOOLEAN /\ (~stray => SataInv)

LEMMA AhciInitInv == AhciInit => AInv
<1> SUFFICES ASSUME AhciInit PROVE AInv
  OBVIOUS
<1>1. /\ cmdtable = NoCommand /\ stray = FALSE
      /\ sata = [p \in SataPorts |->
                   [ci |-> FALSE, err |-> FALSE, halted |-> FALSE, job |-> NoCommand,
                    disk |-> [l \in Lbas |-> CHOOSE b \in Contents : TRUE]]]
      /\ sender = [wait |-> FALSE, ok |-> FALSE, port |-> 0, data |-> "none"]
      /\ expected = [p \in SataPorts |-> [l \in Lbas |-> {sata[p].disk[l]}]]
  BY DEF AhciInit
<1>2. ASSUME NEW p \in SataPorts
      PROVE  /\ PortInv(sata[p]) /\ DOMAIN expected[p] = Lbas
             /\ \A l \in Lbas : sata[p].disk[l] \in expected[p][l]
             /\ Quiet(sata[p])
  <2> DEFINE d == [l \in Lbas |-> CHOOSE b \in Contents : TRUE]
  <2>1. /\ sata[p] = [ci |-> FALSE, err |-> FALSE, halted |-> FALSE, job |-> NoCommand, disk |-> d]
        /\ DOMAIN d = Lbas
    BY <1>1
  <2> HIDE DEF d
  <2>2. /\ PortFields \subseteq DOMAIN sata[p] /\ sata[p].ci = FALSE /\ sata[p].err = FALSE
        /\ sata[p].halted = FALSE /\ sata[p].job = NoCommand /\ sata[p].disk = d
    BY SMTT(30), <2>1 DEF PortFields
  <2>3. expected[p] = [l \in Lbas |-> {sata[p].disk[l]}]
    BY <1>1
  <2> QED BY SMTT(30), <2>1, <2>2, <2>3 DEF PortInv, Quiet
<1> QED BY <1>1, <1>2 DEF AInv, SataInv

\* A step that leaves the ports and the table alone, and what the sectors may hold but
\* for more: the common part of the steps of the driver.
LEMMA SendCmdInv ==
  ASSUME SataInv, NEW p \in SataPorts, NEW op, NEW l, NEW b,
         SendCmd(p, [op |-> op, lba |-> l, block |-> b]),
         op \in {"read", "write"} => l \in Lbas,
         IF op = "write" THEN expected' = [expected EXCEPT ![p][l] = @ \union {b}]
         ELSE expected' = expected
  PROVE  SataInv'
<1>1. /\ ~sender.wait /\ given' = given + 1
      /\ cmdtable'.op = op /\ cmdtable'.lba = l /\ cmdtable'.block = b /\ cmdtable'.buf = given'
      /\ sata' = [sata EXCEPT ![p].err = FALSE, ![p].ci = TRUE]
      /\ sender' = [wait |-> TRUE, ok |-> FALSE, port |-> p, data |-> "none"]
  BY DEF SendCmd
<1>2. /\ DOMAIN sata' = SataPorts
      /\ \A q \in SataPorts \ {p} : sata'[q] = sata[q]
      /\ PortFields \subseteq DOMAIN sata'[p]
      /\ sata'[p].err = FALSE /\ sata'[p].ci = TRUE /\ sata'[p].job = sata[p].job
      /\ sata'[p].halted = sata[p].halted /\ sata'[p].disk = sata[p].disk
  BY <1>1 DEF SataInv, PortInv, PortFields
<1>3. /\ DOMAIN expected' = SataPorts
      /\ \A q \in SataPorts : /\ DOMAIN expected'[q] = Lbas
                              /\ \A m \in Lbas : expected[q][m] \subseteq expected'[q][m]
      /\ op = "write" => b \in expected'[p][l]
  <2>0. DOMAIN expected = SataPorts /\ \A q \in SataPorts : DOMAIN expected[q] = Lbas
    BY DEF SataInv
  <2>1. CASE op = "write"
    <3>1. /\ expected' = [expected EXCEPT ![p] = [expected[p] EXCEPT ![l] = @ \union {b}]]
          /\ l \in Lbas
      BY <2>1
    <3>2. /\ expected'[p] = [expected[p] EXCEPT ![l] = @ \union {b}]
          /\ \A q \in SataPorts \ {p} : expected'[q] = expected[q]
          /\ DOMAIN expected' = SataPorts
      BY <2>0, <3>1
    <3>3. /\ DOMAIN expected'[p] = Lbas /\ b \in expected'[p][l]
          /\ \A m \in Lbas : expected[p][m] \subseteq expected'[p][m]
      BY <2>0, <3>1, <3>2
    <3> QED BY <2>0, <3>2, <3>3
  <2>2. CASE op # "write"
    BY <2>0, <2>2
  <2> QED BY <2>1, <2>2
<1>4. ASSUME NEW q \in SataPorts
      PROVE  /\ PortInv(sata'[q])
             /\ \A m \in Lbas : sata'[q].disk[m] \in expected'[q][m]
             /\ q # p => Quiet(sata'[q])
  <2>1. /\ PortInv(sata[q]) /\ Quiet(sata[q])
        /\ \A m \in Lbas : sata[q].disk[m] \in expected[q][m]
    BY <1>1 DEF SataInv
  <2>2. \A m \in Lbas : sata[q].disk[m] \in expected'[q][m]
    BY <1>3, <2>1
  <2>3. CASE q = p
    BY <1>2, <2>1, <2>2, <2>3 DEF PortInv
  <2>4. CASE q # p
    BY <1>2, <2>1, <2>2, <2>4
  <2> QED BY <2>3, <2>4
<1>5. sata[p].job = NoCommand
  BY <1>1 DEF SataInv, Quiet
<1>6. CommandOut(sata[sender.port], sender)'
  BY <1>1, <1>2, <1>3, <1>5 DEF CommandOut
<1> QED BY <1>1, <1>2, <1>3, <1>4, <1>6 DEF SataInv

\* The polling loop ends.
LEMMA CompletesInv == ASSUME SataInv, Completes PROVE SataInv'
<1> DEFINE p == sender.port
           s == sata[p]
<1>1. /\ sender.wait /\ CommandOut(s, sender) /\ p \in SataPorts
  BY DEF Completes, SataInv, CommandOut
<1>2. /\ cmdtable' = cmdtable /\ sata' = sata /\ given' = given
      /\ sender' = [sender EXCEPT !.wait = FALSE, !.ok = Outcome(p) = "ok"]
      /\ expected' = IF cmdtable.op = "write" /\ Outcome(p) = "ok"
                     THEN [expected EXCEPT ![p][cmdtable.lba] = {cmdtable.block}]
                     ELSE expected
      /\ Outcome(p) # "wait"
  BY DEF Completes
<1>3. /\ sender'.wait = FALSE /\ sender'.ok = (Outcome(p) = "ok") /\ sender'.port = p
      /\ sender'.data = sender.data /\ {"wait", "ok", "port", "data"} \subseteq DOMAIN sender'
  BY <1>2 DEF SataInv
<1>4. PortInv(s)
  BY <1>1 DEF SataInv
<1>5. Quiet(s) /\ (Outcome(p) = "ok" => CommandDone(s, sender.data))
  BY <1>1, <1>2, <1>4 DEF Outcome, Quiet, CommandOut, PortInv
<1>6. ASSUME NEW q \in SataPorts
      PROVE  Quiet(sata[q]) /\ PortInv(sata[q])
  BY <1>5 DEF SataInv
<1>7. /\ DOMAIN expected' = SataPorts
      /\ \A q \in SataPorts : /\ DOMAIN expected'[q] = Lbas
                              /\ \A m \in Lbas : sata[q].disk[m] \in expected'[q][m]
  <2>0. /\ DOMAIN expected = SataPorts
        /\ \A q \in SataPorts : /\ DOMAIN expected[q] = Lbas
                                /\ \A m \in Lbas : sata[q].disk[m] \in expected[q][m]
    BY DEF SataInv
  <2>1. CASE cmdtable.op = "write" /\ Outcome(p) = "ok"
    <3>1. /\ expected' = [expected EXCEPT ![p] = [expected[p] EXCEPT ![cmdtable.lba] = {cmdtable.block}]]
      BY <1>2, <2>1
    <3>2. cmdtable.lba \in Lbas /\ s.disk[cmdtable.lba] = cmdtable.block
      BY <1>1, <1>5, <2>1 DEF CommandOut, CommandDone
    <3>3. /\ expected'[p] = [expected[p] EXCEPT ![cmdtable.lba] = {cmdtable.block}]
          /\ \A q \in SataPorts \ {p} : expected'[q] = expected[q]
          /\ DOMAIN expected' = SataPorts
      BY <1>1, <2>0, <3>1
    <3>4. DOMAIN expected'[p] = Lbas /\ \A m \in Lbas : s.disk[m] \in expected'[p][m]
      BY SMTT(30), <1>1, <2>0, <3>2, <3>3
    <3> QED BY <2>0, <3>3, <3>4
  <2>2. CASE ~(cmdtable.op = "write" /\ Outcome(p) = "ok")
    BY <1>2, <2>0, <2>2
  <2> QED BY <2>1, <2>2
<1>8. sender'.ok /\ cmdtable'.op = "read" => sender'.data = sata'[sender'.port].disk[cmdtable'.lba]
  BY <1>2, <1>3, <1>5 DEF CommandDone
<1>9. sender'.ok \in BOOLEAN
  BY <1>3
<1>10. DOMAIN sata = SataPorts
  BY DEF SataInv
<1> QED BY SMTT(30), <1>2, <1>3, <1>6, <1>7, <1>8, <1>9, <1>10 DEF SataInv

\* The loop gives up on a port that is halted.
LEMMA GivesUpInv == ASSUME SataInv, GivesUp, ~stray' PROVE SataInv'
<1> DEFINE p == sender.port
           s == sata[p]
<1>1. /\ sender.wait /\ CommandOut(s, sender) /\ p \in SataPorts /\ s.halted
  BY DEF GivesUp, SataInv, CommandOut
<1>2. /\ cmdtable' = cmdtable /\ sata' = sata /\ given' = given /\ expected' = expected
      /\ sender' = [sender EXCEPT !.wait = FALSE, !.ok = FALSE]
  BY DEF GivesUp
<1>3. /\ sender'.wait = FALSE /\ sender'.ok = FALSE /\ sender'.port = p
      /\ {"wait", "ok", "port", "data"} \subseteq DOMAIN sender'
  BY <1>2 DEF SataInv
<1>4. Quiet(s)
  BY <1>1 DEF SataInv, PortInv, Quiet
<1> QED BY <1>2, <1>3, <1>4 DEF SataInv

\* A step of the controller at a port that is not quiet: the one that is waited for.
LEMMA PortStep ==
  ASSUME SataInv, NEW p \in SataPorts, ~Quiet(sata[p]),
         cmdtable' = cmdtable, given' = given, expected' = expected,
         DOMAIN sata' = SataPorts, \A q \in SataPorts \ {p} : sata'[q] = sata[q],
         PortInv(sata'[p]), {"wait", "ok", "port", "data"} \subseteq DOMAIN sender',
         sender'.wait = sender.wait, sender'.ok = sender.ok, sender'.port = sender.port,
         sata'[p].job \in {NoCommand, cmdtable}, sata'[p].job # NoCommand => sata'[p].ci,
         ~sata'[p].ci /\ ~sata'[p].err => CommandDone(sata'[p], sender'.data),
         \A l \in Lbas : sata'[p].disk[l] \in expected[p][l]
  PROVE  SataInv'
<1>1. sender.wait /\ sender.port = p /\ CommandOut(sata[p], sender)
  BY DEF SataInv
<1>2. sata'[sender'.port] = sata'[p] /\ sender'.port = p
  BY <1>1
<1>3. CommandOut(sata[sender.port], sender)'
  <2>1. /\ cmdtable'.buf = given' /\ (cmdtable'.op \in {"read", "write"} => cmdtable'.lba \in Lbas)
        /\ cmdtable'.op = "write" => cmdtable'.block \in expected'[p][cmdtable'.lba]
    BY <1>1 DEF CommandOut
  <2>2. ~sata'[p].ci /\ ~sata'[p].err => CommandDone(sata[sender.port], sender.data)'
    BY <1>2 DEF CommandDone
  <2> QED BY <1>2, <2>1, <2>2 DEF CommandOut
<1>4. ASSUME NEW q \in SataPorts
      PROVE  /\ PortInv(sata'[q]) /\ \A l \in Lbas : sata'[q].disk[l] \in expected[q][l]
             /\ q # p => Quiet(sata'[q])
  <2>1. CASE q = p
    BY <2>1
  <2>2. CASE q # p
    <3>1. sata'[q] = sata[q]
      BY <2>2
    <3>2. PortInv(sata[q]) /\ Quiet(sata[q]) /\ \A l \in Lbas : sata[q].disk[l] \in expected[q][l]
      BY <1>1, <2>2 DEF SataInv
    <3> QED BY <3>1, <3>2
  <2> QED BY <2>1, <2>2
<1>5. DOMAIN expected = SataPorts /\ \A q \in SataPorts : DOMAIN expected[q] = Lbas
  BY DEF SataInv
<1>6. sender.wait \in BOOLEAN /\ sender.ok \in BOOLEAN
  BY DEF SataInv
<1> QED BY <1>1, <1>3, <1>4, <1>5, <1>6 DEF SataInv

LEMMA FetchesInv == ASSUME SataInv, NEW p \in SataPorts, Fetches(p) PROVE SataInv'
<1> DEFINE s == sata[p]
           t == sata'[p]
<1>1. /\ s.ci /\ ~s.halted /\ sata' = [sata EXCEPT ![p].job = cmdtable]
      /\ cmdtable' = cmdtable /\ sender' = sender /\ given' = given /\ expected' = expected
  BY DEF Fetches
<1>2. PortInv(s) /\ \A l \in Lbas : s.disk[l] \in expected[p][l]
  BY DEF SataInv
<1>3. /\ DOMAIN sata' = SataPorts /\ \A q \in SataPorts \ {p} : sata'[q] = sata[q]
      /\ PortFields \subseteq DOMAIN t
      /\ t.job = cmdtable /\ t.ci = s.ci /\ t.err = s.err /\ t.halted = s.halted /\ t.disk = s.disk
  BY <1>1, <1>2 DEF SataInv, PortInv, PortFields
<1>4. ~Quiet(s)
  BY <1>1 DEF Quiet
<1> HIDE DEF t
<1>5. PortInv(t)
  BY <1>1, <1>2, <1>3 DEF PortInv
<1>6. {"wait", "ok", "port", "data"} \subseteq DOMAIN sender
  BY DEF SataInv
<1>7. /\ ~Quiet(sata[p]) /\ PortInv(sata'[p]) /\ sata'[p].job = cmdtable
      /\ sata'[p].ci /\ \A l \in Lbas : sata'[p].disk[l] \in expected[p][l]
  BY <1>1, <1>2, <1>3, <1>4, <1>5 DEF t
<1> QED BY <1>1, <1>3, <1>6, <1>7, PortStep

LEMMA BreaksInv ==
  ASSUME SataInv, NEW p \in SataPorts, NEW c \in BOOLEAN, Breaks(p, c) PROVE SataInv'
<1> DEFINE s == sata[p]
           t == sata'[p]
<1>1. /\ s.job # NoCommand
      /\ sata' = [sata EXCEPT ![p].err = TRUE, ![p].halted = TRUE, ![p].job = NoCommand, ![p].ci = ~c]
      /\ cmdtable' = cmdtable /\ sender' = sender /\ given' = given /\ expected' = expected
  BY DEF Breaks
<1>2. PortInv(s) /\ \A l \in Lbas : s.disk[l] \in expected[p][l]
  BY DEF SataInv
<1>3. /\ DOMAIN sata' = SataPorts /\ \A q \in SataPorts \ {p} : sata'[q] = sata[q]
      /\ PortFields \subseteq DOMAIN t
      /\ t.job = NoCommand /\ t.ci = ~c /\ t.err = TRUE /\ t.halted = TRUE /\ t.disk = s.disk
  BY <1>1, <1>2 DEF SataInv, PortInv, PortFields
<1>4. ~Quiet(s)
  BY <1>1 DEF Quiet
<1> HIDE DEF t
<1>5. PortInv(t)
  BY <1>1, <1>2, <1>3 DEF PortInv
<1>6. {"wait", "ok", "port", "data"} \subseteq DOMAIN sender
  BY DEF SataInv
<1> QED BY <1>1, <1>2, <1>3, <1>4, <1>5, <1>6, PortStep DEF t

LEMMA FinishesInv == ASSUME SataInv, NEW p \in SataPorts, Finishes(p) PROVE SataInv'
<1> DEFINE s == sata[p]
           t == sata'[p]
           job == s.job
<1>1. /\ job # NoCommand
      /\ sata' = [sata EXCEPT ![p].ci = FALSE, ![p].job = NoCommand,
                              ![p].disk = IF job.op = "write" THEN [@ EXCEPT ![job.lba] = job.block] ELSE @]
      /\ sender' = IF sender.wait /\ job.buf = given /\ job.op = "read"
                   THEN [sender EXCEPT !.data = s.disk[job.lba]] ELSE sender
      /\ cmdtable' = cmdtable /\ given' = given /\ expected' = expected
  BY DEF Finishes
<1>2. PortInv(s) /\ (\A l \in Lbas : s.disk[l] \in expected[p][l]) /\ ~Quiet(s)
  BY <1>1 DEF SataInv, Quiet
<1>3. sender.wait /\ sender.port = p /\ CommandOut(s, sender) /\ job = cmdtable
  BY <1>1, <1>2 DEF SataInv, CommandOut
<1>4. /\ DOMAIN sata' = SataPorts /\ \A q \in SataPorts \ {p} : sata'[q] = sata[q]
      /\ PortFields \subseteq DOMAIN t
      /\ t.job = NoCommand /\ t.ci = FALSE /\ t.err = s.err /\ t.halted = s.halted
      /\ t.disk = IF cmdtable.op = "write" THEN [s.disk EXCEPT ![cmdtable.lba] = cmdtable.block]
                  ELSE s.disk
  BY <1>1, <1>2, <1>3 DEF SataInv, PortInv, PortFields
<1>5. /\ {"wait", "ok", "port", "data"} \subseteq DOMAIN sender'
      /\ sender'.wait = sender.wait /\ sender'.ok = sender.ok /\ sender'.port = sender.port
      /\ cmdtable.op = "read" => sender'.data = s.disk[cmdtable.lba]
  <2>1. {"wait", "ok", "port", "data"} \subseteq DOMAIN sender
    BY DEF SataInv
  <2>2. cmdtable.buf = given
    BY <1>3 DEF CommandOut
  <2> QED BY <1>1, <1>3, <2>1, <2>2
<1> HIDE DEF t
<1>6. PortInv(t) /\ \A l \in Lbas : t.disk[l] \in expected[p][l]
  <2>1. CASE cmdtable.op = "write"
    <3>1. cmdtable.lba \in Lbas /\ cmdtable.block \in expected[p][cmdtable.lba]
      BY <1>3, <2>1 DEF CommandOut
    <3>2. t.disk = [s.disk EXCEPT ![cmdtable.lba] = cmdtable.block] /\ DOMAIN s.disk = Lbas
      BY <1>2, <1>4, <2>1 DEF PortInv
    <3>3. DOMAIN t.disk = Lbas /\ \A l \in Lbas : t.disk[l] \in expected[p][l]
      BY <1>2, <3>1, <3>2
    <3> QED BY <1>2, <1>4, <3>3 DEF PortInv
  <2>2. CASE cmdtable.op # "write"
    BY <1>2, <1>4, <2>2 DEF PortInv
  <2> QED BY <2>1, <2>2
<1>7. CommandDone(t, sender'.data)
  <2>1. CASE cmdtable.op = "read"
    BY <1>4, <1>5, <2>1 DEF CommandDone
  <2>2. CASE cmdtable.op = "write"
    <3>1. cmdtable.lba \in Lbas
      BY <1>3, <2>2 DEF CommandOut
    <3> QED BY <1>2, <1>4, <2>2, <3>1 DEF CommandDone, PortInv
  <2>3. CASE cmdtable.op \notin {"read", "write"}
    BY <2>3 DEF CommandDone
  <2> QED BY <2>1, <2>2, <2>3
<1>8. /\ ~Quiet(sata[p]) /\ PortInv(sata'[p])
      /\ sata'[p].job = NoCommand /\ \A l \in Lbas : sata'[p].disk[l] \in expected[p][l]
  BY <1>2, <1>4, <1>6 DEF t
<1>9. CommandDone(sata'[p], sender'.data)
  BY <1>7 DEF t
<1> QED BY <1>1, <1>4, <1>5, <1>8, <1>9, PortStep

LEMMA AhciNextInv == AInv /\ [AhciNext]_ahcivars => AInv'
<1> SUFFICES ASSUME AInv, [AhciNext]_ahcivars PROVE AInv'
  OBVIOUS
<1>1. CASE UNCHANGED ahcivars
  BY <1>1 DEF ahcivars, AInv, SataInv, PortInv, Quiet, CommandOut, CommandDone
<1>2. CASE AhciNext
  <2>1. stray' \in BOOLEAN /\ (~stray' => ~stray)
    <3>1. stray \in BOOLEAN
      BY DEF AInv
    <3>2. CASE GivesUp
      BY <3>1, <3>2 DEF GivesUp
    <3>3. CASE ~GivesUp
      <4>1. stray' = stray
        BY <1>2, <3>3 DEF AhciNext, Identify, AhciRead, AhciWrite, Fetches, Finishes, Breaks,
                          Completes
      <4> QED BY <3>1, <4>1
    <3> QED BY <3>2, <3>3
  <2>2. ASSUME SataInv, ~stray' PROVE SataInv'
    <3>1. ASSUME NEW p \in SataPorts, Identify(p) PROVE SataInv'
      <4>1. SendCmd(p, [op |-> "identify", lba |-> 0, block |-> "none"]) /\ expected' = expected
        BY <3>1 DEF Identify
      <4> QED BY SMTT(30), <2>2, <4>1, SendCmdInv
    <3>2. ASSUME NEW p \in SataPorts, NEW l \in Lbas, AhciRead(p, l) PROVE SataInv'
      <4>1. SendCmd(p, [op |-> "read", lba |-> l, block |-> "none"]) /\ expected' = expected
        BY <3>2 DEF AhciRead
      <4> QED BY SMTT(30), <2>2, <4>1, SendCmdInv
    <3>3. ASSUME NEW p \in SataPorts, NEW l \in Lbas, NEW b \in Contents, AhciWrite(p, l, b)
          PROVE  SataInv'
      <4>1. /\ SendCmd(p, [op |-> "write", lba |-> l, block |-> b])
            /\ expected' = [expected EXCEPT ![p][l] = @ \union {b}]
        BY <3>3 DEF AhciWrite
      <4> QED BY <2>2, <4>1, SendCmdInv
    <3> QED BY <1>2, <2>2, <3>1, <3>2, <3>3, FetchesInv, FinishesInv, BreaksInv, CompletesInv,
               GivesUpInv DEF AhciNext
  <2> QED BY <2>1, <2>2 DEF AInv
<1> QED BY <1>1, <1>2

\* Until a command is given up that its port may still carry out, a disk holds
\* and a read brings what ahci_send_cmd reported, for any ports, sectors and
\* blocks, however the commands of the ports share the one command table.
THEOREM DisksHoldReported == AhciSpec => []DisksAsReported
<1>1. AInv => DisksAsReported
  BY DEF AInv, SataInv, DisksAsReported
<1> QED BY <1>1, AhciInitInv, AhciNextInv, PTL DEF AhciSpec

-----------------------------------------------------------------------------
(* The rings of a network adapter.                                         *)

\* The k-th place after c of a ring of n.
RingPos(c, k, n) == IF c + k < n THEN c + k ELSE c + k - n

RingLaws(c, n) ==
  /\ RingPos(c, 0, n) = c /\ RingPos(c, n, n) = c
  /\ Wrapped(c, n) \in 0 .. n - 1 /\ Wrapped(c, n) = RingPos(c, 1, n)
  /\ \A k \in 0 .. n - 1 : /\ RingPos(c, k, n) \in 0 .. n - 1
                           /\ Wrapped(RingPos(c, k, n), n) = RingPos(c, k + 1, n)
                           /\ RingPos(Wrapped(c, n), k, n) = RingPos(c, k + 1, n)
  /\ \A j, k \in 0 .. n - 1 : RingPos(c, j, n) = RingPos(c, k, n) => j = k

LEMMA RingPlace == ASSUME NEW n \in Nat \ {0}, NEW c \in 0 .. n - 1 PROVE RingLaws(c, n)
<1>1. \A i \in 0 .. n - 1 : Wrapped(i, n) = IF i + 1 < n THEN i + 1 ELSE 0
  BY SMTT(10) DEF Wrapped
<1> QED BY SMTT(10), <1>1 DEF RingLaws, RingPos

\* A sequence of the numbers from 1 on, with the next one at its end.
LEMMA Counted ==
  ASSUME NEW s \in Seq(Nat), NEW h, h = Len(s), \A i \in 1 .. h : s[i] = i, NEW x, x = h + 1,
         NEW t, t = Append(s, x)
  PROVE  Len(t) = h + 1 /\ t \in Seq(Nat) /\ \A i \in 1 .. h + 1 : t[i] = i
<1>1. Len(s) \in Nat /\ x \in Nat
  BY SMTT(10)
<1>2. Len(t) = h + 1 /\ t \in Seq(Nat) /\ t[h + 1] = x /\ \A i \in 1 .. h : t[i] = s[i]
  BY SMTT(10), <1>1
<1>3. ASSUME NEW i \in 1 .. h + 1 PROVE t[i] = i
  <2>1. i \in 1 .. h \/ i = h + 1
    BY SMTT(10), <1>1
  <2> QED BY <1>2, <2>1
<1> QED BY <1>2, <1>3

LEMMA Shifted ==
  ASSUME NEW n \in Nat \ {0}, NEW m \in 1 .. n, NEW k \in 0 .. n - 1
  PROVE  /\ k + 1 # 0 /\ (k + 1 < m <=> k < m - 1)
         /\ k + 1 \notin 0 .. n - 1 => k + 1 = n /\ ~(k < m - 1)
         /\ k < m - 1 => k + 1 \in 0 .. n - 1
  BY SMTT(10)

LEMMA ShiftedBy ==
  ASSUME NEW n \in Nat \ {0}, NEW k \in 0 .. n - 1, NEW w \in Nat
  PROVE  (w + 1) + 1 + k = w + 1 + (k + 1)
  BY SMTT(10)

LEMMA OneMore ==
  ASSUME NEW n \in Nat \ {0}, NEW m \in 0 .. n - 1, NEW k \in 0 .. n - 1
  PROVE  /\ m + 1 \in 0 .. n /\ m < m + 1
         /\ k # m => (k < m + 1 <=> k < m)
  BY SMTT(10)

RxType(r) ==
  /\ {"dd", "buf", "cur", "head", "tail"} \subseteq DOMAIN r
  /\ r.dd \in [0 .. NDesc - 1 -> BOOLEAN] /\ r.buf \in [0 .. NDesc - 1 -> Nat]
  /\ r.cur \in 0 .. NDesc - 1 /\ r.head \in 0 .. NDesc - 1 /\ r.tail \in 0 .. NDesc - 1

TxType(t, n) ==
  /\ {"buf", "cur", "head", "tail", "due"} \subseteq DOMAIN t
  /\ t.buf \in [0 .. n - 1 -> Nat] /\ t.cur \in 0 .. n - 1 /\ t.head \in 0 .. n - 1
  /\ t.due \in SUBSET (0 .. n - 1)

NType ==
  /\ nicType \in {"e1000", "rtl8139", "none"} /\ RxType(rxring)
  /\ arrived \in Nat
  /\ handed \in Seq(Nat) /\ queued \in Seq(Nat) /\ onwire \in Seq(Nat)
  /\ overrun \in BOOLEAN

\* m frames wait in the receive ring: from rx_cur on, in the order of arrival.
RxRing(r, m, h) ==
  /\ m \in 0 .. NDesc /\ r.head = RingPos(r.cur, m, NDesc)
  /\ \A k \in 0 .. NDesc - 1 :
       /\ r.dd[RingPos(r.cur, k, NDesc)] <=> k < m
       /\ k < m => r.buf[RingPos(r.cur, k, NDesc)] = h + 1 + k
  /\ r.tail = IF h = 0 THEN NDesc - 1 ELSE r.cur
  /\ h = 0 => r.cur = 0 /\ m < NDesc

RxInv ==
  /\ \A i \in 1 .. Len(handed) : handed[i] = i
  /\ nicType = "e1000" => RxRing(rxring, arrived - Len(handed), Len(handed))
  /\ nicType # "e1000" => Len(handed) = 0

NSlot == IF nicType = "e1000" THEN NDesc ELSE NTsd

\* m frames wait to be transmitted: from the adapter's head on, in the order of sending.
TxRing(t, m, w, n) ==
  /\ m \in 0 .. n /\ t.cur = RingPos(t.head, m, n)
  /\ \A k \in 0 .. n - 1 : k < m => t.buf[RingPos(t.head, k, n)] = w + 1 + k
  /\ nicType = "e1000" => t.tail = t.cur /\ m < n
  /\ nicType = "rtl8139" =>
       \A k \in 0 .. n - 1 : RingPos(t.head, k, n) \in t.due <=> k < m

TxInv ==
  /\ \A i \in 1 .. Len(queued) : queued[i] = i
  /\ TxType(txring, NSlot)
  /\ ~overrun => /\ \A i \in 1 .. Len(onwire) : onwire[i] = i
                 /\ TxRing(txring, Len(queued) - Len(onwire), Len(onwire), NSlot)

NInv == NType /\ RxInv /\ TxInv

LEMMA NInitInv == NicInit => NInv
<1> SUFFICES ASSUME NicInit PROVE NInv
  OBVIOUS
<1>1. /\ nicType \in {"e1000", "rtl8139", "none"} /\ arrived = 0 /\ handed = <<>> /\ queued = <<>>
      /\ onwire = <<>> /\ overrun = FALSE
      /\ rxring = [dd |-> [i \in 0 .. NDesc - 1 |-> FALSE], buf |-> [i \in 0 .. NDesc - 1 |-> 0],
                   cur |-> 0, head |-> 0, tail |-> NDesc - 1]
      /\ txring = [buf |-> [i \in TxSlots |-> 0], cur |-> 0, head |-> 0, tail |-> 0, due |-> {}]
  BY DEF NicInit, NetInit
<1>2. NSlot \in Nat \ {0} /\ TxSlots = 0 .. NSlot - 1
  BY SMTT(10), NicConstants DEF NSlot, TxSlots
<1>3. Len(<<>>) = 0 /\ <<>> \in Seq(Nat)
  BY SMTT(10)
<1>4. 0 \in 0 .. NDesc - 1 /\ NDesc - 1 \in 0 .. NDesc - 1 /\ 0 \in 0 .. NSlot - 1
  BY SMTT(10), <1>2, NicConstants
<1>5. NType
  BY SMTT(10), <1>1, <1>3, <1>4 DEF NType, RxType
<1>6. RxInv
  BY SMTT(10), <1>1, <1>3, <1>4, NicConstants DEF RxInv, RxRing, RingPos
<1>7. TxInv
  BY SMTT(10), <1>1, <1>2, <1>3, <1>4 DEF TxInv, TxRing, TxType, RingPos
<1> QED BY <1>5, <1>6, <1>7 DEF NInv

\* e1000_recv takes the oldest frame.
LEMMA RecvInv == NInv /\ E1000HandleIrq => NInv'
<1> SUFFICES ASSUME NInv, E1000HandleIrq PROVE NInv'
  OBVIOUS
<1> DEFINE r == rxring
           t == rxring'
           h == Len(handed)
           m == arrived - h
           P(k) == RingPos(r.cur, k, NDesc)
<1>1. /\ nicType = "e1000" /\ r.dd[r.cur] /\ handed' = Append(handed, r.buf[r.cur])
      /\ t = E1000Recv(r)
      /\ UNCHANGED <<nicType, isr, arrived, txring, queued, onwire, overrun>>
  BY DEF E1000HandleIrq, txvars
<1>2. /\ r.dd \in [0 .. NDesc - 1 -> BOOLEAN] /\ r.buf \in [0 .. NDesc - 1 -> Nat]
      /\ r.cur \in 0 .. NDesc - 1 /\ r.head \in 0 .. NDesc - 1 /\ NDesc \in Nat \ {0}
      /\ h \in Nat /\ arrived \in Nat /\ handed \in Seq(Nat)
  BY SMTT(10), NicConstants DEF NInv, NType, RxType
<1>3. RxRing(r, m, h) /\ \A i \in 1 .. h : handed[i] = i
  BY <1>1 DEF NInv, RxInv
<1>4. /\ t.dd = [r.dd EXCEPT ![r.cur] = FALSE] /\ t.buf = r.buf /\ t.head = r.head
      /\ t.cur = Wrapped(r.cur, NDesc) /\ t.tail = Wrapped(r.cur, NDesc)
      /\ DOMAIN t = DOMAIN r
  BY <1>1 DEF NInv, NType, RxType, E1000Recv
<1>5. /\ P(0) = r.cur /\ P(NDesc) = r.cur /\ t.cur \in 0 .. NDesc - 1
      /\ \A k \in 0 .. NDesc - 1 : P(k) \in 0 .. NDesc - 1 /\ RingPos(t.cur, k, NDesc) = P(k + 1)
      /\ \A j, k \in 0 .. NDesc - 1 : P(j) = P(k) => j = k
  <2>1. NDesc \in Nat \ {0} /\ r.cur \in 0 .. NDesc - 1
    BY <1>2
  <2>2. RingLaws(r.cur, NDesc)
    BY <2>1, RingPlace
  <2> QED BY <1>4, <2>2 DEF RingLaws
<1>6. m \in 1 .. NDesc /\ r.buf[r.cur] = h + 1
  <2>1. 0 \in 0 .. NDesc - 1
    BY SMTT(10), <1>2
  <2>2. /\ 0 < m /\ m \in 0 .. NDesc
        /\ r.buf[r.cur] = h + 1 + 0
    BY <1>1, <1>3, <1>5, <2>1 DEF RxRing
  <2> QED BY ONLY SMTT(10), <1>2, <2>2
<1>7. Len(handed') = h + 1 /\ handed' \in Seq(Nat) /\ \A i \in 1 .. h + 1 : handed'[i] = i
  <2>1. handed \in Seq(Nat) /\ h = Len(handed) /\ \A i \in 1 .. h : handed[i] = i
    BY <1>2, <1>3
  <2>2. handed' = Append(handed, h + 1)
    BY <1>1, <1>6
  <2> HIDE DEF r, t, h, m, P
  <2> QED BY SMTT(10), <2>1, <2>2, Counted
<1> HIDE DEF r, t, h, m, P
<1>8. RxRing(t, m - 1, h + 1)
  <2>1. m - 1 \in 0 .. NDesc /\ t.head = RingPos(t.cur, m - 1, NDesc)
    <3>1. m - 1 \in 0 .. NDesc - 1 /\ (m - 1) + 1 = m
      BY ONLY SMTT(10), <1>2, <1>6
    <3>2. RingPos(t.cur, m - 1, NDesc) = P(m)
      BY <1>5, <3>1
    <3> QED BY SMTT(10), <1>2, <1>3, <1>4, <3>1, <3>2 DEF RxRing, P
  <2>2. ASSUME NEW k \in 0 .. NDesc - 1
        PROVE  /\ t.dd[RingPos(t.cur, k, NDesc)] <=> k < m - 1
               /\ k < m - 1 => t.buf[RingPos(t.cur, k, NDesc)] = (h + 1) + 1 + k
    <3>1. RingPos(t.cur, k, NDesc) = P(k + 1)
      BY <1>5
    <3>2. CASE k + 1 \in 0 .. NDesc - 1
      <4>1. /\ r.dd[P(k + 1)] <=> k + 1 < m
            /\ k + 1 < m => r.buf[P(k + 1)] = h + 1 + (k + 1)
        BY <1>3, <3>2 DEF RxRing, P
      <4>2. P(k + 1) # r.cur /\ P(k + 1) \in 0 .. NDesc - 1
        <5>1. 0 \in 0 .. NDesc - 1 /\ k + 1 # 0
          BY ONLY SMTT(10), <1>2, k \in 0 .. NDesc - 1
        <5> QED BY <1>5, <3>2, <5>1
      <4>3. t.dd[P(k + 1)] = r.dd[P(k + 1)]
        BY <1>2, <1>4, <4>2
      <4>4. k + 1 < m <=> k < m - 1
        BY <1>2, <1>6, Shifted
      <4>5. (h + 1) + 1 + k = h + 1 + (k + 1)
        BY ONLY SMTT(10), k \in 0 .. NDesc - 1, <1>2
      <4> QED BY <1>4, <3>1, <4>1, <4>3, <4>4, <4>5
    <3>3. CASE k + 1 \notin 0 .. NDesc - 1
      <4>1. k + 1 = NDesc /\ ~(k < m - 1)
        BY <1>2, <1>6, <3>3, Shifted
      <4>2. ~t.dd[r.cur]
        BY <1>2, <1>4
      <4> QED BY <1>5, <3>1, <4>1, <4>2
    <3> QED BY <3>2, <3>3
  <2>3. h + 1 # 0
    BY ONLY SMTT(10), <1>2
  <2> QED BY <1>4, <2>1, <2>2, <2>3 DEF RxRing
<1>9. arrived - (h + 1) = m - 1
  BY ONLY SMTT(10), <1>2 DEF m
<1>10. RxInv'
  BY <1>1, <1>7, <1>8, <1>9 DEF RxInv, t
<1>11. NType'
  <2>1. RxType(t)
    <3>1. t.dd \in [0 .. NDesc - 1 -> BOOLEAN]
      BY SMTT(10), <1>2, <1>4
    <3>2. {"dd", "buf", "cur", "head", "tail"} \subseteq DOMAIN t
      BY <1>4 DEF NInv, NType, RxType, r
    <3>3. /\ t.buf \in [0 .. NDesc - 1 -> Nat] /\ t.cur \in 0 .. NDesc - 1
          /\ t.head \in 0 .. NDesc - 1 /\ t.tail \in 0 .. NDesc - 1
      BY <1>2, <1>4, <1>5
    <3> QED BY <3>1, <3>2, <3>3 DEF RxType
  <2> QED BY <1>1, <1>7, <2>1 DEF NInv, NType, t
<1>12. TxInv'
  BY <1>1 DEF NInv, TxInv, TxRing, NSlot
<1> QED BY <1>10, <1>11, <1>12 DEF NInv

\* The adapter stores the next frame in a place that is free.
LEMMA StoreInv == NInv /\ DevReceives => NInv'
<1> SUFFICES ASSUME NInv, DevReceives PROVE NInv'
  OBVIOUS
<1> DEFINE r == rxring
           t == rxring'
           h == Len(handed)
           m == arrived - h
           P(k) == RingPos(r.cur, k, NDesc)
<1>1. /\ arrived' = arrived + 1
      /\ UNCHANGED <<nicType, handed, txring, queued, onwire, overrun>>
  BY DEF DevReceives, txvars
<1>2. /\ r.dd \in [0 .. NDesc - 1 -> BOOLEAN] /\ r.buf \in [0 .. NDesc - 1 -> Nat]
      /\ r.cur \in 0 .. NDesc - 1 /\ r.head \in 0 .. NDesc - 1 /\ r.tail \in 0 .. NDesc - 1
      /\ NDesc \in Nat \ {0, 1} /\ h \in Nat /\ arrived \in Nat
  BY SMTT(10), NicConstants DEF NInv, NType, RxType
<1>3. TxInv'
  BY <1>1 DEF NInv, TxInv, TxRing, NSlot
<1>4. CASE nicType # "e1000"
  <2>1. rxring' = rxring
    BY <1>4 DEF DevReceives
  <2>2. NType'
    BY SMTT(10), <1>1, <2>1 DEF NInv, NType
  <2>3. RxInv'
    BY <1>1, <1>4 DEF NInv, RxInv
  <2> QED BY <1>3, <2>2, <2>3 DEF NInv
<1>5. CASE nicType = "e1000"
  <2>1. /\ r.head # r.tail
        /\ t = [r EXCEPT !.dd[r.head] = TRUE, !.buf[r.head] = arrived + 1,
                         !.head = Wrapped(@, NDesc)]
    BY <1>5 DEF DevReceives
  <2>2. RxRing(r, m, h)
    BY <1>5 DEF NInv, RxInv
  <2>3. /\ t.dd = [r.dd EXCEPT ![r.head] = TRUE] /\ t.buf = [r.buf EXCEPT ![r.head] = arrived + 1]
        /\ t.head = Wrapped(r.head, NDesc) /\ t.cur = r.cur /\ t.tail = r.tail
        /\ DOMAIN t = DOMAIN r
    BY <2>1 DEF NInv, NType, RxType
  <2> HIDE DEF t, r, h
  <2>4. /\ P(0) = r.cur /\ P(NDesc) = r.cur /\ Wrapped(r.head, NDesc) \in 0 .. NDesc - 1
        /\ \A k \in 0 .. NDesc - 1 : P(k) \in 0 .. NDesc - 1 /\ Wrapped(P(k), NDesc) = P(k + 1)
        /\ \A j, k \in 0 .. NDesc - 1 : P(j) = P(k) => j = k
    <3>1. NDesc \in Nat \ {0} /\ r.cur \in 0 .. NDesc - 1 /\ r.head \in 0 .. NDesc - 1
      BY <1>2
    <3>2. RingLaws(r.cur, NDesc) /\ RingLaws(r.head, NDesc)
      BY <3>1, RingPlace
    <3> QED BY <3>2 DEF RingLaws
  <2>5. m \in 0 .. NDesc - 1 /\ r.head = P(m)
    <3>1. m \in 0 .. NDesc /\ r.head = P(m)
      BY <2>2 DEF RxRing
    <3>2. m # NDesc
      <4>1. CASE h = 0
        <5>1. m < NDesc
          BY <2>2, <4>1 DEF RxRing
        <5> HIDE DEF m
        <5> QED BY ONLY SMTT(10), <1>2, <3>1, <5>1
      <4>2. CASE h # 0
        BY <2>1, <2>2, <2>4, <3>1, <4>2 DEF RxRing
      <4> QED BY <4>1, <4>2
    <3> HIDE DEF m, P
    <3> QED BY SMTT(10), <1>2, <3>1, <3>2
  <2> HIDE DEF m
  <2>6. RxRing(t, m + 1, h)
    <3>1. m + 1 \in 0 .. NDesc /\ t.head = RingPos(t.cur, m + 1, NDesc)
      <4>1. m + 1 \in 0 .. NDesc
        BY ONLY SMTT(10), <1>2, <2>5
      <4> QED BY <2>3, <2>4, <2>5, <4>1
    <3>2. ASSUME NEW k \in 0 .. NDesc - 1
          PROVE  /\ t.dd[P(k)] <=> k < m + 1
                 /\ k < m + 1 => t.buf[P(k)] = h + 1 + k
      <4>1. CASE k = m
        <5>1. t.dd[P(k)] = TRUE /\ t.buf[P(k)] = arrived + 1
          BY <1>2, <2>3, <2>5, <4>1
        <5>2. k < m + 1 /\ arrived + 1 = h + 1 + k
          BY ONLY SMTT(10), <1>2, <2>5, <4>1, k \in 0 .. NDesc - 1 DEF m
        <5> QED BY <5>1, <5>2
      <4>2. CASE k # m
        <5>1. P(k) # r.head /\ P(k) \in 0 .. NDesc - 1
          BY <2>4, <2>5, <4>2
        <5>2. t.dd[P(k)] = r.dd[P(k)] /\ t.buf[P(k)] = r.buf[P(k)]
          BY <1>2, <2>3, <5>1
        <5>3. k < m + 1 <=> k < m
          BY <1>2, <2>5, <4>2, OneMore
        <5>4. (r.dd[P(k)] <=> k < m) /\ (k < m => r.buf[P(k)] = h + 1 + k)
          BY <2>2 DEF RxRing
        <5> QED BY <5>2, <5>3, <5>4
      <4> QED BY <4>1, <4>2
    <3>3. /\ t.tail = IF h = 0 THEN NDesc - 1 ELSE t.cur
          /\ h = 0 => t.cur = 0 /\ m + 1 < NDesc
      <4>1. CASE h = 0
        <5>1. r.cur = 0 /\ r.tail = NDesc - 1
          BY <2>2, <4>1 DEF RxRing
        <5>2. r.head = m
          BY SMTT(10), <1>2, <2>5, <5>1 DEF RingPos
        <5>3. m + 1 < NDesc
          BY ONLY SMTT(10), <1>2, <2>1, <2>5, <5>1, <5>2
        <5> QED BY <2>3, <4>1, <5>1, <5>3
      <4>2. CASE h # 0
        BY <2>2, <2>3, <4>2 DEF RxRing
      <4> QED BY <4>1, <4>2
    <3> QED BY <2>3, <3>1, <3>2, <3>3 DEF RxRing
  <2>7. arrived' - h = m + 1
    BY ONLY SMTT(10), <1>1, <1>2 DEF m
  <2>8. RxInv'
    BY <1>1, <1>5, <2>6, <2>7 DEF NInv, RxInv, t, h
  <2>9. NType'
    <3>0. arrived + 1 \in Nat
      BY ONLY SMTT(10), <1>2
    <3>1. RxType(t)
      <4>1. t.dd \in [0 .. NDesc - 1 -> BOOLEAN] /\ t.buf \in [0 .. NDesc - 1 -> Nat]
        BY SMTT(10), <1>2, <2>3, <3>0
      <4>2. {"dd", "buf", "cur", "head", "tail"} \subseteq DOMAIN t
        BY <2>3 DEF NInv, NType, RxType, r
      <4>3. /\ t.cur \in 0 .. NDesc - 1 /\ t.head \in 0 .. NDesc - 1 /\ t.tail \in 0 .. NDesc - 1
        BY <1>2, <2>3, <2>4
      <4> QED BY <4>1, <4>2, <4>3 DEF RxType
    <3>2. arrived' \in Nat
      BY ONLY SMTT(10), <1>1, <1>2
    <3> QED BY <1>1, <3>1, <3>2 DEF NInv, NType, t
  <2> QED BY <1>3, <2>8, <2>9 DEF NInv
<1> QED BY <1>4, <1>5

LEMMA SlotCount == NSlot \in Nat \ {0}
BY SMTT(10), NicConstants DEF NSlot

\* A frame goes to the place after the last one that waits, unless none is free.
LEMMA SendInv == NInv /\ NetEthSend => NInv'
<1> SUFFICES ASSUME NInv, NetEthSend PROVE NInv'
  OBVIOUS
<1> DEFINE x == txring
           y == txring'
           n == NSlot
           w == Len(onwire)
           m == Len(queued) - w
           f == Len(queued) + 1
           P(k) == RingPos(x.head, k, n)
<1>1. /\ queued' = Append(queued, f)
      /\ UNCHANGED <<nicType, rxring, arrived, handed, onwire>>
      /\ nicType \in {"e1000", "rtl8139"}
      /\ y.buf = [x.buf EXCEPT ![x.cur] = f] /\ y.cur = Wrapped(x.cur, n) /\ y.head = x.head
      /\ nicType = "e1000" => /\ y.tail = Wrapped(x.cur, n) /\ y.due = x.due
                             /\ overrun' = (overrun \/ Wrapped(x.cur, n) = x.head)
      /\ nicType = "rtl8139" => /\ y.due = x.due \union {x.cur}
                               /\ overrun' = (overrun \/ x.cur \in x.due)
      /\ DOMAIN y = DOMAIN x
  <2>1. /\ queued' = Append(queued, f) /\ (E1000Send(f) \/ Rtl8139Send(f))
        /\ UNCHANGED <<nicType, rxring, arrived, handed, onwire>>
    BY DEF NetEthSend, rxvars
  <2>2. {"buf", "cur", "head", "tail", "due"} \subseteq DOMAIN x
    BY DEF NInv, TxInv, TxType
  <2> HIDE DEF f
  <2>3. CASE E1000Send(f)
    <3>1. /\ nicType = "e1000" /\ nicType # "rtl8139" /\ n = NDesc
          /\ y = [x EXCEPT !.buf[x.cur] = f, !.cur = Wrapped(@, NDesc), !.tail = Wrapped(x.cur, NDesc)]
          /\ overrun' = (overrun \/ Wrapped(x.cur, NDesc) = x.head)
      BY <2>3 DEF E1000Send, NSlot
    <3> QED BY <2>1, <2>2, <3>1
  <2>4. CASE Rtl8139Send(f)
    <3>1. /\ nicType = "rtl8139" /\ nicType # "e1000" /\ n = NTsd
          /\ y = [x EXCEPT !.buf[x.cur] = f, !.cur = Wrapped(@, NTsd), !.due = @ \union {x.cur}]
          /\ overrun' = (overrun \/ x.cur \in x.due)
      BY <2>4 DEF Rtl8139Send, NSlot
    <3> QED BY <2>1, <2>2, <3>1
  <2> QED BY <2>1, <2>3, <2>4
<1>2. /\ x.buf \in [0 .. n - 1 -> Nat] /\ x.cur \in 0 .. n - 1 /\ x.head \in 0 .. n - 1
      /\ x.due \in SUBSET (0 .. n - 1) /\ n \in Nat \ {0}
      /\ {"buf", "cur", "head", "tail", "due"} \subseteq DOMAIN x
  BY SlotCount DEF NInv, TxInv, TxType
<1>3. /\ Len(queued) \in Nat /\ w \in Nat /\ queued \in Seq(Nat)
      /\ \A i \in 1 .. Len(queued) : queued[i] = i
      /\ overrun \in BOOLEAN
  <2>1. queued \in Seq(Nat) /\ onwire \in Seq(Nat) /\ overrun \in BOOLEAN
    BY DEF NInv, NType
  <2>2. \A i \in 1 .. Len(queued) : queued[i] = i
    BY DEF NInv, TxInv
  <2> QED BY SMTT(10), <2>1, <2>2
<1>4. Len(queued') = f /\ queued' \in Seq(Nat) /\ \A i \in 1 .. f : queued'[i] = i
  BY ONLY SMTT(10), <1>1, <1>3
<1>5. n' = n /\ f \in Nat
  BY SMTT(10), <1>1, <1>3 DEF NSlot
<1> HIDE DEF x, y, n, w, f
<1>6. RingLaws(x.head, n) /\ RingLaws(x.cur, n)
  BY <1>2, RingPlace
<1>7. TxType(y, n)
  <2>1. y.buf \in [0 .. n - 1 -> Nat]
    BY SMTT(10), <1>1, <1>2, <1>5
  <2>2. y.due \in SUBSET (0 .. n - 1)
    BY <1>1, <1>2
  <2>3. y.cur \in 0 .. n - 1 /\ y.head \in 0 .. n - 1
    BY SMTT(30), <1>1, <1>2, <1>6 DEF RingLaws
  <2> QED BY <1>1, <1>2, <2>1, <2>2, <2>3 DEF TxType
<1>8. ASSUME ~overrun'
      PROVE  /\ \A i \in 1 .. w : onwire[i] = i
             /\ TxRing(y, f - w, w, n)
  <2>1. ~overrun
    BY <1>1, <1>3, <1>8
  <2>2. TxRing(x, m, w, n) /\ \A i \in 1 .. w : onwire[i] = i
    BY <2>1 DEF NInv, TxInv, x, w, n
  <2>3. m \in 0 .. n /\ x.cur = P(m) /\ m \in Int
    BY SMTT(10), <1>3, <2>2 DEF TxRing
  <2>4. f - w = m + 1 /\ f = w + 1 + m
    BY ONLY SMTT(10), <1>3 DEF f
  <2> HIDE DEF m
  <2>5. /\ P(0) = x.head /\ P(n) = x.head
        /\ \A k \in 0 .. n - 1 : P(k) \in 0 .. n - 1 /\ Wrapped(P(k), n) = P(k + 1)
        /\ \A j, k \in 0 .. n - 1 : P(j) = P(k) => j = k
    BY <1>6 DEF RingLaws
  <2>6. m \in 0 .. n - 1 /\ (nicType = "e1000" => m + 1 < n)
    <3>1. CASE nicType = "e1000"
      <4>1. m < n /\ Wrapped(x.cur, n) # x.head
        BY <1>1, <1>8, <2>2, <3>1 DEF TxRing
      <4>2. m \in 0 .. n - 1
        BY ONLY SMTT(10), <1>2, <2>3, <4>1
      <4>3. m + 1 # n
        BY <2>3, <2>5, <4>1, <4>2
      <4> QED BY ONLY SMTT(10), <1>2, <4>2, <4>3
    <3>2. CASE nicType = "rtl8139"
      <4>1. x.cur \notin x.due
        BY <1>1, <1>8, <3>2
      <4>2. 0 \in 0 .. n - 1 /\ (m = n => 0 < m)
        BY ONLY SMTT(10), <1>2
      <4>3. m = n => P(0) \in x.due
        BY <2>2, <3>2, <4>2 DEF TxRing
      <4>4. m # n
        BY SMTT(30), <2>3, <2>5, <4>1, <4>3
      <4>5. m \in 0 .. n - 1
        BY ONLY SMTT(10), <1>2, <2>3, <4>4
      <4> QED BY <3>2, <4>5
    <3> QED BY <1>1, <3>1, <3>2
  <2>7. m + 1 \in 0 .. n /\ y.cur = RingPos(y.head, m + 1, n)
    <3>1. m + 1 \in 0 .. n
      BY ONLY SMTT(10), <1>2, <2>6
    <3> QED BY <1>1, <2>3, <2>5, <2>6, <3>1
  <2>8. ASSUME NEW k \in 0 .. n - 1, k < m + 1
        PROVE  y.buf[RingPos(y.head, k, n)] = w + 1 + k
    <3>1. CASE k = m
      BY SMTT(30), <1>1, <1>2, <2>3, <2>4, <3>1
    <3>2. CASE k # m
      <4>1. P(k) # x.cur /\ P(k) \in 0 .. n - 1
        BY <2>3, <2>5, <2>6, <3>2
      <4>2. k < m
        BY ONLY SMTT(10), <2>3, <2>8, <3>2, k \in 0 .. n - 1, <1>2
      <4>3. x.buf[P(k)] = w + 1 + k
        BY <2>2, <4>2 DEF TxRing
      <4> QED BY <1>1, <1>2, <4>1, <4>3
    <3> QED BY <3>1, <3>2
  <2>9. ASSUME nicType = "rtl8139", NEW k \in 0 .. n - 1
        PROVE  RingPos(y.head, k, n) \in y.due <=> k < m + 1
    <3>1. y.due = x.due \union {x.cur} /\ y.head = x.head /\ x.cur = P(m)
      BY <1>1, <2>3, <2>9
    <3>2. P(k) \in x.due <=> k < m
      BY <2>2, <2>9 DEF TxRing
    <3>3. P(k) = P(m) <=> k = m
      BY <2>5, <2>6
    <3>4. k < m + 1 <=> (k < m \/ k = m)
      BY ONLY SMTT(10), <2>3, k \in 0 .. n - 1, <1>2
    <3> QED BY <3>1, <3>2, <3>3, <3>4
  <2>10. nicType = "e1000" => y.tail = y.cur /\ m + 1 < n
    BY <1>1, <2>6
  <2>11. TxRing(y, m + 1, w, n)
    BY <2>7, <2>8, <2>9, <2>10 DEF TxRing
  <2> QED BY <2>2, <2>4, <2>11
<1>9. TxInv'
  BY <1>1, <1>4, <1>5, <1>7, <1>8 DEF TxInv, TxRing, y, n, w
<1>10. NType' /\ RxInv'
  BY <1>1, <1>3, <1>4 DEF NInv, NType, RxInv
<1> QED BY <1>9, <1>10 DEF NInv

\* The adapter transmits the frame that has waited longest.
LEMMA TransmitInv == NInv /\ DevTransmits => NInv'
<1> SUFFICES ASSUME NInv, DevTransmits PROVE NInv'
  OBVIOUS
<1> DEFINE x == txring
           y == txring'
           n == NSlot
           w == Len(onwire)
           m == Len(queued) - w
           P(k) == RingPos(x.head, k, n)
<1>0. {"buf", "cur", "head", "tail", "due"} \subseteq DOMAIN x
  BY DEF NInv, TxInv, TxType
<1>1. /\ \/ nicType = "e1000" /\ x.head # x.tail
         \/ nicType = "rtl8139" /\ x.head \in x.due
      /\ onwire' = Append(onwire, x.buf[x.head])
      /\ y.due = x.due \ {x.head} /\ y.head = Wrapped(x.head, n)
      /\ y.buf = x.buf /\ y.cur = x.cur /\ y.tail = x.tail /\ DOMAIN y = DOMAIN x
      /\ UNCHANGED <<nicType, rxring, arrived, handed, queued, overrun>>
  BY <1>0 DEF DevTransmits, rxvars, Wrapped, NSlot
<1>2. /\ x.buf \in [0 .. n - 1 -> Nat] /\ x.cur \in 0 .. n - 1 /\ x.head \in 0 .. n - 1
      /\ x.due \in SUBSET (0 .. n - 1) /\ n \in Nat \ {0}
  BY SlotCount DEF NInv, TxInv, TxType
<1>3. /\ Len(queued) \in Nat /\ w \in Nat /\ onwire \in Seq(Nat)
      /\ \A i \in 1 .. Len(queued) : queued[i] = i
  <2>1. queued \in Seq(Nat) /\ onwire \in Seq(Nat)
    BY DEF NInv, NType
  <2>2. \A i \in 1 .. Len(queued) : queued[i] = i
    BY DEF NInv, TxInv
  <2> QED BY SMTT(10), <2>1, <2>2
<1>4. /\ x.buf[x.head] \in Nat /\ n' = n
      /\ Len(onwire') = w + 1 /\ onwire' \in Seq(Nat) /\ onwire'[w + 1] = x.buf[x.head]
      /\ \A i \in 1 .. w : onwire'[i] = onwire[i]
  <2>1. x.buf[x.head] \in Nat
    BY <1>2
  <2>2. n' = n
    BY <1>1 DEF NSlot
  <2> HIDE DEF x, n
  <2> QED BY SMTT(10), <1>1, <1>3, <2>1, <2>2
<1> HIDE DEF x, y, n, w
<1>5. RingLaws(x.head, n)
  BY <1>2, RingPlace
<1>6. TxType(y, n)
  <2>1. y.due \in SUBSET (0 .. n - 1)
    BY <1>1, <1>2
  <2>2. y.head \in 0 .. n - 1
    BY <1>1, <1>5 DEF RingLaws
  <2> QED BY <1>0, <1>1, <1>2, <2>1, <2>2 DEF TxType
<1>7. ASSUME ~overrun
      PROVE  /\ \A i \in 1 .. w + 1 : onwire'[i] = i
             /\ TxRing(y, Len(queued) - (w + 1), w + 1, n)
  <2>1. TxRing(x, m, w, n) /\ \A i \in 1 .. w : onwire[i] = i
    BY <1>7 DEF NInv, TxInv, x, w, n
  <2>2. m \in 0 .. n /\ x.cur = P(m) /\ m \in Int
    BY SMTT(10), <1>3, <2>1 DEF TxRing
  <2>3. Len(queued) - (w + 1) = m - 1
    BY ONLY SMTT(10), <1>3 DEF m
  <2> HIDE DEF m
  <2>4. /\ P(0) = x.head /\ P(n) = x.head
        /\ \A k \in 0 .. n - 1 : P(k) \in 0 .. n - 1 /\ RingPos(y.head, k, n) = P(k + 1)
        /\ \A j, k \in 0 .. n - 1 : P(j) = P(k) => j = k
    BY <1>1, <1>5 DEF RingLaws
  <2>0. 0 \in 0 .. n - 1
    BY ONLY SMTT(10), <1>2
  <2>5. m \in 1 .. n
    <3>1. m # 0
      <4>1. CASE nicType = "e1000" /\ x.head # x.tail
        BY <2>1, <2>2, <2>4, <4>1 DEF TxRing
      <4>2. CASE nicType = "rtl8139" /\ x.head \in x.due
        <5>1. 0 < m
          BY <2>0, <2>1, <2>4, <4>2 DEF TxRing
        <5> QED BY ONLY SMTT(10), <5>1, <2>2
      <4> QED BY <1>1, <4>1, <4>2
    <3> QED BY ONLY SMTT(10), <1>2, <2>2, <3>1
  <2>6. m - 1 \in 0 .. n - 1 /\ (m - 1) + 1 = m /\ m - 1 \in 0 .. n /\ (m < n => m - 1 < n) /\ 0 < m
    BY ONLY SMTT(10), <1>2, <2>5
  <2>7. x.buf[x.head] = w + 1
    <3>1. x.buf[P(0)] = w + 1 + 0
      BY <2>0, <2>1, <2>6 DEF TxRing
    <3>2. w + 1 + 0 = w + 1
      BY ONLY SMTT(10), <1>3
    <3> QED BY <2>4, <3>1, <3>2
  <2>8. \A i \in 1 .. w + 1 : onwire'[i] = i
    <3>1. onwire \in Seq(Nat) /\ w = Len(onwire) /\ onwire' = Append(onwire, w + 1)
      BY <1>1, <1>3, <2>7 DEF w
    <3> QED BY SMTT(10), <2>1, <3>1, Counted
  <2>9. y.cur = RingPos(y.head, m - 1, n)
    BY <1>1, <2>2, <2>4, <2>6
  <2>10. ASSUME NEW k \in 0 .. n - 1, k < m - 1
         PROVE  y.buf[RingPos(y.head, k, n)] = (w + 1) + 1 + k
    <3>1. k + 1 \in 0 .. n - 1 /\ k + 1 < m /\ (w + 1) + 1 + k = w + 1 + (k + 1)
      BY <1>2, <1>3, <2>5, <2>10, Shifted, ShiftedBy
    <3>2. x.buf[P(k + 1)] = w + 1 + (k + 1)
      BY <2>1, <3>1 DEF TxRing
    <3> QED BY <1>1, <2>4, <3>1, <3>2
  <2>11. ASSUME nicType = "rtl8139", NEW k \in 0 .. n - 1
         PROVE  RingPos(y.head, k, n) \in y.due <=> k < m - 1
    <3>1. y.due = x.due \ {x.head} /\ RingPos(y.head, k, n) = P(k + 1)
      BY <1>1, <2>4
    <3>2. CASE k + 1 \in 0 .. n - 1
      <4>1. P(k + 1) \in x.due <=> k + 1 < m
        BY <2>1, <2>11, <3>2 DEF TxRing
      <4>2. k + 1 # 0 /\ (k + 1 < m <=> k < m - 1)
        BY <1>2, <2>5, Shifted
      <4>3. P(k + 1) # x.head
        BY <2>0, <2>4, <3>2, <4>2
      <4> QED BY <3>1, <4>1, <4>2, <4>3
    <3>3. CASE k + 1 \notin 0 .. n - 1
      <4>1. k + 1 = n /\ ~(k < m - 1)
        BY <1>2, <2>5, <3>3, Shifted
      <4> QED BY <2>4, <3>1, <4>1
    <3> QED BY <3>2, <3>3
  <2>12. nicType = "e1000" => y.tail = y.cur /\ m - 1 < n
    BY <1>1, <2>1, <2>6 DEF TxRing
  <2>13. TxRing(y, m - 1, w + 1, n)
    BY <2>6, <2>9, <2>10, <2>11, <2>12 DEF TxRing
  <2> QED BY <2>3, <2>8, <2>13
<1>8. TxInv'
  BY <1>1, <1>3, <1>4, <1>6, <1>7 DEF TxInv, TxRing, y, n, w
<1>9. NType' /\ RxInv'
  BY <1>1, <1>4 DEF NInv, NType, RxInv
<1> QED BY <1>8, <1>9 DEF NInv

LEMMA NNextInv == NInv /\ [NicNext]_nicvars => NInv'
<1> SUFFICES ASSUME NInv, [NicNext]_nicvars PROVE NInv'
  OBVIOUS
<1>1. CASE Rtl8139HandleIrq \/ UNCHANGED nicvars
  <2>1. UNCHANGED <<nicType, rxring, txring, arrived, handed, queued, onwire, overrun>>
    BY <1>1 DEF Rtl8139HandleIrq, txvars, nicvars
  <2> QED BY <2>1 DEF NInv, NType, RxInv, TxInv, TxRing, NSlot
<1> QED BY <1>1, RecvInv, StoreInv, SendInv, TransmitInv DEF NicNext

\* e1000_recv hands up the stored frames once each and in order, and what
\* e1000_send and rtl8139_send put in the ring leaves in order until a send
\* overtakes the ring, for rings of any size.
THEOREM FramesKeepOrder == NicSpec => []FramesInOrder
<1>1. ASSUME NInv PROVE FramesInOrder
  <2>1. /\ handed \in Seq(Nat) /\ onwire \in Seq(Nat) /\ queued \in Seq(Nat) /\ arrived \in Nat
        /\ \A i \in 1 .. Len(handed) : handed[i] = i
        /\ \A i \in 1 .. Len(queued) : queued[i] = i
    BY <1>1 DEF NInv, NType, RxInv, TxInv
  <2>2. /\ Len(handed) \in Nat /\ Len(onwire) \in Nat /\ Len(queued) \in Nat
        /\ DOMAIN handed = 1 .. Len(handed) /\ DOMAIN onwire = 1 .. Len(onwire)
    BY ONLY SMTT(10), <2>1
  <2>3. Len(handed) <= arrived
    <3>1. CASE nicType = "e1000"
      <4>1. arrived - Len(handed) \in 0 .. NDesc
        BY <1>1, <3>1 DEF NInv, RxInv, RxRing
      <4> QED BY ONLY SMTT(10), <2>1, <2>2, <4>1
    <3>2. CASE nicType # "e1000"
      <4>1. Len(handed) = 0
        BY <1>1, <3>2 DEF NInv, RxInv
      <4> QED BY ONLY SMTT(10), <2>1, <4>1
    <3> QED BY <3>1, <3>2
  <2>4. ASSUME ~overrun
        PROVE  Len(onwire) <= Len(queued) /\ \A i \in 1 .. Len(onwire) : onwire[i] = queued[i]
    <3>1. /\ \A i \in 1 .. Len(onwire) : onwire[i] = i
          /\ Len(queued) - Len(onwire) \in 0 .. NSlot
      BY <1>1, <2>4 DEF NInv, TxInv, TxRing
    <3> QED BY ONLY SMTT(10), <2>1, <2>2, <3>1
  <2> QED BY <2>1, <2>2, <2>3, <2>4 DEF FramesInOrder
<1> QED BY <1>1, NInitInv, NNextInv, PTL DEF NicSpec

=============================================================================
