-------------------------------- MODULE Ahci --------------------------------
(***************************************************************************)
(* The SATA driver of kernel/drivers/storage/ahci.c. Every port uses the   *)
(* one command header and the one command table; a command is written      *)
(* there, started by PxCI and polled for by ahci_send_cmd.                 *)
(*                                                                         *)
(* The controller is external: it fetches a started command in its own     *)
(* time, then moves the data and clears PxCI, or reports an error in PxIS  *)
(* and stops the port. One process at a time is in the driver. A transfer  *)
(* is one sector.                                                          *)
(***************************************************************************)
EXTENDS Integers

CONSTANTS NSata,        \* ports with a disk that shows the ATA signature
          Lbas, Contents,  \* sectors, and what they may hold
          MaxCommands   \* bound: commands given

VARIABLES cmdtable,  \* cmd_list[0] and cmd_table[0]
          sata,      \* the ports: PxCI, PxIS, the command in hand, the disk
          sender,    \* ahci_send_cmd: what it waits for, and its last result
          found,     \* the ports whose disks ahci_register_disk was given
          given,     \* commands so far: names the buffers too
          expected,  \* observer: what each sector may hold
          stray      \* observer: a command timed out that the port may still do

ahcivars == <<cmdtable, sata, sender, found, given, expected, stray>>

SataPorts == 1 .. NSata

NoCommand == [op |-> "none"]

\* ahci_init takes the ports in ascending order, ahci_port_init stops, empties
\* and starts each.
AhciInit ==
    /\ cmdtable = NoCommand
    /\ sata = [p \in SataPorts |->
                 [ci |-> FALSE, err |-> FALSE, halted |-> FALSE, job |-> NoCommand,
                  disk |-> [l \in Lbas |-> CHOOSE b \in Contents : TRUE]]]
    /\ sender = [wait |-> FALSE, ok |-> FALSE, port |-> 0, data |-> "none"]
    /\ found = {} /\ given = 0
    /\ expected = [p \in SataPorts |-> [l \in Lbas |-> {sata[p].disk[l]}]]
    /\ stray = FALSE

-----------------------------------------------------------------------------
(* ahci_send_cmd.                                                          *)

\* Header and table are written over, PxIS is cleared and PxCI set.
SendCmd(p, cmd) ==
    /\ ~sender.wait /\ given < MaxCommands
    /\ given' = given + 1
    /\ cmdtable' = [op |-> cmd.op, lba |-> cmd.lba, block |-> cmd.block, buf |-> given']
    /\ sata' = [sata EXCEPT ![p].err = FALSE, ![p].ci = TRUE]
    /\ sender' = [wait |-> TRUE, ok |-> FALSE, port |-> p, data |-> "none"]

\* ahci_port_identify, during ahci_init: the number of sectors in the answer,
\* and the model's name, go to ahci_register_disk.
Identify(p) ==
    /\ given < NSata /\ p = given + 1
    /\ SendCmd(p, [op |-> "identify", lba |-> 0, block |-> "none"])
    /\ UNCHANGED <<found, expected, stray>>

Started == given >= NSata

AhciRead(p, l) ==
    /\ Started /\ p \in found
    /\ SendCmd(p, [op |-> "read", lba |-> l, block |-> "none"])
    /\ UNCHANGED <<found, expected, stray>>

AhciWrite(p, l, b) ==
    /\ Started /\ p \in found
    /\ SendCmd(p, [op |-> "write", lba |-> l, block |-> b])
    /\ expected' = [expected EXCEPT ![p][l] = @ \union {b}]
    /\ UNCHANGED <<found, stray>>

\* Faulty variant: the error bits are looked at only while PxCI is set.
OutcomeTrustsCi(p) == IF ~sata[p].ci THEN "ok" ELSE IF sata[p].err THEN "fails" ELSE "wait"

\* What one round of the polling loop finds.
Outcome(p) == IF sata[p].err THEN "fails" ELSE IF ~sata[p].ci THEN "ok" ELSE "wait"

\* The loop ends; a command that was done has its effect for good.
Completes ==
    /\ sender.wait /\ Outcome(sender.port) # "wait"
    /\ LET p == sender.port
           ok == Outcome(p) = "ok"
       IN  /\ sender' = [sender EXCEPT !.wait = FALSE, !.ok = ok]
           /\ found' = IF cmdtable.op = "identify" /\ ok THEN found \union {p} ELSE found
           /\ expected' = IF cmdtable.op = "write" /\ ok
                          THEN [expected EXCEPT ![p][cmdtable.lba] = {cmdtable.block}]
                          ELSE expected
    /\ UNCHANGED <<cmdtable, sata, given, stray>>

\* A million rounds: PxCI stays set and nothing is taken back.
GivesUp ==
    /\ sender.wait /\ Outcome(sender.port) = "wait"
    /\ sender' = [sender EXCEPT !.wait = FALSE, !.ok = FALSE]
    /\ stray' = (stray \/ ~sata[sender.port].halted)
    /\ UNCHANGED <<cmdtable, sata, found, given, expected>>

-----------------------------------------------------------------------------
(* The controller (external).                                              *)

Fetches(p) ==
    /\ sata[p].ci /\ ~sata[p].halted /\ sata[p].job = NoCommand
    /\ sata' = [sata EXCEPT ![p].job = cmdtable]
    /\ UNCHANGED <<cmdtable, sender, found, given, expected, stray>>

\* The data goes to, or comes from, the buffer the fetched command names.
Finishes(p) ==
    /\ sata[p].job # NoCommand
    /\ LET job == sata[p].job
           mine == sender.wait /\ job.buf = given
       IN  /\ sata' = [sata EXCEPT ![p].ci = FALSE, ![p].job = NoCommand,
                                   ![p].disk = IF job.op = "write"
                                               THEN [@ EXCEPT ![job.lba] = job.block] ELSE @]
           /\ sender' = IF mine /\ job.op = "read"
                        THEN [sender EXCEPT !.data = sata[p].disk[job.lba]] ELSE sender
    /\ UNCHANGED <<cmdtable, found, given, expected, stray>>

\* An error ends the command, with PxCI cleared or not; the port stops, and the
\* driver never starts it again.
Breaks(p, clears) ==
    /\ sata[p].job # NoCommand
    /\ sata' = [sata EXCEPT ![p].err = TRUE, ![p].halted = TRUE, ![p].job = NoCommand,
                            ![p].ci = ~clears]
    /\ UNCHANGED <<cmdtable, sender, found, given, expected, stray>>

AhciNext ==
    \/ \E p \in SataPorts :
         \/ Identify(p)
         \/ \E l \in Lbas : AhciRead(p, l) \/ \E b \in Contents : AhciWrite(p, l, b)
         \/ Fetches(p) \/ Finishes(p) \/ \E c \in BOOLEAN : Breaks(p, c)
    \/ Completes \/ GivesUp

AhciSpec == AhciInit /\ [][AhciNext]_ahcivars

-----------------------------------------------------------------------------
(* Properties.                                                             *)

\* Although the ports share one command table, a read that ahci_send_cmd reports
\* as done has brought that sector of that disk, and every sector of every disk
\* holds the last block whose write was reported as done, or one whose write
\* was not. It holds until a command has been given up that the port may still
\* carry out: the next one is then taken for it, or written over its table.
DisksAsReported ==
    ~stray =>
        /\ \A p \in SataPorts, l \in Lbas : sata[p].disk[l] \in expected[p][l]
        /\ ~sender.wait /\ sender.ok /\ cmdtable.op = "read" =>
             sender.data = sata[sender.port].disk[cmdtable.lba]
=============================================================================
