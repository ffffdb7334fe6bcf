------------------------------ MODULE Savedata ------------------------------
(***************************************************************************)
(* The savegame of a GBA game: gba/savedata.c, with what memory.c and      *)
(* dma.c ask of it for the game, the end of a frame, a reset, a temporary  *)
(* save (gba/core.c, Qt) and the savedata in savestates                    *)
(* (core/serialize.c, gba/core.c).                                         *)
(*                                                                         *)
(* Everything runs on the CPU thread or under an interrupt of it.  The     *)
(* content of a file is a sequence of cells: one for an SRAM, a 64 KiB     *)
(* bank of flash (of it, the sector at 0) and the first 512 bytes of an    *)
(* EEPROM, a second one for the second bank and for the rest of an 8 KiB   *)
(* EEPROM.                                                                 *)
(***************************************************************************)
EXTENDS Naturals, Sequences, SequencesExt

CONSTANTS
    Values,                 \* what a game writes into a cell
    Erased, Zero, Junk,     \* 0xFF; fresh bytes of a file; uninitialised memory
    Nil,
    Stale,                  \* a pointer into a mapping that is gone
    Threshold,              \* CLEANUP_THRESHOLD
    Sessions                \* games and what their users do, see SavedataAssumption

Types == {"AUTODETECT", "SRAM", "FLASH512", "FLASH1M", "EEPROM"}
FlashTypes == {"FLASH512", "FLASH1M"}
Commands == {"NONE", "ERASE", "ID", "PROGRAM", "SWITCH_BANK"}
Files == {"save", "temp", "state"}      \* realVf's file, a temporary save, a savestate's
Cells == Values \cup {Erased, Zero, Junk}
Contents == {<<>>} \cup {<<a>> : a \in Cells} \cup {<<a, b>> : a, b \in Cells}
Habits == {"load", "restore", "temp", "reset", "early", "hasty", "moves"}

ASSUME SavedataAssumption ==
    /\ Threshold \in Nat
    /\ Nil \notin Files
    /\ Sessions \subseteq
         [type : Types \ {"AUTODETECT"},    \* the chip of the game
          forced : BOOLEAN,                 \* and whether an override names it
          size : 0 .. 2,                    \* cells in the save file at the start
          writes : SUBSET Values,           \* what the game writes into them
          may : SUBSET Habits]

VARIABLES
    savedata,   \* the machine, see Machines
    slot,       \* a savestate, or Nil
    wrote,      \* history: the game has written since its save was last replaced
    playing,    \* whether the game still writes and the user still loads
    session     \* the member of Sessions that is played, never changed
vars == <<savedata, slot, wrote, playing, session>>

\* struct GBASavedata and the files behind it.
Machines ==
  [type : Types, vf : Files \cup {Nil}, realVf : Files \cup {Nil},
   data : {"none", "shared", "private", "failed"},  \* how vf is mapped
   copy : Contents,                                 \* a private mapping
   currentBank : {0, 1, Stale}, mapMode : {"READ", "WRITE"}, maskWriteback : BOOLEAN,
   command : Commands, flashState : {"RAW", "START", "CONTINUE"},
   dirty : SUBSET {"NEW", "SEEN"}, age : 0 .. Threshold + 1,    \* frameCount - dirtAge, or more
   file : [Files -> Contents], offset : [Files -> 0 .. 2],
   disk : Contents]                                 \* what of the save file a power cut leaves

-----------------------------------------------------------------------------
(* Files and mappings.                                                     *)

Lesser(a, b) == IF a < b THEN a ELSE b
Fill(c, n) == [i \in 1 .. n |-> c]
\* b over the first cells of a.
Over(a, b) == [i \in 1 .. Len(a) |-> IF i <= Len(b) THEN b[i] ELSE a[i]]

Mapped(s) == IF s.data = "private" THEN s.copy ELSE s.file[s.vf]
Store(s, i, c) ==
  IF s.data = "private" THEN [s EXCEPT !.copy[i] = c] ELSE [s EXCEPT !.file[s.vf][i] = c]

\* A file made longer, on disk too, where its fresh part holds nothing of the game's.
Extend(s, n, c) ==
  LET more == Fill(c, n - Len(s.file[s.vf]))
  IN  IF n <= Len(s.file[s.vf]) THEN s
      ELSE [s EXCEPT !.file[s.vf] = @ \o more,
                     !.disk = IF s.vf = "save" THEN @ \o Fill(c, n - Len(@)) ELSE @]

\* vf->map: a savestate's is its buffer, a temporary save's is opened O_RDONLY.
Map(s, mode) ==
  CASE s.vf = "state" \/ (s.vf = "save" /\ mode = "WRITE") -> [s EXCEPT !.data = "shared"]
    [] s.vf # "state" /\ mode = "READ" -> [s EXCEPT !.data = "private", !.copy = s.file[s.vf]]
    [] OTHER -> [s EXCEPT !.data = "failed"]

GBASavedataSize(s) ==
  CASE s.type \in {"SRAM", "FLASH512"} -> 1
    [] s.type = "FLASH1M" -> 2
    [] s.type = "EEPROM" -> IF Len(s.file[s.vf]) = 1 THEN 1 ELSE 2
    [] OTHER -> Len(s.file[s.vf])

-----------------------------------------------------------------------------
(* gba/savedata.c, as functions of the machine.                            *)

GBASavedataInit(s, vf) ==
  [s EXCEPT !.type = "AUTODETECT", !.data = "none", !.copy = <<>>, !.command = "NONE",
            !.flashState = "RAW", !.vf = vf, !.realVf = vf, !.mapMode = "WRITE",
            !.maskWriteback = FALSE, !.dirty = {}, !.age = 0]

GBASavedataDeinit(s) ==
  [s EXCEPT !.type = "AUTODETECT", !.data = "none", !.copy = <<>>, !.vf = Nil]

\* vf->close of a file that is not the real one
Close(s, vf) == [s EXCEPT !.file[vf] = <<>>, !.offset[vf] = 0]

GBASavedataInitFlash(s) ==
  LET type == IF s.type = "AUTODETECT" THEN "FLASH512" ELSE s.type
      end == Len(s.file[s.vf])
      long == Extend([s EXCEPT !.type = type], IF type = "FLASH1M" THEN 2 ELSE 1,
                     IF end < 1 THEN Erased ELSE Zero)
  IN  [Map(long, s.mapMode) EXCEPT !.currentBank = 0]

GBASavedataInitEEPROM(s) ==
  Map(Extend([s EXCEPT !.type = "EEPROM"], 1, Erased), s.mapMode)

GBASavedataInitSRAM(s) == Map(Extend([s EXCEPT !.type = "SRAM"], 1, Erased), s.mapMode)

GBASavedataForceType(s, type) ==
  LET fresh == IF s.type = "AUTODETECT" THEN s
               ELSE [GBASavedataInit(GBASavedataDeinit(s), s.vf) EXCEPT
                       !.mapMode = s.mapMode, !.maskWriteback = s.maskWriteback]
  IN  CASE s.type = type -> s
        [] s.type # type /\ type \in FlashTypes -> GBASavedataInitFlash([fresh EXCEPT !.type = type])
        [] s.type # type /\ type = "EEPROM" -> GBASavedataInitEEPROM(fresh)
        [] s.type # type /\ type = "SRAM" -> GBASavedataInitSRAM(fresh)
        [] s.type # type /\ type = "AUTODETECT" -> fresh

\* vf is a file just opened, with this content.
GBASavedataMask(s, vf, content, writeback) ==
  LET closed == IF s.vf # s.realVf THEN Close(s, s.vf) ELSE s
  IN  GBASavedataForceType(
        [GBASavedataDeinit(closed) EXCEPT !.vf = vf, !.file[vf] = content, !.offset[vf] = 0,
                                          !.mapMode = "READ", !.maskWriteback = writeback],
        s.type)

\* Into the mapping, or into the file if there is none yet.
GBASavedataLoad(s, content) ==
  LET fitting == SubSeq(content, 1, Lesser(Len(content), GBASavedataSize(s)))
  IN  CASE s.data = "shared" -> [s EXCEPT !.file[s.vf] = Over(@, fitting)]
        [] s.data = "private" -> [s EXCEPT !.copy = Over(@, fitting)]
        [] OTHER ->
             LET rest == Len(s.file[s.vf]) - Len(content)
                 padded == IF rest > 0 THEN content \o Fill(Erased, rest) ELSE content
             IN  [s EXCEPT !.file[s.vf] = padded, !.offset[s.vf] = Len(padded)]

\* Mutant: what was written into the mask is dropped.
UnmaskDropping(s) ==
  IF s.vf = s.realVf THEN s
  ELSE Close([GBASavedataForceType([GBASavedataDeinit(s) EXCEPT !.vf = s.realVf, !.mapMode = "WRITE"],
                                   s.type) EXCEPT !.maskWriteback = FALSE], s.vf)
GBASavedataUnmask(s) ==
  LET real == GBASavedataForceType(
                [GBASavedataDeinit(s) EXCEPT !.vf = s.realVf, !.mapMode = "WRITE"], s.type)
      written == IF s.maskWriteback
                 THEN [GBASavedataLoad(real, s.file[s.vf]) EXCEPT !.maskWriteback = FALSE]
                 ELSE real
  IN  IF s.vf = s.realVf THEN s ELSE Close(written, s.vf)

\* What the clone holds; without a mapping it is read from the file's offset.
Cloned(s) ==
  CASE s.data \in {"shared", "private"} /\ s.type = "EEPROM" /\ GBASavedataSize(s) = 1 -> <<>>
    [] s.data \in {"shared", "private"} /\ ~(s.type = "EEPROM" /\ GBASavedataSize(s) = 1) ->
         SubSeq(Mapped(s), 1, GBASavedataSize(s))
    [] OTHER ->
         LET file == s.file[s.vf]
         IN  [i \in 1 .. Len(file) |->
                IF i + s.offset[s.vf] <= Len(file) THEN file[i + s.offset[s.vf]] ELSE Junk]
ClonedFrom(s) == IF s.data = "none" THEN [s EXCEPT !.offset[s.vf] = Len(s.file[s.vf])] ELSE s

-----------------------------------------------------------------------------
(* The command machine of a flash chip.  Of a bank only the sector at 0 is  *)
(* represented: what is programmed or erased at HI (0x5555) and LO (0x2AAA) *)
(* makes the save dirty without being seen in it.                           *)

Addresses == {"HI", "LO", "BASE"}
Bytes == (Commands \ {"NONE"}) \cup {"START", "CONTINUE", "ERASE_CHIP", "ERASE_SECTOR", "TERMINATE", "BANK0", "BANK1"}
           \cup session.writes

Dirtied(s) == [s EXCEPT !.dirty = @ \cup {"NEW"}]
Done(s) == [s EXCEPT !.command = "NONE"]

\* Mutant: the bank is taken without mapping it.
FlashSwitchBankUnmapped(s, bank, moves) == [s EXCEPT !.currentBank = bank]
\* A bank beyond the first makes a 512 Kb chip one of 1 Mb; the new mapping may move.
_flashSwitchBank(s, bank, moves) ==
  LET switched == [s EXCEPT !.currentBank = bank]
      grown == Map(Extend([switched EXCEPT !.type = "FLASH1M"], 2, Erased), "WRITE")
  IN  IF bank > 0 /\ s.type = "FLASH512"
      THEN IF moves THEN [grown EXCEPT !.currentBank = Stale] ELSE grown
      ELSE switched

\* Mutant: a chip erase does not make the save dirty.
FlashEraseUnseen(s) ==
  IF s.type = "FLASH1M" THEN Store(Store(s, 1, Erased), 2, Erased) ELSE Store(s, 1, Erased)
_flashErase(s) ==
  LET banks == IF s.type = "FLASH1M" THEN 2 ELSE 1
  IN  IF banks = 2 THEN Store(Store(Dirtied(s), 1, Erased), 2, Erased)
      ELSE Store(Dirtied(s), 1, Erased)

StoreFlash(s, address, c) ==
  IF address = "BASE" THEN Store(Dirtied(s), s.currentBank + 1, c) ELSE Dirtied(s)

\* FLASH_STATE_RAW
FlashRaw(s, address, value, moves) ==
  CASE s.command = "PROGRAM" -> Done(StoreFlash(s, address, value))
    [] s.command = "SWITCH_BANK" ->
         IF address = "BASE" /\ value \in {"BANK0", "BANK1"}
         THEN Done(_flashSwitchBank(s, IF value = "BANK1" THEN 1 ELSE 0, moves)) ELSE Done(s)
    [] OTHER -> IF address = "HI" /\ value = "START" THEN [s EXCEPT !.flashState = "START"] ELSE s

\* FLASH_STATE_CONTINUE at FLASH_BASE_HI
FlashCommand(s, value) ==
  CASE s.command = "NONE" -> IF value \in Commands THEN [s EXCEPT !.command = value] ELSE s
    [] s.command = "ERASE" -> IF value = "ERASE_CHIP" THEN Done(_flashErase(s)) ELSE Done(s)
    [] s.command = "ID" -> IF value = "TERMINATE" THEN Done(s) ELSE s
    [] OTHER -> Done(s)        \* "Flash entered bad state"

GBASavedataWriteFlash(s, address, value, moves) ==
  LET raw == [s EXCEPT !.flashState = "RAW"]
  IN  CASE s.flashState = "RAW" -> FlashRaw(s, address, value, moves)
        [] s.flashState = "START" ->
             IF address = "LO" /\ value = "CONTINUE" THEN [s EXCEPT !.flashState = "CONTINUE"] ELSE raw
        [] s.flashState = "CONTINUE" /\ address = "HI" -> FlashCommand(raw, value)
        [] s.flashState = "CONTINUE" /\ address # "HI" ->
             IF s.command = "ERASE" /\ value = "ERASE_SECTOR"
             THEN Done(StoreFlash(raw, address, Erased))
             ELSE raw

-----------------------------------------------------------------------------
(* EEPROM: block reads and writes, each a whole DMA transfer, after which   *)
(* the command is over.                                                     *)

\* Mutant: an EEPROM grows whenever its end is used.
EnsureEepromAgain(s, block) ==
  IF block = 1 THEN s ELSE Map(Extend(s, Len(s.file[s.vf]) + 1, Erased), s.mapMode)
_ensureEeprom(s, block) ==
  IF block = 1 \/ Len(s.file[s.vf]) > 1 THEN s ELSE Map(Extend(s, 2, Erased), s.mapMode)

GBASavedataWriteEEPROM(s, block, c) == Store(Dirtied(_ensureEeprom(s, block)), block, c)

-----------------------------------------------------------------------------
(* The end of a frame.                                                      *)

\* Mutant: a mask stays where it is.
CleanMasked(s) ==
  CASE "NEW" \in s.dirty -> [s EXCEPT !.age = 0, !.dirty = {"SEEN"}]
    [] s.dirty = {"SEEN"} /\ s.age > Threshold /\ s.mapMode = "WRITE" ->
         [s EXCEPT !.dirty = {}, !.age = 0, !.disk = s.file["save"]]
    [] OTHER -> s
GBASavedataClean(s) ==
  LET real == IF s.maskWriteback THEN GBASavedataUnmask(s) ELSE s
  IN  CASE "NEW" \in s.dirty -> [s EXCEPT !.age = 0, !.dirty = {"SEEN"}]
        [] s.dirty = {"SEEN"} /\ s.age > Threshold ->
             IF real.mapMode = "READ" THEN real
             ELSE [real EXCEPT !.dirty = {}, !.age = 0,
                               !.disk = IF real.data = "shared" /\ real.vf = "save"
                                        THEN real.file["save"] ELSE @]
        [] OTHER -> s

-----------------------------------------------------------------------------
(* Savestates.                                                              *)

GBASavedataSerialize(s) ==
  [type |-> s.type, command |-> s.command, flashState |-> s.flashState,
   flashBank |-> IF s.currentBank = 1 THEN 1 ELSE 0]

\* Mutant: the state machine of the chip goes on where it was.
DeserializeTypeAndBank(s, state) ==
  LET typed == [GBASavedataForceType(s, state.type) EXCEPT !.command = state.command]
  IN  IF typed.type = "FLASH1M" THEN _flashSwitchBank(typed, state.flashBank, FALSE) ELSE typed
GBASavedataDeserialize(s, state) ==
  LET typed == [GBASavedataForceType(s, state.type) EXCEPT
                  !.command = state.command, !.flashState = state.flashState]
  IN  IF typed.type = "FLASH1M" THEN _flashSwitchBank(typed, state.flashBank, FALSE) ELSE typed

-----------------------------------------------------------------------------
(* The game, the user and the frontend.                                     *)

may(habit) == habit \in session.may
\* A game goes on while its save is there: what a lost one does is undefined.
Sound == savedata.vf # Nil /\ savedata.data # "failed" /\ savedata.currentBank # Stale
Keeps == UNCHANGED <<slot, session>>

\* What of the savedata a game can see.
View(s) == IF s.data = "none" THEN s.file[s.vf] ELSE SubSeq(Mapped(s), 1, GBASavedataSize(s))
Visible(s) == [view |-> View(s), bank |-> IF s.type = "FLASH1M" THEN s.currentBank ELSE 0,
               command |-> s.command, flashState |-> s.flashState]

\* memory.c GBAStore8 and dma.c GBADMAService: the first access tells the chip.
Detected(s) ==
  IF s.type # "AUTODETECT" THEN s
  ELSE CASE session.type = "SRAM" -> GBASavedataInitSRAM(s)
         [] session.type = "EEPROM" -> GBASavedataInitEEPROM(s)
         [] OTHER -> GBASavedataInitFlash(s)

Undirtied(s) == [s EXCEPT !.dirty = {}]
Played(s) == savedata' = s /\ UNCHANGED playing /\ Keeps

WriteSRAM ==
  /\ playing /\ Sound /\ session.type = "SRAM"
  /\ \E c \in session.writes : Played(Store(Dirtied(Detected(savedata)), 1, c))
  /\ wrote' = TRUE

WriteFlash ==
  /\ playing /\ Sound /\ session.type \in FlashTypes
  /\ \E address \in Addresses, value \in Bytes, moves \in IF may("moves") THEN BOOLEAN ELSE {FALSE} :
       /\ savedata.type = "AUTODETECT" => address = "HI"
       /\ savedata.flashState = "RAW" /\ savedata.command = "PROGRAM" => value \in session.writes
       /\ session.type = "FLASH512" => value # "BANK1"
       /\ Played(GBASavedataWriteFlash(Detected(savedata), address, value, moves))
       /\ wrote' = (wrote \/ GBASavedataWriteFlash(Undirtied(Detected(savedata)),
                                                 address, value, moves).dirty # {})

WriteEEPROM ==
  /\ playing /\ Sound /\ session.type = "EEPROM"
  /\ \E block \in 1 .. 2, c \in session.writes :
       Played(GBASavedataWriteEEPROM(Detected(savedata), block, c))
  /\ wrote' = TRUE

ReadEEPROM ==
  /\ playing /\ Sound /\ session.type = "EEPROM"
  /\ \E block \in 1 .. 2 : Played(_ensureEeprom(Detected(savedata), block))
  /\ UNCHANGED wrote

\* frameCount goes on, up to a bound behind which it makes no difference; dirtAge is
\* only looked at while the save is dirty.
Aged(s) == IF "SEEN" \in s.dirty THEN [s EXCEPT !.age = Lesser(@ + 1, Threshold + 1)] ELSE s
FrameEnded ==
  /\ Sound
  /\ savedata' = GBASavedataClean(Aged(savedata))
  /\ UNCHANGED <<wrote, playing>> /\ Keeps

\* frameCount is set anew.
AtAnyAge(s) ==
  IF "SEEN" \in s.dirty THEN {[s EXCEPT !.age = a] : a \in 0 .. Threshold + 1} ELSE {s}

Overridden(s) == IF session.forced THEN GBASavedataForceType(s, session.type) ELSE s
\* Mutant: a reset writes the mask back.
ResetWritesBack(s) == GBASavedataUnmask(Overridden(s))
\* _GBACoreReset applies the override of the game's type, then GBAReset unmasks.
ResetSavedata(s) == GBASavedataUnmask([Overridden(s) EXCEPT !.maskWriteback = FALSE])

GBAReset ==
  /\ playing /\ Sound /\ may("reset")
  /\ savedata' \in AtAnyAge(ResetSavedata(savedata))
  /\ wrote' = (wrote /\ savedata.vf = "save")
  /\ UNCHANGED playing /\ Keeps

\* CoreController::loadSave(path, temporary): a reset, then the mask.
loadTemporarySave ==
  /\ playing /\ Sound /\ may("temp")
  /\ \E c \in session.writes :
       savedata' \in AtAnyAge(GBASavedataMask(ResetSavedata(savedata), "temp", <<c, c>>, FALSE))
  /\ wrote' = FALSE
  /\ UNCHANGED playing /\ Keeps

\* "early": before the game's first access has told its chip.
SaveState ==
  /\ playing /\ Sound /\ (may("load") \/ may("restore"))
  /\ savedata.type = session.type \/ may("early")
  /\ slot' = [state |-> GBASavedataSerialize(savedata), seen |-> Visible(savedata),
              sram |-> IF GBASavedataSize(savedata) = 0 THEN <<>> ELSE Cloned(savedata)]
  /\ savedata' = IF GBASavedataSize(savedata) = 0 THEN savedata ELSE ClonedFrom(savedata)
  /\ UNCHANGED <<wrote, playing, session>>

\* core/serialize.c mCoreLoadStateNamed, gba/core.c _GBACoreSavedataRestore.
Restored(s, sram, writeback) ==
  CASE sram = <<>> -> s
    [] sram # <<>> /\ writeback -> GBASavedataLoad(s, sram)
    [] sram # <<>> /\ ~writeback -> GBASavedataMask(s, "state", sram, TRUE)

\* "hasty": while the last writes are not on disk.
LoadState(writeback) ==
  /\ playing /\ Sound /\ slot # Nil
  /\ may(IF writeback THEN "restore" ELSE "load")
  /\ savedata.dirty = {} \/ may("hasty")
  /\ savedata' \in AtAnyAge(Restored(GBASavedataDeserialize(savedata, slot.state), slot.sram, writeback))
  /\ wrote' = FALSE
  /\ UNCHANGED playing /\ Keeps

GameStops ==
  /\ playing /\ playing' = FALSE /\ UNCHANGED <<savedata, wrote>> /\ Keeps

GBAUnloadROM ==
  /\ ~playing /\ Sound
  /\ savedata' = [GBASavedataDeinit(GBASavedataUnmask([savedata EXCEPT !.maskWriteback = FALSE]))
                    EXCEPT !.realVf = Nil]
  /\ wrote' = FALSE /\ UNCHANGED playing /\ Keeps

\* A closed game stays as it is; after undefined behaviour nothing is said.
Finished == ~Sound /\ UNCHANGED vars

\* The save file as it was left, opened and perhaps forced to its type.
Opened(content) ==
  GBASavedataInit(
    [type |-> "AUTODETECT", vf |-> Nil, realVf |-> Nil, data |-> "none", copy |-> <<>>,
     currentBank |-> 0, mapMode |-> "WRITE", maskWriteback |-> FALSE, command |-> "NONE",
     flashState |-> "RAW", dirty |-> {}, age |-> 0,
     file |-> [f \in Files |-> IF f = "save" THEN content ELSE <<>>],
     offset |-> [f \in Files |-> 0], disk |-> content],
    "save")

Init ==
  /\ session \in Sessions
  /\ \E content \in [1 .. session.size -> session.writes \cup {Erased}] :
       savedata = ResetSavedata(Opened(content))
  /\ slot = Nil /\ wrote = FALSE /\ playing = TRUE

Next ==
  \/ WriteSRAM \/ WriteFlash \/ WriteEEPROM \/ ReadEEPROM
  \/ FrameEnded \/ GBAReset \/ loadTemporarySave
  \/ SaveState \/ LoadState(TRUE) \/ LoadState(FALSE)
  \/ GameStops \/ GBAUnloadROM \/ Finished

Spec == Init /\ [][Next]_vars
\* Frames go on ending, at least when the game has stopped; only a dirty save sees it.
FairSpec == Spec /\ WF_vars(~playing /\ savedata.dirty # {} /\ FrameEnded)

-----------------------------------------------------------------------------
(* Properties.                                                              *)

Slots ==
  [state : [type : Types, command : Commands, flashState : {"RAW", "START", "CONTINUE"},
            flashBank : 0 .. 1],
   seen : [view : Contents, bank : 0 .. 1, command : Commands,
           flashState : {"RAW", "START", "CONTINUE"}],
   sram : Contents]

\* Types.
TypeOK ==
    /\ savedata \in Machines /\ slot \in Slots \cup {Nil}
    /\ wrote \in BOOLEAN /\ playing \in BOOLEAN /\ session \in Sessions

\* Neither a game's writes nor a savestate bring the flash chip where WriteFlash
\* reports that it entered a bad state: in the midst of the three writes of a
\* command while a program or a bank switch is pending.
NoBadFlashState ==
    savedata.flashState # "RAW" => savedata.command \in {"NONE", "ERASE", "ID"}

\* The bank a game works in is in the mapping.  A 512 Kb chip that turns out to
\* have 1 Mb is mapped anew after currentBank has been computed: if the mapping
\* moves, this does not hold.
BankIsMapped ==
    \/ savedata.currentBank = Stale
    \/ /\ savedata.data # "failed"
       /\ savedata.data # "none" /\ savedata.type \in FlashTypes
            => savedata.currentBank < GBASavedataSize(savedata)

\* What the game has written is on disk, or known to be dirty, unless a temporary
\* save takes it.
UnsyncedIsDirty ==
    wrote /\ savedata.vf # "temp"
      => savedata.dirty # {} \/ (savedata.vf = "save" /\ savedata.disk = savedata.file["save"])

\* A game does not notice the end of a frame, nor that its save is written back.
FramesUnseen == [][FrameEnded => Visible(savedata') = Visible(savedata)]_vars

\* A loaded state brings back what the game saw of its save when it was made.
\* (A state made before the chip is known holds nothing, or what malloc gave.)
LoadRestores ==
    [][\A writeback \in BOOLEAN :
         LoadState(writeback) /\ ~may("early") => Visible(savedata') = slot.seen]_vars

\* Trying out a savestate or another save does not cost the player the real one: the
\* save file only changes when the game has written since its save was replaced, or
\* when the state is asked to replace it.
SaveKept ==
    [][wrote' \/ LoadState(TRUE) \/ IsPrefix(savedata.file["save"], savedata'.file["save"])]_vars

\* When a game stops writing, what it has written comes to be on disk.
SavesReachDisk ==
    ~playing ~> \/ ~wrote \/ ~Sound \/ savedata.vf = "temp"
                \/ savedata.vf = "save" /\ savedata.disk = savedata.file["save"]
=============================================================================
