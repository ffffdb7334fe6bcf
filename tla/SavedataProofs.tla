--------------------------- MODULE SavedataProofs ---------------------------
(* What is proved about Savedata for every session and every threshold.      *)
(*                                                                           *)
(* First the command machine of a flash chip, with the invariant FlashInv;   *)
(* then, function by function, what gba/savedata.c changes, and with it the  *)
(* types (TypeInv); then, for the sessions in which no chip is given up      *)
(* while a mask is in use (MasksKeepTheirChip), how a save is mapped and     *)
(* used (Known), from which follow where its bank is, that no write is       *)
(* forgotten and that the real save is kept; and, with the length of a big   *)
(* EEPROM's files (Long), what a game sees of its save after the end of a    *)
(* frame and after a state has been loaded.                                  *)
EXTENDS Savedata, TLAPS, SequenceTheorems

\* A value with the fields of struct GBASavedata; most of their types do not matter here.
Fields == {"type", "vf", "realVf", "data", "copy", "currentBank", "mapMode", "maskWriteback",
           "command", "flashState", "dirty", "age", "file", "offset", "disk"}
IsMachine(s) == DOMAIN s = Fields /\ s.type \in Types /\ s.command \in Commands

\* The command machine of t stands where that of s does ...
Same(s, t) == IsMachine(t) /\ t.command = s.command /\ t.flashState = s.flashState
\* ... or is at rest.
Quiet(s, t) ==
    IsMachine(t) /\ \/ t.command = s.command /\ t.flashState = s.flashState
                    \/ t.command = "NONE" /\ t.flashState = "RAW"

\* NoBadFlashState of a chip or of a state.
Good(s) ==
    /\ s.flashState \in {"RAW", "START", "CONTINUE"}
    /\ s.flashState # "RAW" => s.command \in {"NONE", "ERASE", "ID"}

FlashInv ==
    /\ IsMachine(savedata) /\ Good(savedata)
    /\ slot # Nil => Good(slot.state) /\ slot.state.type \in Types /\ slot.state.command \in Commands
    /\ session.type \in Types

-----------------------------------------------------------------------------
(* Functions that leave the command machine alone.                          *)

LEMMA StoreSame == ASSUME NEW s, NEW i, NEW c, IsMachine(s) PROVE Same(s, Store(s, i, c))
  BY DEF Same, IsMachine, Fields, Store

LEMMA ExtendSame == ASSUME NEW s, NEW n, NEW c, IsMachine(s) PROVE Same(s, Extend(s, n, c))
  BY DEF Same, IsMachine, Fields, Extend

LEMMA MapSame == ASSUME NEW s, NEW mode, IsMachine(s) PROVE Same(s, Map(s, mode))
  BY DEF Same, IsMachine, Fields, Map

LEMMA CloseSame == ASSUME NEW s, NEW vf, IsMachine(s) PROVE Same(s, Close(s, vf))
  BY DEF Same, IsMachine, Fields, Close

LEMMA DeinitSame == ASSUME NEW s, IsMachine(s) PROVE Same(s, GBASavedataDeinit(s))
  BY DEF Types, Same, IsMachine, Fields, GBASavedataDeinit

LEMMA MapExtendSame ==
  ASSUME NEW s, NEW n, NEW c, NEW mode, IsMachine(s) PROVE Same(s, Map(Extend(s, n, c), mode))
<1> DEFINE long == Extend(s, n, c)
<1>1. Same(s, long) BY ExtendSame
<1> HIDE DEF long
<1>2. Same(long, Map(long, mode)) BY <1>1, MapSame DEF Same
<1> QED BY <1>1, <1>2 DEF Same, long

LEMMA TypedSame == ASSUME NEW s, NEW type \in Types, IsMachine(s)
                   PROVE  Same(s, [s EXCEPT !.type = type])
  BY DEF Same, IsMachine, Fields

LEMMA InitFlashSame == ASSUME NEW s, IsMachine(s) PROVE Same(s, GBASavedataInitFlash(s))
<1> DEFINE type == IF s.type = "AUTODETECT" THEN "FLASH512" ELSE s.type
           n == IF type = "FLASH1M" THEN 2 ELSE 1
           c == IF Len(s.file[s.vf]) < 1 THEN Erased ELSE Zero
           typed == [s EXCEPT !.type = type]
           mapped == Map(Extend(typed, n, c), s.mapMode)
<1>1. GBASavedataInitFlash(s) = [mapped EXCEPT !.currentBank = 0] BY DEF GBASavedataInitFlash
<1>2. Same(s, typed)
  <2>1. type \in Types BY DEF IsMachine, Types
  <2> QED BY <2>1, TypedSame
<1> HIDE DEF typed, n, c
<1>3. Same(typed, mapped) BY <1>2, MapExtendSame DEF Same
<1> HIDE DEF mapped
<1>4. Same(mapped, [mapped EXCEPT !.currentBank = 0]) BY <1>3 DEF Same, IsMachine, Fields
<1> QED BY <1>1, <1>2, <1>3, <1>4 DEF Same

LEMMA InitEEPROMSame == ASSUME NEW s, IsMachine(s) PROVE Same(s, GBASavedataInitEEPROM(s))
<1> DEFINE typed == [s EXCEPT !.type = "EEPROM"]
<1>1. GBASavedataInitEEPROM(s) = Map(Extend(typed, 1, Erased), s.mapMode) BY DEF GBASavedataInitEEPROM
<1>2. Same(s, typed) BY TypedSame DEF Types
<1> HIDE DEF typed
<1> QED BY <1>1, <1>2, MapExtendSame DEF Same

LEMMA InitSRAMSame == ASSUME NEW s, IsMachine(s) PROVE Same(s, GBASavedataInitSRAM(s))
<1> DEFINE typed == [s EXCEPT !.type = "SRAM"]
<1>1. GBASavedataInitSRAM(s) = Map(Extend(typed, 1, Erased), s.mapMode) BY DEF GBASavedataInitSRAM
<1>2. Same(s, typed) BY TypedSame DEF Types
<1> HIDE DEF typed
<1> QED BY <1>1, <1>2, MapExtendSame DEF Same

LEMMA LoadSame == ASSUME NEW s, NEW content, IsMachine(s) PROVE Same(s, GBASavedataLoad(s, content))
  BY DEF Same, IsMachine, Fields, GBASavedataLoad

LEMMA EnsureSame == ASSUME NEW s, NEW block, IsMachine(s) PROVE Same(s, _ensureEeprom(s, block))
  BY MapExtendSame DEF Same, _ensureEeprom

LEMMA DetectedSame == ASSUME NEW s, IsMachine(s) PROVE Same(s, Detected(s))
<1>1. Same(s, s) BY DEF Same
<1> QED BY <1>1, InitFlashSame, InitEEPROMSame, InitSRAMSame DEF Detected

-----------------------------------------------------------------------------
(* Functions that leave it alone or reset it.                               *)

LEMMA ForceTypeQuiet ==
  ASSUME NEW s, NEW type \in Types, IsMachine(s) PROVE Quiet(s, GBASavedataForceType(s, type))
<1> DEFINE closed == GBASavedataDeinit(s)
           init == GBASavedataInit(closed, s.vf)
           fresh == IF s.type = "AUTODETECT" THEN s
                    ELSE [init EXCEPT !.mapMode = s.mapMode, !.maskWriteback = s.maskWriteback]
           typed == [fresh EXCEPT !.type = type]
<1>1. Quiet(s, fresh)
  <2>1. IsMachine(closed) BY DeinitSame DEF Same
  <2>2. IsMachine(init) /\ init.command = "NONE" /\ init.flashState = "RAW"
    BY <2>1 DEF GBASavedataInit, IsMachine, Fields, Types, Commands
  <2> QED BY <2>2 DEF Quiet, IsMachine, Fields
<1>2. Same(fresh, typed) BY <1>1, TypedSame DEF Quiet
<1>3. Same(typed, GBASavedataInitFlash(typed)) BY <1>2, InitFlashSame DEF Same
<1>4. Same(fresh, GBASavedataInitEEPROM(fresh)) /\ Same(fresh, GBASavedataInitSRAM(fresh))
  BY <1>1, InitEEPROMSame, InitSRAMSame DEF Quiet
<1>5. GBASavedataForceType(s, type) \in
        {s, GBASavedataInitFlash(typed), GBASavedataInitEEPROM(fresh), GBASavedataInitSRAM(fresh), fresh}
  BY DEF GBASavedataForceType, Types, FlashTypes
<1> QED BY <1>1, <1>2, <1>3, <1>4, <1>5 DEF Quiet, Same

LEMMA MaskQuiet ==
  ASSUME NEW s, NEW vf, NEW content, NEW writeback, IsMachine(s)
  PROVE  Quiet(s, GBASavedataMask(s, vf, content, writeback))
<1> DEFINE closed == IF s.vf # s.realVf THEN Close(s, s.vf) ELSE s
           open == [GBASavedataDeinit(closed) EXCEPT
                      !.vf = vf, !.file[vf] = content, !.offset[vf] = 0,
                      !.mapMode = "READ", !.maskWriteback = writeback]
<1>1. Same(s, closed) BY CloseSame DEF Same
<1>2. Same(closed, GBASavedataDeinit(closed)) BY <1>1, DeinitSame DEF Same
<1>3. Same(GBASavedataDeinit(closed), open) BY <1>2 DEF Same, IsMachine, Fields
<1>4. GBASavedataMask(s, vf, content, writeback) = GBASavedataForceType(open, s.type)
  BY DEF GBASavedataMask
<1> HIDE DEF open, closed
<1>5. Quiet(open, GBASavedataForceType(open, s.type))
  BY <1>3, ForceTypeQuiet DEF Same, IsMachine
<1> QED BY <1>1, <1>2, <1>3, <1>4, <1>5 DEF Same, Quiet

LEMMA UnmaskQuiet == ASSUME NEW s, IsMachine(s) PROVE Quiet(s, GBASavedataUnmask(s))
<1> DEFINE open == [GBASavedataDeinit(s) EXCEPT !.vf = s.realVf, !.mapMode = "WRITE"]
           real == GBASavedataForceType(open, s.type)
           loaded == GBASavedataLoad(real, s.file[s.vf])
           written == IF s.maskWriteback THEN [loaded EXCEPT !.maskWriteback = FALSE] ELSE real
<1>1. Same(s, GBASavedataDeinit(s)) BY DeinitSame
<1>2. Same(GBASavedataDeinit(s), open) BY <1>1 DEF Same, IsMachine, Fields
<1>3. GBASavedataUnmask(s) = IF s.vf = s.realVf THEN s ELSE Close(written, s.vf)
  BY DEF GBASavedataUnmask
<1> HIDE DEF open
<1>4. Quiet(open, real) BY <1>2, ForceTypeQuiet DEF Same, IsMachine
<1> HIDE DEF real
<1>5. Same(real, loaded) BY <1>4, LoadSame DEF Quiet
<1> HIDE DEF loaded
<1>6. Same(loaded, [loaded EXCEPT !.maskWriteback = FALSE]) BY <1>5 DEF Same, IsMachine, Fields
<1>7. Same(real, written) BY <1>4, <1>5, <1>6 DEF Same, Quiet
<1> HIDE DEF written
<1>8. Same(written, Close(written, s.vf)) BY <1>7, CloseSame DEF Same
<1> QED BY <1>1, <1>2, <1>3, <1>4, <1>7, <1>8 DEF Same, Quiet

LEMMA ResetQuiet ==
  ASSUME NEW s, IsMachine(s), session.type \in Types PROVE Quiet(s, ResetSavedata(s))
<1> DEFINE typed == Overridden(s)
           ready == [typed EXCEPT !.maskWriteback = FALSE]
<1>1. Quiet(s, typed) BY ForceTypeQuiet DEF Overridden, Quiet
<1> HIDE DEF typed
<1>2. Same(typed, ready) BY <1>1 DEF Quiet, Same, IsMachine, Fields
<1> HIDE DEF ready
<1>3. Quiet(ready, GBASavedataUnmask(ready)) BY <1>2, UnmaskQuiet DEF Same
<1> QED BY <1>1, <1>2, <1>3 DEF ResetSavedata, ready, typed, Quiet, Same

LEMMA CleanQuiet == ASSUME NEW s, IsMachine(s) PROVE Quiet(s, GBASavedataClean(s))
<1> DEFINE real == IF s.maskWriteback THEN GBASavedataUnmask(s) ELSE s
           disk == IF real.data = "shared" /\ real.vf = "save" THEN real.file["save"] ELSE real.disk
           synced == [real EXCEPT !.dirty = {}, !.age = 0, !.disk = disk]
           aged == [s EXCEPT !.age = 0, !.dirty = {"SEEN"}]
<1>1. Quiet(s, real) BY UnmaskQuiet DEF Quiet
<1>2. Same(s, aged) BY DEF Same, IsMachine, Fields
<1>3. GBASavedataClean(s) \in {s, aged, real, synced} BY DEF GBASavedataClean
<1> HIDE DEF real, disk, aged
<1>4. Same(real, synced) BY <1>1 DEF Quiet, Same, IsMachine, Fields
<1> HIDE DEF synced
<1> QED BY <1>1, <1>2, <1>3, <1>4 DEF Quiet, Same

LEMMA QuietIsGood == ASSUME NEW s, NEW t, IsMachine(s), Good(s), Quiet(s, t) PROVE IsMachine(t) /\ Good(t)
  BY DEF Quiet, Good

-----------------------------------------------------------------------------
(* What the game writes, and what a state brings.                            *)

LEMMA SwitchBankSame ==
  ASSUME NEW s, NEW bank, NEW moves, IsMachine(s) PROVE Same(s, _flashSwitchBank(s, bank, moves))
<1> DEFINE switched == [s EXCEPT !.currentBank = bank]
           typed == [switched EXCEPT !.type = "FLASH1M"]
           grown == Map(Extend(typed, 2, Erased), "WRITE")
<1>1. Same(s, switched) BY DEF Same, IsMachine, Fields
<1>2. _flashSwitchBank(s, bank, moves) \in {switched, grown, [grown EXCEPT !.currentBank = Stale]}
  BY DEF _flashSwitchBank
<1> HIDE DEF switched
<1>3. Same(switched, typed) BY <1>1, TypedSame DEF Same, Types
<1> HIDE DEF typed
<1>4. Same(typed, grown) BY <1>3, MapExtendSame DEF Same
<1> HIDE DEF grown
<1>5. Same(grown, [grown EXCEPT !.currentBank = Stale]) BY <1>4 DEF Same, IsMachine, Fields
<1> QED BY <1>1, <1>2, <1>3, <1>4, <1>5 DEF Same

LEMMA DirtiedSame == ASSUME NEW s, IsMachine(s) PROVE Same(s, Dirtied(s))
  BY DEF Same, IsMachine, Fields, Dirtied

LEMMA StoreFlashSame ==
  ASSUME NEW s, NEW address, NEW c, IsMachine(s) PROVE Same(s, StoreFlash(s, address, c))
<1> DEFINE dirtied == Dirtied(s)
<1>1. Same(s, dirtied) BY DirtiedSame
<1>2. StoreFlash(s, address, c) \in {Store(dirtied, s.currentBank + 1, c), dirtied} BY DEF StoreFlash
<1> HIDE DEF dirtied
<1>3. Same(dirtied, Store(dirtied, s.currentBank + 1, c)) BY <1>1, StoreSame DEF Same
<1> QED BY <1>1, <1>2, <1>3 DEF Same

LEMMA EraseSame == ASSUME NEW s, IsMachine(s) PROVE Same(s, _flashErase(s))
<1> DEFINE dirtied == Dirtied(s)
           first == Store(dirtied, 1, Erased)
           both == Store(first, 2, Erased)
<1>1. Same(s, dirtied) BY DirtiedSame
<1>2. _flashErase(s) \in {first, both} BY DEF _flashErase
<1> HIDE DEF dirtied
<1>3. Same(dirtied, first) BY <1>1, StoreSame DEF Same
<1> HIDE DEF first
<1>4. Same(first, both) BY <1>3, StoreSame DEF Same
<1> QED BY <1>1, <1>2, <1>3, <1>4 DEF Same

\* A command that is done leaves the chip at rest if it was reached from RAW.
LEMMA DoneGood ==
  ASSUME NEW s, IsMachine(s), s.flashState = "RAW" PROVE IsMachine(Done(s)) /\ Good(Done(s))
  BY DEF IsMachine, Fields, Commands, Done, Good

LEMMA WriteFlashGood ==
  ASSUME NEW s, NEW address, NEW value, NEW moves, IsMachine(s), Good(s)
  PROVE  LET t == GBASavedataWriteFlash(s, address, value, moves) IN IsMachine(t) /\ Good(t)
<1> DEFINE raw == [s EXCEPT !.flashState = "RAW"]
           OK(t) == IsMachine(t) /\ Good(t)
<1>1. IsMachine(raw) /\ raw.flashState = "RAW" /\ Good(raw) BY DEF IsMachine, Fields, Good
<1>2. ASSUME s.flashState = "RAW" PROVE OK(FlashRaw(s, address, value, moves))
  <2>1. CASE s.command = "PROGRAM"
    <3>1. OK(Done(StoreFlash(s, address, value))) BY <1>2, StoreFlashSame, DoneGood DEF Same
    <3> QED BY <2>1, <3>1 DEF FlashRaw
  <2>2. CASE s.command = "SWITCH_BANK"
    <3> DEFINE bank == IF value = "BANK1" THEN 1 ELSE 0
    <3>1. OK(Done(s)) BY <1>2, DoneGood
    <3>2. OK(Done(_flashSwitchBank(s, bank, moves))) BY <1>2, SwitchBankSame, DoneGood DEF Same
    <3> QED BY <2>2, <3>1, <3>2 DEF FlashRaw
  <2>3. CASE s.command \notin {"PROGRAM", "SWITCH_BANK"}
    <3>1. OK([s EXCEPT !.flashState = "START"]) BY <2>3 DEF IsMachine, Fields, Good, Commands
    <3> QED BY <2>3, <3>1 DEF FlashRaw
  <2> QED BY <2>1, <2>2, <2>3
<1>3. ASSUME s.flashState = "START", s.command \in {"NONE", "ERASE", "ID"}
      PROVE  OK([s EXCEPT !.flashState = "CONTINUE"])
  BY <1>3 DEF IsMachine, Fields, Good
<1>4. ASSUME s.flashState = "CONTINUE" PROVE OK(FlashCommand(raw, value))
  <2>1. OK(Done(raw)) BY <1>1, DoneGood
  <2>2. OK(Done(_flashErase(raw))) BY <1>1, EraseSame, DoneGood DEF Same
  <2>3. ASSUME value \in Commands PROVE OK([raw EXCEPT !.command = value])
    BY <1>1, <2>3 DEF IsMachine, Fields, Good
  <2>4. \/ FlashCommand(raw, value) \in {raw, Done(raw), Done(_flashErase(raw))}
        \/ value \in Commands /\ FlashCommand(raw, value) = [raw EXCEPT !.command = value]
    <3> HIDE DEF raw
    <3> QED BY DEF FlashCommand
  <2> QED BY <1>1, <2>1, <2>2, <2>3, <2>4
<1>5. OK(Done(StoreFlash(raw, address, Erased))) BY <1>1, StoreFlashSame, DoneGood DEF Same
<1>6. CASE s.flashState = "RAW" BY <1>2, <1>6 DEF GBASavedataWriteFlash
<1>7. CASE s.flashState = "START" BY <1>1, <1>3, <1>7 DEF GBASavedataWriteFlash, Good
<1>8. CASE s.flashState = "CONTINUE"
  <2>1. CASE address = "HI"
    <3>1. GBASavedataWriteFlash(s, address, value, moves) = FlashCommand(raw, value)
      BY <1>8, <2>1 DEF GBASavedataWriteFlash
    <3> QED BY <1>4, <1>8, <3>1
  <2>2. CASE address # "HI"
    <3>1. GBASavedataWriteFlash(s, address, value, moves)
            \in {Done(StoreFlash(raw, address, Erased)), raw}
      BY <1>8, <2>2 DEF GBASavedataWriteFlash
    <3> QED BY <1>1, <1>5, <3>1
  <2> QED BY <2>1, <2>2
<1> QED BY <1>6, <1>7, <1>8 DEF Good

LEMMA WriteEEPROMSame ==
  ASSUME NEW s, NEW block, NEW c, IsMachine(s) PROVE Same(s, GBASavedataWriteEEPROM(s, block, c))
<1> DEFINE long == _ensureEeprom(s, block)
           dirtied == Dirtied(long)
<1>1. Same(s, long) BY EnsureSame
<1> HIDE DEF long
<1>2. Same(long, dirtied) BY <1>1, DirtiedSame DEF Same
<1> HIDE DEF dirtied
<1>3. Same(dirtied, Store(dirtied, block, c)) BY <1>2, StoreSame DEF Same
<1> QED BY <1>1, <1>2, <1>3 DEF GBASavedataWriteEEPROM, dirtied, long, Same

LEMMA DeserializeGood ==
  ASSUME NEW s, NEW state, IsMachine(s), Good(state), state.type \in Types, state.command \in Commands
  PROVE  IsMachine(GBASavedataDeserialize(s, state)) /\ Good(GBASavedataDeserialize(s, state))
<1> DEFINE forced == GBASavedataForceType(s, state.type)
           typed == [forced EXCEPT !.command = state.command, !.flashState = state.flashState]
           switched == _flashSwitchBank(typed, state.flashBank, FALSE)
<1>1. IsMachine(forced) BY ForceTypeQuiet DEF Quiet
<1>2. GBASavedataDeserialize(s, state) \in {typed, switched} BY DEF GBASavedataDeserialize
<1> HIDE DEF forced
<1>3. IsMachine(typed) /\ Good(typed) BY <1>1 DEF IsMachine, Fields, Good
<1> HIDE DEF typed
<1>4. Same(typed, switched) BY <1>3, SwitchBankSame
<1> QED BY <1>2, <1>3, <1>4 DEF Same, Good

LEMMA RestoredQuiet ==
  ASSUME NEW s, NEW sram, NEW writeback \in BOOLEAN, IsMachine(s)
  PROVE  Quiet(s, Restored(s, sram, writeback))
<1>1. Quiet(s, s) BY DEF Quiet
<1>2. Quiet(s, GBASavedataLoad(s, sram)) BY LoadSame DEF Same, Quiet
<1>3. Quiet(s, GBASavedataMask(s, "state", sram, TRUE)) BY MaskQuiet
<1>4. Restored(s, sram, writeback) \in
        {s, GBASavedataLoad(s, sram), GBASavedataMask(s, "state", sram, TRUE)} BY DEF Restored
<1> QED BY <1>1, <1>2, <1>3, <1>4

LEMMA AtAnyAgeSame ==
  ASSUME NEW s, NEW t \in AtAnyAge(s), IsMachine(s) PROVE Same(s, t)
<1>1. CASE t = s BY <1>1 DEF Same
<1>2. ASSUME NEW a, t = [s EXCEPT !.age = a] PROVE Same(s, t) BY <1>2 DEF Same, IsMachine, Fields
<1> QED BY <1>1, <1>2 DEF AtAnyAge

LEMMA AgedSame == ASSUME NEW s, IsMachine(s) PROVE Same(s, Aged(s))
  BY DEF Same, IsMachine, Fields, Aged

LEMMA ClonedFromSame == ASSUME NEW s, IsMachine(s) PROVE Same(s, ClonedFrom(s))
  BY DEF Same, IsMachine, Fields, ClonedFrom

LEMMA SameIsGood == ASSUME NEW s, NEW t, IsMachine(s), Good(s), Same(s, t) PROVE IsMachine(t) /\ Good(t)
  BY DEF Same, Good

-----------------------------------------------------------------------------
(* Every step.                                                               *)

\* All but SaveState keep the state, and no step changes the session.
LEMMA GameStep ==
  ASSUME FlashInv, WriteSRAM \/ WriteFlash \/ WriteEEPROM \/ ReadEEPROM PROVE FlashInv'
<1> DEFINE told == Detected(savedata)
<1>1. Same(savedata, told) BY DetectedSame DEF FlashInv
<1>2. IsMachine(told) /\ Good(told) BY <1>1, SameIsGood DEF FlashInv
<1> HIDE DEF told
<1>3. ASSUME NEW s, IsMachine(s), Good(s), Played(s) PROVE FlashInv'
  BY <1>3 DEF FlashInv, Played, Keeps, IsMachine, Good
<1>4. CASE WriteSRAM
  <2>1. PICK c \in session.writes : Played(Store(Dirtied(told), 1, c)) BY <1>4 DEF WriteSRAM, told
  <2>2. Same(told, Dirtied(told)) BY <1>2, DirtiedSame
  <2>3. Same(Dirtied(told), Store(Dirtied(told), 1, c)) BY <2>2, StoreSame DEF Same
  <2>4. Same(told, Store(Dirtied(told), 1, c)) BY <2>2, <2>3 DEF Same
  <2> QED BY <1>2, <1>3, <2>1, <2>4, SameIsGood
<1>5. CASE WriteFlash
  <2>1. PICK address \in Addresses, value \in Bytes, moves \in BOOLEAN :
          Played(GBASavedataWriteFlash(told, address, value, moves))
    BY <1>5 DEF WriteFlash, told
  <2>2. LET t == GBASavedataWriteFlash(told, address, value, moves) IN IsMachine(t) /\ Good(t)
    BY <1>2, WriteFlashGood
  <2> QED BY <1>3, <2>1, <2>2
<1>6. CASE WriteEEPROM
  <2>1. PICK block \in 1 .. 2, c \in session.writes : Played(GBASavedataWriteEEPROM(told, block, c))
    BY <1>6 DEF WriteEEPROM, told
  <2>2. Same(told, GBASavedataWriteEEPROM(told, block, c)) BY <1>2, WriteEEPROMSame
  <2> QED BY <1>2, <1>3, <2>1, <2>2, SameIsGood
<1>7. CASE ReadEEPROM
  <2>1. PICK block \in 1 .. 2 : Played(_ensureEeprom(told, block)) BY <1>7 DEF ReadEEPROM, told
  <2>2. Same(told, _ensureEeprom(told, block)) BY <1>2, EnsureSame
  <2> QED BY <1>2, <1>3, <2>1, <2>2, SameIsGood
<1> QED BY <1>4, <1>5, <1>6, <1>7

\* What an action needs to show that leaves slot and session alone.
LEMMA KeptSlot ==
  ASSUME FlashInv, NEW s, IsMachine(s), Good(s), savedata' = s, Keeps PROVE FlashInv'
  BY DEF FlashInv, Keeps, IsMachine, Good

LEMMA ResetGood ==
  ASSUME FlashInv PROVE IsMachine(ResetSavedata(savedata)) /\ Good(ResetSavedata(savedata))
  BY ResetQuiet, QuietIsGood DEF FlashInv

LEMMA FrameStep == ASSUME FlashInv, FrameEnded PROVE FlashInv'
<1> DEFINE aged == Aged(savedata)
<1>1. IsMachine(aged) /\ Good(aged) BY AgedSame, SameIsGood DEF FlashInv
<1>2. savedata' = GBASavedataClean(aged) /\ Keeps BY DEF FrameEnded
<1> HIDE DEF aged
<1>3. IsMachine(GBASavedataClean(aged)) /\ Good(GBASavedataClean(aged))
  BY <1>1, CleanQuiet, QuietIsGood
<1> QED BY <1>2, <1>3, KeptSlot

LEMMA ResetStep == ASSUME FlashInv, GBAReset \/ loadTemporarySave PROVE FlashInv'
<1> DEFINE reset == ResetSavedata(savedata)
<1>1. IsMachine(reset) /\ Good(reset) BY ResetGood
<1> HIDE DEF reset
<1>2. CASE GBAReset
  <2>1. savedata' \in AtAnyAge(reset) /\ Keeps BY <1>2 DEF GBAReset, reset
  <2>2. IsMachine(savedata') /\ Good(savedata') BY <1>1, <2>1, AtAnyAgeSame, SameIsGood
  <2> QED BY <2>1, <2>2, KeptSlot
<1>3. CASE loadTemporarySave
  <2>1. PICK c \in session.writes :
          savedata' \in AtAnyAge(GBASavedataMask(reset, "temp", <<c, c>>, FALSE))
    BY <1>3 DEF loadTemporarySave, reset
  <2> DEFINE masked == GBASavedataMask(reset, "temp", <<c, c>>, FALSE)
  <2>2. IsMachine(masked) /\ Good(masked) BY <1>1, MaskQuiet, QuietIsGood
  <2> HIDE DEF masked
  <2>3. IsMachine(savedata') /\ Good(savedata') BY <2>1, <2>2, AtAnyAgeSame, SameIsGood DEF masked
  <2>4. Keeps BY <1>3 DEF loadTemporarySave
  <2> QED BY <2>3, <2>4, KeptSlot
<1> QED BY <1>2, <1>3

LEMMA SaveStep == ASSUME FlashInv, SaveState PROVE FlashInv'
<1>1. savedata' \in {savedata, ClonedFrom(savedata)} BY DEF SaveState
<1>2. IsMachine(savedata') /\ Good(savedata') BY <1>1, ClonedFromSame, SameIsGood DEF FlashInv
<1>3. slot'.state = GBASavedataSerialize(savedata) BY DEF SaveState
<1>4. Good(slot'.state) /\ slot'.state.type \in Types /\ slot'.state.command \in Commands
  BY <1>3 DEF GBASavedataSerialize, Good, FlashInv, IsMachine
<1>5. session' = session BY DEF SaveState
<1> QED BY <1>2, <1>4, <1>5 DEF FlashInv, IsMachine, Good

LEMMA LoadStep ==
  ASSUME FlashInv, NEW writeback \in BOOLEAN, LoadState(writeback) PROVE FlashInv'
<1> DEFINE back == GBASavedataDeserialize(savedata, slot.state)
           restored == Restored(back, slot.sram, writeback)
<1>1. slot # Nil /\ savedata' \in AtAnyAge(restored) /\ Keeps BY DEF LoadState
<1>2. IsMachine(back) /\ Good(back) BY <1>1, DeserializeGood DEF FlashInv
<1> HIDE DEF back
<1>3. IsMachine(restored) /\ Good(restored) BY <1>2, RestoredQuiet, QuietIsGood
<1> HIDE DEF restored
<1>4. IsMachine(savedata') /\ Good(savedata') BY <1>1, <1>3, AtAnyAgeSame, SameIsGood
<1> QED BY <1>1, <1>4, KeptSlot

LEMMA EndStep == ASSUME FlashInv, GameStops \/ GBAUnloadROM \/ Finished \/ UNCHANGED vars PROVE FlashInv'
<1>1. CASE GBAUnloadROM
  <2> DEFINE unwritten == [savedata EXCEPT !.maskWriteback = FALSE]
             unmasked == GBASavedataUnmask(unwritten)
             closed == GBASavedataDeinit(unmasked)
  <2>1. IsMachine(unwritten) /\ Good(unwritten) BY DEF FlashInv, IsMachine, Fields, Good
  <2>2. savedata' = [closed EXCEPT !.realVf = Nil] /\ Keeps BY <1>1 DEF GBAUnloadROM
  <2> HIDE DEF unwritten
  <2>3. IsMachine(unmasked) /\ Good(unmasked) BY <2>1, UnmaskQuiet, QuietIsGood
  <2> HIDE DEF unmasked
  <2>4. IsMachine(closed) /\ Good(closed) BY <2>3, DeinitSame, SameIsGood
  <2> HIDE DEF closed
  <2>5. IsMachine(savedata') /\ Good(savedata') BY <2>2, <2>4 DEF IsMachine, Fields, Good
  <2> QED BY <2>2, <2>5, KeptSlot
<1>2. CASE GameStops \/ Finished \/ UNCHANGED vars
  <2>1. savedata' = savedata /\ Keeps BY <1>2 DEF GameStops, Finished, vars, Keeps
  <2> QED BY <2>1, KeptSlot DEF FlashInv
<1> QED BY <1>1, <1>2

LEMMA FlashInit == ASSUME Init PROVE FlashInv
<1>1. session.type \in Types BY SavedataAssumption DEF Init
<1>2. PICK content : savedata = ResetSavedata(Opened(content)) BY DEF Init
<1> DEFINE opened == Opened(content)
<1>3. IsMachine(opened) /\ Good(opened)
  BY DEF Opened, GBASavedataInit, IsMachine, Fields, Types, Commands, Good
<1> HIDE DEF opened
<1>4. IsMachine(ResetSavedata(opened)) /\ Good(ResetSavedata(opened))
  BY <1>1, <1>3, ResetQuiet, QuietIsGood
<1> QED BY <1>1, <1>2, <1>4 DEF FlashInv, Init, opened

\* Whatever a game writes to its flash chip, and whichever savestates, temporary
\* saves, resets and masks come between, the chip's command machine
\* (GBASavedataWriteFlash) does not enter the state it reports as bad.
THEOREM FlashNeverBad == Spec => []NoBadFlashState
<1>1. Init => FlashInv BY FlashInit
<1>2. FlashInv /\ [Next]_vars => FlashInv'
  BY GameStep, FrameStep, ResetStep, SaveStep, LoadStep, EndStep DEF Next
<1>3. FlashInv => NoBadFlashState BY DEF FlashInv, Good, NoBadFlashState
<1> QED BY <1>1, <1>2, <1>3, PTL DEF Spec

-----------------------------------------------------------------------------
(* What a file can hold.                                                     *)

LEMMA ContentIs ==
  ASSUME NEW a \in Contents
  PROVE  a \in Seq(Cells) /\ Len(a) \in 0 .. 2
<1>1. CASE a = <<>>
  BY <1>1
<1>2. ASSUME NEW c \in Cells, a = <<c>> PROVE a \in Seq(Cells) /\ Len(a) \in 0 .. 2
  BY <1>2
<1>3. ASSUME NEW c \in Cells, NEW d \in Cells, a = <<c, d>> PROVE a \in Seq(Cells) /\ Len(a) \in 0 .. 2
  BY <1>3
<1> QED
  BY <1>1, <1>2, <1>3 DEF Contents

LEMMA IsContent ==
  ASSUME NEW a \in Seq(Cells), Len(a) <= 2
  PROVE  a \in Contents
<1> HIDE DEF Cells
<1> DEFINE n == Len(a)
<1>1. n \in Nat /\ n <= 2 /\ a = [i \in 1 .. n |-> a[i]] /\ \A i \in 1 .. n : a[i] \in Cells
  OBVIOUS
<1> HIDE DEF n
<1>2. n = 0 \/ n = 1 \/ n = 2
  BY ONLY <1>1
<1>3. CASE n = 0
  <2>1. a = <<>>
    BY ONLY <1>1, <1>3
  <2> QED BY <2>1 DEF Contents
<1>4. CASE n = 1
  <2>1. a[1] \in Cells
    BY ONLY <1>1, <1>4
  <2>2. a = <<a[1]>>
    BY ONLY <1>1, <1>4
  <2> QED BY <2>1, <2>2 DEF Contents
<1>5. CASE n = 2
  <2>1. a[1] \in Cells /\ a[2] \in Cells
    BY ONLY <1>1, <1>5
  <2>2. a = <<a[1], a[2]>>
    BY ONLY <1>1, <1>5
  <2> QED BY <2>1, <2>2 DEF Contents
<1> QED
  BY <1>2, <1>3, <1>4, <1>5

LEMMA FillIs ==
  ASSUME NEW n \in Int, n <= 2, NEW c \in Cells
  PROVE  /\ Fill(c, n) \in Contents /\ Len(Fill(c, n)) = IF n < 0 THEN 0 ELSE n
<1> DEFINE m == IF n < 0 THEN 0 ELSE n
<1>1. m \in Nat /\ m <= 2 /\ 1 .. n = 1 .. m
  OBVIOUS
<1>2. Fill(c, n) = [i \in 1 .. m |-> c]
  BY <1>1 DEF Fill
<1> HIDE DEF m, Cells
<1>3. Fill(c, n) \in Seq(Cells) /\ Len(Fill(c, n)) = m
  BY <1>1, <1>2
<1> QED
  BY <1>1, <1>3, IsContent DEF m

LEMMA JoinIs ==
  ASSUME NEW a \in Contents, NEW b \in Contents, Len(a) + Len(b) <= 2
  PROVE  /\ a \o b \in Contents /\ Len(a \o b) = Len(a) + Len(b)
         /\ \A i \in 1 .. Len(a) : (a \o b)[i] = a[i]
<1>1. a \in Seq(Cells) /\ b \in Seq(Cells)
  BY ContentIs
<1> HIDE DEF Cells
<1>2. a \o b \in Seq(Cells) /\ Len(a \o b) = Len(a) + Len(b)
  BY <1>1
<1>3. \A i \in 1 .. Len(a) : (a \o b)[i] = a[i]
  BY <1>1
<1>4. a \o b \in Contents
  BY <1>2, IsContent
<1> QED
  BY <1>2, <1>3, <1>4

LEMMA OverIs ==
  ASSUME NEW a \in Contents, NEW b \in Contents
  PROVE  /\ Over(a, b) \in Contents /\ Len(Over(a, b)) = Len(a)
         /\ \A i \in 1 .. Len(a) : Over(a, b)[i] = IF i <= Len(b) THEN b[i] ELSE a[i]
<1>1. a \in Seq(Cells) /\ b \in Seq(Cells) /\ Len(a) \in 0..2 /\ Len(b) \in 0..2
  BY ContentIs
<1> HIDE DEF Cells
<1>2. Over(a, b) \in Seq(Cells) /\ Len(Over(a, b)) = Len(a)
  BY <1>1 DEF Over
<1> QED
  BY <1>1, <1>2, IsContent DEF Over

LEMMA CellsIn ==
  ASSUME NEW a \in Contents
  PROVE  /\ Len(a) \in 0 .. 2 /\ DOMAIN a = 1 .. Len(a) /\ a = [i \in 1 .. Len(a) |-> a[i]]
         /\ \A i \in 1 .. Len(a) : a[i] \in Cells
<1>1. a \in Seq(Cells) /\ Len(a) \in 0..2
  BY ContentIs
<1>2. a \in [1 .. Len(a) -> Cells] /\ DOMAIN a = 1 .. Len(a)
  BY ONLY <1>1, LenProperties
<1> QED
  BY <1>1, <1>2

LEMMA CutIs ==
  ASSUME NEW a \in Contents, NEW n \in 0 .. Len(a)
  PROVE  /\ SubSeq(a, 1, n) \in Contents /\ Len(SubSeq(a, 1, n)) = n
         /\ \A i \in 1 .. n : SubSeq(a, 1, n)[i] = a[i]
<1> DEFINE b == SubSeq(a, 1, n)
<1>1. Len(a) \in 0..2 /\ 1 \in Int /\ n \in 0 .. 2 /\ n \in Int
  BY CellsIn
<1>2. \A i \in 1 .. n : a[i] \in Cells
  BY CellsIn
<1> HIDE DEF Cells
<1>3. /\ b \in Seq(Cells)
      /\ Len(b) = IF 1 <= n THEN n - 1 + 1 ELSE 0
      /\ \A i \in 1 .. n - 1 + 1 : b[i] = a[1 + i - 1]
  BY ONLY <1>1, <1>2, SubSeqProperties
<1> HIDE DEF b
<1>4. Len(b) = n
  BY <1>1, <1>3
<1>5. \A i \in 1 .. n : b[i] = a[i]
  BY <1>1, <1>3
<1>6. b \in Contents
  BY <1>1, <1>3, <1>4, IsContent
<1> QED
  BY <1>4, <1>5, <1>6 DEF b

LEMMA PutIs ==
  ASSUME NEW a \in Contents, NEW i, NEW c \in Cells
  PROVE  [a EXCEPT ![i] = c] \in Contents /\ Len([a EXCEPT ![i] = c]) = Len(a)
<1> DEFINE n == Len(a)
           b == [j \in 1 .. n |-> IF j = i THEN c ELSE a[j]]
<1>0. Len(a) \in 0 .. 2 /\ DOMAIN a = 1 .. Len(a) /\ \A j \in 1 .. Len(a) : a[j] \in Cells
  BY CellsIn, Zenon
<1>1. n \in Nat /\ n <= 2 /\ DOMAIN a = 1 .. n /\ \A j \in 1 .. n : a[j] \in Cells
  BY ONLY <1>0
<1> HIDE DEF Cells, n
<1>2. [a EXCEPT ![i] = c] = b
  BY <1>1
<1>3. b \in Seq(Cells) /\ Len(b) = n
  BY ONLY <1>1, c \in Cells
<1> HIDE DEF b
<1>4. b \in Contents
  BY <1>1, <1>3, IsContent
<1> QED
  BY <1>2, <1>3, <1>4 DEF n

LEMMA SameContent ==
  ASSUME NEW a \in Contents, NEW b \in Contents, Len(a) = Len(b), \A i \in 1 .. Len(a) : a[i] = b[i]
  PROVE  a = b
  BY ContentIs

LEMMA PrefixIs ==
  ASSUME NEW a \in Contents, NEW b \in Contents, Len(a) <= Len(b), \A i \in 1 .. Len(a) : a[i] = b[i]
  PROVE  IsPrefix(a, b)
<1>1. Len(a) \in 0 .. Len(b) /\ Len(a) \in 0 .. Len(a)
  BY ContentIs
<1>2. SubSeq(a, 1, Len(a)) = SubSeq(b, 1, Len(a))
  BY <1>1, CutIs, SameContent
<1> QED
  BY <1>2 DEF IsPrefix

-----------------------------------------------------------------------------
(* Files, mappings and chips: what each function changes.                    *)

\* The cells a chip of this type has at least, and a mapping of it.
Need(type) == IF type = "FLASH1M" THEN 2 ELSE 1

Fits(s) ==
  s.data \in {"shared", "private"} =>
    /\ s.vf \in Files /\ s.type # "AUTODETECT" /\ Len(s.file[s.vf]) >= Need(s.type)
    /\ s.data = "private" => Len(s.copy) = Len(s.file[s.vf])

\* What no mapping changes.
Rest(s, t) ==
  /\ t.vf = s.vf /\ t.realVf = s.realVf /\ t.mapMode = s.mapMode
  /\ t.maskWriteback = s.maskWriteback /\ t.command = s.command /\ t.flashState = s.flashState
  /\ t.age = s.age /\ t.offset = s.offset

Begins(a, b) == Len(a) <= Len(b) /\ \A i \in 1 .. Len(a) : a[i] = b[i]

\* The file in use gets longer, on disk too.
Grown(s, t) ==
  /\ \A f \in Files \ {s.vf} : t.file[f] = s.file[f]
  /\ Begins(s.file[s.vf], t.file[s.vf])
  /\ s.vf # "save" => t.disk = s.disk
  /\ s.disk = s.file["save"] => t.disk = t.file["save"]

LEMMA StoreIs ==
  ASSUME NEW s \in Machines, s.vf \in Files, NEW i, NEW c \in Cells, NEW t, t = Store(s, i, c)
  PROVE  /\ t \in Machines /\ Rest(s, t) /\ t.type = s.type /\ t.data = s.data
         /\ t.currentBank = s.currentBank /\ t.dirty = s.dirty /\ t.disk = s.disk
         /\ Len(t.copy) = Len(s.copy)
         /\ \A f \in Files : Len(t.file[f]) = Len(s.file[f]) /\ (f # s.vf => t.file[f] = s.file[f])
<1> DEFINE a == [s.copy EXCEPT ![i] = c]   b == [s.file[s.vf] EXCEPT ![i] = c]
           file == [s.file EXCEPT ![s.vf] = b]
<1>1. s.copy \in Contents /\ s.file \in [Files -> Contents] /\ s.file[s.vf] \in Contents
  BY DEF Machines
<1>2. a \in Contents /\ Len(a) = Len(s.copy) /\ b \in Contents /\ Len(b) = Len(s.file[s.vf])
  BY <1>1, PutIs
<1>3. t = IF s.data = "private" THEN [s EXCEPT !.copy = a] ELSE [s EXCEPT !.file = file]
  BY DEF Store
<1> HIDE DEF a, b, Contents, Cells
<1>4. file \in [Files -> Contents] /\ \A f \in Files : Len(file[f]) = Len(s.file[f]) /\ (f # s.vf => file[f] = s.file[f])
  BY <1>1, <1>2
<1> HIDE DEF file
<1>5. CASE s.data = "private"
  <2>1. t = [s EXCEPT !.copy = a]
    BY <1>3, <1>5
  <2>2. t \in Machines
    BY <1>2, <2>1 DEF Machines
  <2>3. t.copy = a
    BY <2>1 DEF Machines
  <2>4. Rest(s, t) /\ t.type = s.type /\ t.data = s.data
         /\ t.currentBank = s.currentBank /\ t.dirty = s.dirty /\ t.disk = s.disk /\ t.file = s.file
    BY <2>1 DEF Machines, Rest
  <2> QED
    BY <1>2, <2>2, <2>3, <2>4
<1>6. CASE s.data # "private"
  <2>1. t = [s EXCEPT !.file = file]
    BY <1>3, <1>6
  <2>2. t \in Machines
    BY <1>4, <2>1 DEF Machines
  <2>3. t.file = file
    BY <2>1 DEF Machines
  <2>4. Rest(s, t) /\ t.type = s.type /\ t.data = s.data
         /\ t.currentBank = s.currentBank /\ t.dirty = s.dirty /\ t.disk = s.disk /\ t.copy = s.copy
    BY <2>1 DEF Machines, Rest
  <2> QED
    BY <1>4, <2>2, <2>3, <2>4
<1> QED
  BY <1>5, <1>6

LEMMA FillRest ==
  ASSUME NEW n \in 0 .. 2, NEW m \in 0 .. 2, NEW c \in Cells
  PROVE  /\ Fill(c, n - m) \in Contents /\ Len(Fill(c, n - m)) + m <= 2
         /\ n > m => Len(Fill(c, n - m)) = n - m
<1> DEFINE k == n - m
<1>1. k \in Int /\ k <= 2 /\ k + m = n /\ n <= 2 /\ m \in 0 .. 2 /\ (n > m => k > 0)
  OBVIOUS
<1> HIDE DEF k
<1>2. Fill(c, k) \in Contents /\ Len(Fill(c, k)) = IF k < 0 THEN 0 ELSE k
  BY <1>1, FillIs
<1>3. Len(Fill(c, k)) + m <= 2 /\ (n > m => Len(Fill(c, k)) = k)
  BY <1>1, <1>2
<1> QED
  BY <1>2, <1>3 DEF k

LEMMA ExtendIs ==
  ASSUME NEW s \in Machines, s.vf \in Files, NEW n \in 0 .. 2, NEW c \in Cells, NEW t, t = Extend(s, n, c)
  PROVE  /\ t \in Machines /\ Rest(s, t) /\ t.type = s.type /\ t.data = s.data /\ t.copy = s.copy
         /\ t.currentBank = s.currentBank /\ t.dirty = s.dirty
         /\ Grown(s, t) /\ Len(t.file[s.vf]) >= n
         /\ Len(s.file[s.vf]) >= n => t = s
<1>1. s.file \in [Files -> Contents] /\ s.file[s.vf] \in Contents /\ s.disk \in Contents
  BY DEF Machines
<1>2. Len(s.file[s.vf]) \in 0 .. 2 /\ Len(s.disk) \in 0 .. 2
  BY <1>1, CellsIn
<1>3. CASE n <= Len(s.file[s.vf])
  <2>1. t = s
    BY <1>3 DEF Extend
  <2> QED
    BY <1>2, <1>3, <2>1 DEF Rest, Grown, Begins
<1>4. CASE ~(n <= Len(s.file[s.vf]))
  <2> DEFINE more == Fill(c, n - Len(s.file[s.vf]))   long == s.file[s.vf] \o more
             onDisk == Fill(c, n - Len(s.disk))
             file == [s.file EXCEPT ![s.vf] = long]
             disk == IF s.vf = "save" THEN s.disk \o onDisk ELSE s.disk
  <2>1. more \in Contents /\ Len(more) = n - Len(s.file[s.vf])
    <3> DEFINE m == Len(s.file[s.vf])
    <3>1. m \in 0 .. 2 /\ n > m
      BY <1>2, <1>4
    <3> HIDE DEF m
    <3>2. Fill(c, n - m) \in Contents /\ Len(Fill(c, n - m)) = n - m
      BY <3>1, FillRest
    <3> QED
      BY <3>2 DEF m
  <2>2. onDisk \in Contents /\ Len(onDisk) + Len(s.disk) <= 2
    <3> DEFINE m == Len(s.disk)
    <3>1. m \in 0 .. 2
      BY <1>2
    <3> HIDE DEF m
    <3>2. Fill(c, n - m) \in Contents /\ Len(Fill(c, n - m)) + m <= 2
      BY <3>1, FillRest
    <3> QED
      BY <3>2 DEF m
  <2>3. t = [s EXCEPT !.file = file, !.disk = disk]
    BY <1>4 DEF Extend
  <2>4. s.vf = "save" /\ s.disk = s.file["save"] => disk = long
    OBVIOUS
  <2> HIDE DEF more, onDisk
  <2>5. long \in Contents /\ Len(long) = n /\ Begins(s.file[s.vf], long)
    BY <1>1, <1>2, <1>4, <2>1, JoinIs DEF Begins
  <2>6. disk \in Contents
    BY <1>1, <1>2, <2>2, JoinIs
  <2>7. s.vf # "save" => disk = s.disk
    OBVIOUS
  <2> HIDE DEF long, disk, Contents
  <2>8. file \in [Files -> Contents] /\ file[s.vf] = long /\ \A f \in Files \ {s.vf} : file[f] = s.file[f]
    BY <1>1, <2>5
  <2> HIDE DEF file
  <2>9. t \in Machines
    BY <2>3, <2>6, <2>8 DEF Machines
  <2>10. t.file = file /\ t.disk = disk
    BY <2>3 DEF Machines
  <2>11. Rest(s, t) /\ t.type = s.type /\ t.data = s.data /\ t.copy = s.copy
         /\ t.currentBank = s.currentBank /\ t.dirty = s.dirty
    BY <2>3 DEF Machines, Rest
  <2>12. s.disk = s.file["save"] => t.disk = t.file["save"]
    BY <2>4, <2>7, <2>8, <2>10 DEF Files
  <2> QED
    BY <1>4, <2>5, <2>7, <2>8, <2>9, <2>10, <2>11, <2>12 DEF Grown
<1> QED
  BY <1>3, <1>4

\* How a file is mapped.
MappedAs(vf, mode) ==
  IF vf = "state" \/ (vf = "save" /\ mode = "WRITE") THEN "shared"
  ELSE IF mode = "READ" THEN "private" ELSE "failed"

LEMMA MapIs ==
  ASSUME NEW s \in Machines, s.vf \in Files, NEW mode \in {"READ", "WRITE"}, NEW t, t = Map(s, mode)
  PROVE  /\ t \in Machines /\ Rest(s, t) /\ t.type = s.type /\ t.data = MappedAs(s.vf, mode)
         /\ t.currentBank = s.currentBank /\ t.dirty = s.dirty /\ t.file = s.file /\ t.disk = s.disk
         /\ t.data = "private" => t.copy = t.file[s.vf]
<1>1. s.file[s.vf] \in Contents
  BY DEF Machines
<1> HIDE DEF Contents
<1>2. CASE s.vf = "state" \/ (s.vf = "save" /\ mode = "WRITE")
  <2>1. t = [s EXCEPT !.data = "shared"]
    BY <1>2 DEF Map
  <2> QED
    BY <1>2, <2>1 DEF Machines, Rest, MappedAs
<1>3. CASE ~(s.vf = "state" \/ (s.vf = "save" /\ mode = "WRITE")) /\ mode = "READ"
  <2>1. t = [s EXCEPT !.data = "private", !.copy = s.file[s.vf]]
    BY <1>3 DEF Map
  <2>2. t \in Machines
    BY <1>1, <2>1 DEF Machines
  <2>3. t.data = "private" /\ t.copy = s.file[s.vf]
    BY <2>1 DEF Machines
  <2>4. Rest(s, t) /\ t.type = s.type /\ t.currentBank = s.currentBank /\ t.dirty = s.dirty /\ t.file = s.file /\ t.disk = s.disk
    BY <2>1 DEF Machines, Rest
  <2> QED
    BY <1>3, <2>2, <2>3, <2>4 DEF MappedAs
<1>4. CASE ~(s.vf = "state" \/ (s.vf = "save" /\ mode = "WRITE")) /\ mode # "READ"
  <2>1. t = [s EXCEPT !.data = "failed"]
    BY <1>4 DEF Map
  <2>2. t \in Machines
    BY <2>1 DEF Machines
  <2>3. t.data = "failed"
    BY <2>1 DEF Machines
  <2>4. Rest(s, t) /\ t.type = s.type /\ t.currentBank = s.currentBank /\ t.dirty = s.dirty /\ t.file = s.file /\ t.disk = s.disk
    BY <2>1 DEF Machines, Rest
  <2> QED
    BY <1>4, <2>2, <2>3, <2>4 DEF MappedAs
<1> QED
  BY <1>2, <1>3, <1>4

-----------------------------------------------------------------------------
(* A chip is told: its file gets long enough and is mapped.                  *)

\* t is s with a chip of this type.
Told(s, t, type) ==
  /\ t \in Machines /\ Rest(s, t) /\ t.type = type /\ t.dirty = s.dirty
  /\ Grown(s, t) /\ Len(t.file[s.vf]) >= Need(type)
  /\ Len(s.file[s.vf]) >= Need(type) => t.file = s.file
  /\ t.data = MappedAs(s.vf, s.mapMode) /\ (t.data = "private" => t.copy = t.file[s.vf])
  /\ t.currentBank = IF type \in FlashTypes THEN 0 ELSE s.currentBank

LEMMA TypedIs ==
  ASSUME NEW s \in Machines, NEW type \in Types, NEW t, t = [s EXCEPT !.type = type]
  PROVE  /\ t \in Machines /\ Rest(s, t) /\ t.type = type /\ t.data = s.data /\ t.copy = s.copy
         /\ t.currentBank = s.currentBank /\ t.dirty = s.dirty /\ t.file = s.file /\ t.disk = s.disk
BY DEF Machines, Rest

\* What of the ways to tell a chip is the same.
LEMMA MapExtended ==
  ASSUME NEW s \in Machines, s.vf \in Files, NEW type \in Types, NEW n \in 0 .. 2, n = Need(type),
         NEW c \in Cells, NEW t, t = Map(Extend([s EXCEPT !.type = type], n, c), s.mapMode)
  PROVE  /\ t \in Machines /\ Rest(s, t) /\ t.type = type /\ t.dirty = s.dirty
         /\ Grown(s, t) /\ Len(t.file[s.vf]) >= Need(type)
         /\ Len(s.file[s.vf]) >= Need(type) => t.file = s.file
         /\ t.data = MappedAs(s.vf, s.mapMode) /\ (t.data = "private" => t.copy = t.file[s.vf])
         /\ t.currentBank = s.currentBank
<1> DEFINE typed == [s EXCEPT !.type = type]   long == Extend(typed, n, c)
<1>1. /\ typed \in Machines /\ Rest(s, typed) /\ typed.type = type /\ typed.data = s.data
      /\ typed.currentBank = s.currentBank /\ typed.dirty = s.dirty /\ typed.file = s.file /\ typed.disk = s.disk
  BY TypedIs
<1>2. t = Map(long, s.mapMode)
  OBVIOUS
<1> HIDE DEF typed
<1>3. /\ long \in Machines /\ Rest(typed, long) /\ long.type = type
      /\ long.currentBank = s.currentBank /\ long.dirty = s.dirty
      /\ Grown(typed, long) /\ Len(long.file[typed.vf]) >= n
      /\ Len(typed.file[typed.vf]) >= n => long = typed
  BY <1>1, ExtendIs DEF Rest
<1> HIDE DEF long
<1>4. s.mapMode \in {"READ", "WRITE"} /\ long.vf = s.vf /\ typed.vf = s.vf
  BY <1>1, <1>3 DEF Machines, Rest
<1>5. /\ t \in Machines /\ Rest(long, t) /\ t.type = type /\ t.data = MappedAs(s.vf, s.mapMode)
      /\ t.currentBank = long.currentBank /\ t.dirty = long.dirty /\ t.file = long.file /\ t.disk = long.disk
      /\ t.data = "private" => t.copy = t.file[s.vf]
  BY <1>2, <1>3, <1>4, MapIs
<1>6. Rest(s, t)
  BY <1>1, <1>3, <1>5 DEF Rest
<1>7. Grown(s, t)
  BY <1>1, <1>3, <1>4, <1>5 DEF Grown
<1> QED
  BY <1>1, <1>3, <1>4, <1>5, <1>6, <1>7

LEMMA InitFlashIs ==
  ASSUME NEW s \in Machines, s.vf \in Files, s.type \in FlashTypes \cup {"AUTODETECT"},
         NEW t, t = GBASavedataInitFlash(s)
  PROVE  Told(s, t, IF s.type = "AUTODETECT" THEN "FLASH512" ELSE s.type)
<1> DEFINE type == IF s.type = "AUTODETECT" THEN "FLASH512" ELSE s.type
           n == IF type = "FLASH1M" THEN 2 ELSE 1
           c == IF Len(s.file[s.vf]) < 1 THEN Erased ELSE Zero
           mapped == Map(Extend([s EXCEPT !.type = type], n, c), s.mapMode)
<1>1. type \in FlashTypes /\ type \in Types /\ n \in 0 .. 2 /\ n = Need(type) /\ c \in Cells
  BY DEF FlashTypes, Types, Need, Cells
<1>2. t = [mapped EXCEPT !.currentBank = 0]
  BY DEF GBASavedataInitFlash
<1> HIDE DEF type, n, c
<1>3. /\ mapped \in Machines /\ Rest(s, mapped) /\ mapped.type = type /\ mapped.dirty = s.dirty
      /\ Grown(s, mapped) /\ Len(mapped.file[s.vf]) >= Need(type)
      /\ Len(s.file[s.vf]) >= Need(type) => mapped.file = s.file
      /\ mapped.data = MappedAs(s.vf, s.mapMode) /\ (mapped.data = "private" => mapped.copy = mapped.file[s.vf])
  BY <1>1, MapExtended
<1> HIDE DEF mapped
<1>4. t \in Machines /\ t.currentBank = 0
  BY <1>2, <1>3 DEF Machines
<1>5. /\ t.vf = mapped.vf /\ t.realVf = mapped.realVf /\ t.mapMode = mapped.mapMode
      /\ t.maskWriteback = mapped.maskWriteback /\ t.command = mapped.command
      /\ t.flashState = mapped.flashState /\ t.age = mapped.age /\ t.offset = mapped.offset
      /\ t.type = mapped.type /\ t.dirty = mapped.dirty /\ t.file = mapped.file /\ t.disk = mapped.disk
      /\ t.data = mapped.data /\ t.copy = mapped.copy
  BY <1>2, <1>3 DEF Machines
<1>6. Rest(s, t) /\ Grown(s, t)
  BY <1>3, <1>5 DEF Rest, Grown
<1>7. Told(s, t, type)
  BY <1>1, <1>3, <1>4, <1>5, <1>6 DEF Told
<1> QED
  BY <1>7 DEF type

LEMMA InitOthersAre ==
  ASSUME NEW s \in Machines, s.vf \in Files
  PROVE  /\ Told(s, GBASavedataInitEEPROM(s), "EEPROM")
         /\ Told(s, GBASavedataInitSRAM(s), "SRAM")
<1>1. Erased \in Cells /\ 1 \in 0 .. 2
  BY DEF Cells
<1>2. ASSUME NEW type \in {"EEPROM", "SRAM"}, NEW t,
             t = Map(Extend([s EXCEPT !.type = type], 1, Erased), s.mapMode)
      PROVE  Told(s, t, type)
  <2>1. type \in Types /\ 1 = Need(type) /\ type \notin FlashTypes
    BY <1>2 DEF Types, Need, FlashTypes
  <2>2. /\ t \in Machines /\ Rest(s, t) /\ t.type = type /\ t.dirty = s.dirty
        /\ Grown(s, t) /\ Len(t.file[s.vf]) >= Need(type)
        /\ Len(s.file[s.vf]) >= Need(type) => t.file = s.file
        /\ t.data = MappedAs(s.vf, s.mapMode) /\ (t.data = "private" => t.copy = t.file[s.vf])
        /\ t.currentBank = s.currentBank
    BY <1>1, <1>2, <2>1, MapExtended
  <2> QED
    BY <2>1, <2>2 DEF Told
<1> QED
  BY <1>2 DEF GBASavedataInitEEPROM, GBASavedataInitSRAM

LEMMA DeinitIs ==
  ASSUME NEW s \in Machines, NEW t, t = GBASavedataDeinit(s)
  PROVE  /\ t \in Machines /\ t.type = "AUTODETECT" /\ t.data = "none" /\ t.vf = Nil
         /\ t.realVf = s.realVf /\ t.mapMode = s.mapMode /\ t.maskWriteback = s.maskWriteback
         /\ t.command = s.command /\ t.flashState = s.flashState /\ t.age = s.age /\ t.offset = s.offset
         /\ t.currentBank = s.currentBank /\ t.dirty = s.dirty /\ t.file = s.file /\ t.disk = s.disk
<1>1. t = [s EXCEPT !.type = "AUTODETECT", !.data = "none", !.copy = <<>>, !.vf = Nil]
  BY DEF GBASavedataDeinit
<1> DEFINE empty == <<>>   auto == "AUTODETECT"
<1>2. empty \in Contents /\ auto \in Types /\ t = [s EXCEPT !.type = auto, !.data = "none", !.copy = empty, !.vf = Nil]
  BY <1>1 DEF Contents, Types
<1> HIDE DEF Contents, Types, empty, auto
<1>3. t \in Machines
  BY <1>2 DEF Machines
<1>4. /\ t.type = "AUTODETECT" /\ t.data = "none" /\ t.vf = Nil
      /\ t.realVf = s.realVf /\ t.mapMode = s.mapMode /\ t.maskWriteback = s.maskWriteback
      /\ t.command = s.command /\ t.flashState = s.flashState /\ t.age = s.age /\ t.offset = s.offset
      /\ t.currentBank = s.currentBank /\ t.dirty = s.dirty /\ t.file = s.file /\ t.disk = s.disk
  BY <1>1 DEF Machines
<1> QED
  BY <1>3, <1>4

\* A machine whose chip has been given up.
Blank(s, t) ==
  /\ t \in Machines /\ t.type = "AUTODETECT" /\ t.data = "none" /\ t.vf = s.vf /\ t.realVf = s.vf
  /\ t.mapMode = s.mapMode /\ (t.maskWriteback <=> s.maskWriteback) /\ t.dirty = {}
  /\ t.file = s.file /\ t.disk = s.disk

LEMMA InitIs ==
  ASSUME NEW s \in Machines, NEW vf \in Files \cup {Nil}, NEW t, t = GBASavedataInit(s, vf)
  PROVE  /\ t \in Machines /\ t.type = "AUTODETECT" /\ t.data = "none" /\ t.vf = vf /\ t.realVf = vf
         /\ t.mapMode = "WRITE" /\ ~t.maskWriteback /\ t.command = "NONE" /\ t.flashState = "RAW"
         /\ t.dirty = {} /\ t.file = s.file /\ t.disk = s.disk /\ t.offset = s.offset
         /\ t.currentBank = s.currentBank
<1>1. <<>> \in Contents /\ 0 \in 0 .. Threshold + 1 /\ {} \in SUBSET {"NEW", "SEEN"} /\ FALSE \in BOOLEAN
      /\ "AUTODETECT" \in Types /\ "NONE" \in Commands
  BY SavedataAssumption DEF Contents, Types, Commands
<1> HIDE DEF Contents, Types, Commands
<1> DEFINE none == {}   off == FALSE   now == 0   empty == <<>>
<1>2. t = [s EXCEPT !.type = "AUTODETECT", !.data = "none", !.copy = empty, !.command = "NONE",
            !.flashState = "RAW", !.vf = vf, !.realVf = vf, !.mapMode = "WRITE",
            !.maskWriteback = off, !.dirty = none, !.age = now]
  BY DEF GBASavedataInit
<1>3. empty \in Contents /\ now \in 0 .. Threshold + 1 /\ none \in SUBSET {"NEW", "SEEN"} /\ off \in BOOLEAN
  BY <1>1
<1> HIDE DEF none, off, now, empty
<1> DEFINE u == [s EXCEPT !.type = "AUTODETECT", !.data = "none", !.copy = empty, !.command = "NONE",
                    !.flashState = "RAW"]
<1>6. u \in Machines
  BY <1>1, <1>3 DEF Machines
<1> DEFINE v == [u EXCEPT !.vf = vf, !.realVf = vf, !.mapMode = "WRITE"]
<1>7. t = [v EXCEPT !.maskWriteback = off, !.dirty = none, !.age = now]
  BY <1>2
<1> HIDE DEF u
<1>8. v \in Machines
  BY <1>6 DEF Machines
<1> HIDE DEF v
<1>4. t \in Machines
  BY <1>3, <1>7, <1>8 DEF Machines
<1>5. /\ t.type = "AUTODETECT" /\ t.data = "none" /\ t.vf = vf /\ t.realVf = vf
      /\ t.mapMode = "WRITE" /\ t.maskWriteback = off /\ t.command = "NONE" /\ t.flashState = "RAW"
      /\ t.dirty = none /\ t.file = s.file /\ t.disk = s.disk /\ t.offset = s.offset
      /\ t.currentBank = s.currentBank
  BY <1>2 DEF Machines
<1> QED
  BY <1>4, <1>5 DEF none, off

\* GBASavedataForceType leaves a chip alone, tells one to a machine without, or gives
\* one up before.
LEMMA ForceTypeIs ==
  ASSUME NEW s \in Machines, s.vf \in Files, NEW type \in Types, NEW t, t = GBASavedataForceType(s, type)
  PROVE  /\ s.type = type => t = s
         /\ s.type = "AUTODETECT" /\ type # "AUTODETECT" => Told(s, t, type)
         /\ s.type # type /\ s.type # "AUTODETECT" =>
              \E u : Blank(s, u) /\ ((t = u /\ type = "AUTODETECT") \/ (Told(u, t, type) /\ type # "AUTODETECT"))
<1> DEFINE init == GBASavedataInit(GBASavedataDeinit(s), s.vf)
           again == [init EXCEPT !.mapMode = s.mapMode, !.maskWriteback = s.maskWriteback]
           fresh == IF s.type = "AUTODETECT" THEN s ELSE again
           chip == [fresh EXCEPT !.type = type]
<1>1. Blank(s, again) /\ again.currentBank = s.currentBank
  <2> DEFINE closed == GBASavedataDeinit(s)
  <2>1. closed \in Machines /\ closed.file = s.file
        /\ closed.disk = s.disk /\ closed.currentBank = s.currentBank
    BY DeinitIs
  <2>5. init = GBASavedataInit(closed, s.vf)
    OBVIOUS
  <2> HIDE DEF closed, init
  <2>4. s.vf \in Files \cup {Nil}
    BY DEF Machines
  <2>2. init \in Machines /\ init.type = "AUTODETECT" /\ init.data = "none" /\ init.vf = s.vf /\ init.realVf = s.vf
        /\ init.file = s.file /\ init.disk = s.disk /\ init.currentBank = s.currentBank /\ init.dirty = {}
    <3>1. /\ init \in Machines /\ init.type = "AUTODETECT" /\ init.data = "none" /\ init.vf = s.vf
          /\ init.realVf = s.vf /\ init.file = closed.file /\ init.disk = closed.disk
          /\ init.currentBank = closed.currentBank /\ init.dirty = {}
      BY ONLY <2>1, <2>4, <2>5, InitIs
    <3> QED
      BY <2>1, <3>1
  <2>3. s.mapMode \in {"READ", "WRITE"} /\ s.maskWriteback \in BOOLEAN
    BY DEF Machines
  <2>6. again.dirty = {} /\ again.maskWriteback = s.maskWriteback
    BY <2>2 DEF Machines, again
  <2>7. /\ again \in Machines /\ again.type = "AUTODETECT" /\ again.data = "none" /\ again.vf = s.vf
        /\ again.realVf = s.vf /\ again.mapMode = s.mapMode /\ again.file = s.file /\ again.disk = s.disk
        /\ again.currentBank = s.currentBank
    BY <2>2, <2>3 DEF Machines, again
  <2> QED
    BY <2>6, <2>7 DEF Blank
<1>2. fresh \in Machines /\ fresh.type = "AUTODETECT" /\ fresh.vf = s.vf
  BY <1>1 DEF Blank
<1>3. s.type = "AUTODETECT" => fresh = s
  OBVIOUS
<1>4. s.type # "AUTODETECT" => fresh = again
  OBVIOUS
<1>5. GBASavedataForceType(s, type) =
        CASE s.type = type -> s
          [] s.type # type /\ type \in FlashTypes -> GBASavedataInitFlash(chip)
          [] s.type # type /\ type = "EEPROM" -> GBASavedataInitEEPROM(fresh)
          [] s.type # type /\ type = "SRAM" -> GBASavedataInitSRAM(fresh)
          [] s.type # type /\ type = "AUTODETECT" -> fresh
  BY DEF GBASavedataForceType
<1> HIDE DEF fresh, again
<1>6. ASSUME type \in FlashTypes PROVE Told(fresh, GBASavedataInitFlash(chip), type)
  <2>1. /\ chip \in Machines /\ Rest(fresh, chip) /\ chip.type = type /\ chip.data = fresh.data
        /\ chip.currentBank = fresh.currentBank /\ chip.dirty = fresh.dirty /\ chip.file = fresh.file /\ chip.disk = fresh.disk
    BY <1>2, TypedIs
  <2> HIDE DEF chip
  <2>2. chip.vf \in Files /\ chip.type \in FlashTypes \cup {"AUTODETECT"} /\ type # "AUTODETECT"
    BY <1>2, <1>6, <2>1 DEF Rest, FlashTypes
  <2>3. Told(chip, GBASavedataInitFlash(chip), type)
    BY <2>1, <2>2, InitFlashIs
  <2> QED
    BY <1>6, <2>1, <2>3 DEF Told, Rest, Grown
<1>7. s.type # type => (t = fresh /\ type = "AUTODETECT") \/ (Told(fresh, t, type) /\ type # "AUTODETECT")
  BY <1>2, <1>5, <1>6, InitOthersAre DEF Types, FlashTypes
<1>8. s.type = type => t = s
  BY <1>5
<1> QED
  BY <1>1, <1>3, <1>4, <1>7, <1>8

-----------------------------------------------------------------------------
(* The functions of gba/savedata.c leave a mapping that fits.                *)

\* The content of a file may be any; its mapping fits.
Ready(s) == s \in Machines /\ s.vf \in Files /\ s.realVf \in Files /\ Fits(s)

LEMMA ToldFits ==
  ASSUME NEW s, NEW t, NEW type \in Types, type # "AUTODETECT", s.vf \in Files, s.realVf \in Files, Told(s, t, type)
  PROVE  Ready(t) /\ t.vf = s.vf /\ t.realVf = s.realVf
BY DEF Told, Rest, Ready, Fits

LEMMA ForceTypeFits ==
  ASSUME NEW s, Ready(s), NEW type \in Types, NEW t, t = GBASavedataForceType(s, type)
  PROVE  Ready(t) /\ t.vf = s.vf
<1>1. s \in Machines /\ s.vf \in Files /\ s.realVf \in Files
  BY DEF Ready
<1>2. CASE s.type = type
  BY <1>1, <1>2, ForceTypeIs
<1>3. CASE s.type # type /\ s.type = "AUTODETECT"
  <2>1. Told(s, t, type)
    BY <1>1, <1>3, ForceTypeIs
  <2> QED
    BY <1>1, <1>3, <2>1, ToldFits
<1>4. CASE s.type # type /\ s.type # "AUTODETECT"
  <2>1. PICK u : Blank(s, u) /\ (t = u \/ (Told(u, t, type) /\ type # "AUTODETECT"))
    BY <1>1, <1>4, ForceTypeIs
  <2>2. u \in Machines /\ u.vf = s.vf /\ u.vf \in Files /\ u.realVf \in Files /\ u.data = "none" /\ u.type = "AUTODETECT"
    BY <1>1, <2>1 DEF Blank
  <2>3. CASE t = u
    BY <2>2, <2>3 DEF Ready, Fits
  <2>4. CASE Told(u, t, type) /\ type # "AUTODETECT"
    BY <2>2, <2>4, ToldFits
  <2> QED
    BY <2>1, <2>3, <2>4
<1> QED
  BY <1>2, <1>3, <1>4

LEMMA CloseIs ==
  ASSUME NEW s \in Machines, NEW vf \in Files, NEW t, t = Close(s, vf)
  PROVE  /\ t \in Machines /\ t.type = s.type /\ t.data = s.data /\ t.copy = s.copy
         /\ t.vf = s.vf /\ t.realVf = s.realVf /\ t.mapMode = s.mapMode
         /\ t.maskWriteback = s.maskWriteback /\ t.command = s.command /\ t.flashState = s.flashState
         /\ t.age = s.age /\ t.currentBank = s.currentBank /\ t.dirty = s.dirty /\ t.disk = s.disk
         /\ \A f \in Files : f # vf => t.file[f] = s.file[f]
<1> DEFINE none == <<>>   zero == 0   files == [s.file EXCEPT ![vf] = none]   offsets == [s.offset EXCEPT ![vf] = zero]
<1>1. s.file \in [Files -> Contents] /\ s.offset \in [Files -> 0 .. 2] /\ none \in Contents /\ zero \in 0 .. 2
  BY DEF Machines, Contents
<1>2. t = [s EXCEPT !.file = files, !.offset = offsets]
  BY DEF Close
<1> HIDE DEF Contents, none, zero
<1>3. files \in [Files -> Contents] /\ offsets \in [Files -> 0 .. 2] /\ \A f \in Files : f # vf => files[f] = s.file[f]
  BY <1>1
<1> HIDE DEF files, offsets
<1>4. t \in Machines /\ t.file = files
  BY <1>2, <1>3 DEF Machines
<1>5. /\ t.type = s.type /\ t.data = s.data /\ t.copy = s.copy
      /\ t.vf = s.vf /\ t.realVf = s.realVf /\ t.mapMode = s.mapMode
      /\ t.maskWriteback = s.maskWriteback /\ t.command = s.command /\ t.flashState = s.flashState
      /\ t.age = s.age /\ t.currentBank = s.currentBank /\ t.dirty = s.dirty /\ t.disk = s.disk
  BY <1>2 DEF Machines
<1> QED
  BY <1>3, <1>4, <1>5

\* The machine GBASavedataMask hands to GBASavedataForceType.
LEMMA MaskIs ==
  ASSUME NEW s \in Machines, s.vf \in Files, s.realVf \in Files, NEW vf \in {"temp", "state"},
         NEW content \in Contents, NEW writeback \in BOOLEAN,
         NEW t, t = GBASavedataMask(s, vf, content, writeback)
  PROVE  \E u \in Machines :
           /\ t = GBASavedataForceType(u, s.type)
           /\ u.type = "AUTODETECT" /\ u.data = "none" /\ u.vf = vf /\ u.realVf = s.realVf
           /\ u.mapMode = "READ" /\ (u.maskWriteback <=> writeback)
           /\ u.command = s.command /\ u.flashState = s.flashState /\ u.age = s.age
           /\ u.currentBank = s.currentBank /\ u.dirty = s.dirty /\ u.disk = s.disk
           /\ u.file[vf] = content
           /\ \A f \in Files : f # vf /\ ~(f = s.vf /\ s.vf # s.realVf) => u.file[f] = s.file[f]
<1> DEFINE closed == IF s.vf # s.realVf THEN Close(s, s.vf) ELSE s
           file == [closed.file EXCEPT ![vf] = content]
           offset == [closed.offset EXCEPT ![vf] = 0]
           gone == GBASavedataDeinit(closed)
           u == [gone EXCEPT !.vf = vf, !.file = file, !.offset = offset,
                             !.mapMode = "READ", !.maskWriteback = writeback]
<1>1. /\ closed \in Machines
      /\ closed.vf = s.vf /\ closed.realVf = s.realVf /\ closed.command = s.command
      /\ closed.flashState = s.flashState /\ closed.age = s.age
      /\ closed.currentBank = s.currentBank /\ closed.dirty = s.dirty /\ closed.disk = s.disk
      /\ \A f \in Files : ~(f = s.vf /\ s.vf # s.realVf) => closed.file[f] = s.file[f]
  <2>1. CASE s.vf = s.realVf
    BY <2>1
  <2>2. CASE s.vf # s.realVf
    <3>1. closed = Close(s, s.vf)
      BY <2>2
    <3> HIDE DEF closed
    <3> QED
      BY <2>2, <3>1, CloseIs
  <2> QED
    BY <2>1, <2>2
<1> HIDE DEF closed
<1>2. /\ gone \in Machines /\ gone.type = "AUTODETECT" /\ gone.data = "none"
      /\ gone.realVf = s.realVf /\ gone.command = s.command
      /\ gone.flashState = s.flashState /\ gone.age = s.age /\ gone.offset = closed.offset
      /\ gone.currentBank = s.currentBank /\ gone.dirty = s.dirty /\ gone.disk = s.disk
      /\ gone.file = closed.file
  BY <1>1, DeinitIs
<1>3. vf \in Files /\ closed.file \in [Files -> Contents] /\ closed.offset \in [Files -> 0 .. 2] /\ 0 \in 0 .. 2
  BY <1>1 DEF Machines, Files
<1>4. t = GBASavedataForceType(u, s.type)
  BY <1>2 DEF GBASavedataMask, closed
<1> HIDE DEF gone
<1>5. /\ file \in [Files -> Contents] /\ offset \in [Files -> 0 .. 2] /\ file[vf] = content
      /\ \A f \in Files : f # vf => file[f] = closed.file[f]
  <2> HIDE DEF Contents
  <2> QED
    BY <1>3
<1> HIDE DEF file, offset
<1>6. u \in Machines
  BY <1>2, <1>3, <1>5 DEF Machines
<1>7. /\ u.type = "AUTODETECT" /\ u.data = "none" /\ u.vf = vf /\ u.realVf = s.realVf
      /\ u.mapMode = "READ" /\ u.maskWriteback = writeback
      /\ u.command = s.command /\ u.flashState = s.flashState /\ u.age = s.age
      /\ u.currentBank = s.currentBank /\ u.dirty = s.dirty /\ u.disk = s.disk
      /\ u.file = file
  BY <1>2 DEF Machines
<1> HIDE DEF u
<1> QED
  BY <1>1, <1>4, <1>5, <1>6, <1>7

LEMMA SizeIs ==
  ASSUME NEW s \in Machines, s.vf \in Files
  PROVE  /\ GBASavedataSize(s) \in 0 .. 2
         /\ Fits(s) /\ s.data \in {"shared", "private"} =>
              /\ Mapped(s) \in Contents /\ GBASavedataSize(s) \in 1 .. Len(Mapped(s))
              /\ Len(Mapped(s)) = Len(s.file[s.vf])
<1>1. s.file[s.vf] \in Contents /\ s.copy \in Contents /\ s.type \in Types
  BY DEF Machines
<1>2. Len(s.file[s.vf]) \in 0 .. 2 /\ Len(s.copy) \in 0 .. 2
  BY <1>1, CellsIn
<1>3. GBASavedataSize(s) \in 0 .. 2
  BY <1>1, <1>2 DEF GBASavedataSize, Types
<1>4. ASSUME Fits(s), s.data \in {"shared", "private"}
      PROVE  /\ Mapped(s) \in Contents /\ GBASavedataSize(s) \in 1 .. Len(Mapped(s))
             /\ Len(Mapped(s)) = Len(s.file[s.vf])
  <2>1. Mapped(s) \in Contents /\ Len(Mapped(s)) = Len(s.file[s.vf])
    BY <1>1, <1>4 DEF Mapped, Fits
  <2>2. s.type # "AUTODETECT" /\ Len(s.file[s.vf]) >= Need(s.type)
    BY <1>4 DEF Fits
  <2>3. GBASavedataSize(s) \in 1 .. Len(s.file[s.vf])
    BY <1>1, <1>2, <2>2 DEF GBASavedataSize, Types, Need
  <2> QED
    BY <2>1, <2>3
<1> QED
  BY <1>3, <1>4

Fitting(s, content) == SubSeq(content, 1, Lesser(Len(content), GBASavedataSize(s)))

LEMMA FittingIs ==
  ASSUME NEW s \in Machines, s.vf \in Files, NEW content \in Contents
  PROVE  /\ Fitting(s, content) \in Contents
         /\ Len(Fitting(s, content)) = Lesser(Len(content), GBASavedataSize(s))
         /\ \A i \in 1 .. Len(Fitting(s, content)) : Fitting(s, content)[i] = content[i]
<1> DEFINE n == Lesser(Len(content), GBASavedataSize(s))
<1>1. n \in 0 .. Len(content)
  BY SizeIs, CellsIn DEF Lesser
<1> HIDE DEF n
<1>2. /\ SubSeq(content, 1, n) \in Contents /\ Len(SubSeq(content, 1, n)) = n
      /\ \A i \in 1 .. n : SubSeq(content, 1, n)[i] = content[i]
  BY <1>1, CutIs
<1> QED
  BY <1>2 DEF Fitting, n

LEMMA LoadIs ==
  ASSUME NEW s \in Machines, s.vf \in Files, NEW content \in Contents, NEW t, t = GBASavedataLoad(s, content)
  PROVE  /\ t \in Machines /\ t.type = s.type /\ t.data = s.data /\ t.vf = s.vf /\ t.realVf = s.realVf
         /\ t.mapMode = s.mapMode /\ t.maskWriteback = s.maskWriteback /\ t.command = s.command
         /\ t.flashState = s.flashState /\ t.age = s.age /\ t.currentBank = s.currentBank
         /\ t.dirty = s.dirty /\ t.disk = s.disk
         /\ \A f \in Files : f # s.vf => t.file[f] = s.file[f]
         /\ s.data \in {"shared", "private"} => Mapped(t) = Over(Mapped(s), Fitting(s, content))
         /\ s.data = "private" => t.file = s.file /\ Len(t.copy) = Len(s.copy)
         /\ s.data = "shared" => Len(t.file[s.vf]) = Len(s.file[s.vf])
<1> DEFINE fitting == Fitting(s, content)
<1>1. s.file \in [Files -> Contents] /\ s.file[s.vf] \in Contents /\ s.copy \in Contents
      /\ s.offset \in [Files -> 0 .. 2]
  BY DEF Machines
<1>2. fitting \in Contents
  BY FittingIs
<1> HIDE DEF fitting
<1>3. CASE s.data = "shared"
  <2> DEFINE over == Over(s.file[s.vf], fitting)   file == [s.file EXCEPT ![s.vf] = over]
  <2>1. over \in Contents /\ Len(over) = Len(s.file[s.vf])
    BY <1>1, <1>2, OverIs
  <2>2. t = [s EXCEPT !.file = file]
    BY <1>3 DEF GBASavedataLoad, fitting, Fitting
  <2>3. over = Over(s.file[s.vf], fitting)
    OBVIOUS
  <2> HIDE DEF over, Contents
  <2>4. file \in [Files -> Contents] /\ file[s.vf] = over /\ \A f \in Files : f # s.vf => file[f] = s.file[f]
    BY <1>1, <2>1
  <2> HIDE DEF file
  <2>5. t \in Machines /\ t.file = file
    BY <2>2, <2>4 DEF Machines
  <2>6. /\ t.type = s.type /\ t.data = s.data /\ t.vf = s.vf /\ t.realVf = s.realVf
        /\ t.mapMode = s.mapMode /\ t.maskWriteback = s.maskWriteback /\ t.command = s.command
        /\ t.flashState = s.flashState /\ t.age = s.age /\ t.currentBank = s.currentBank
        /\ t.dirty = s.dirty /\ t.disk = s.disk
    BY <2>2 DEF Machines
  <2>7. Mapped(t) = over /\ Mapped(s) = s.file[s.vf]
    BY <1>3, <2>4, <2>5, <2>6 DEF Mapped
  <2> QED
    BY <1>3, <2>1, <2>3, <2>4, <2>5, <2>6, <2>7 DEF fitting
<1>4. CASE s.data = "private"
  <2> DEFINE over == Over(s.copy, fitting)
  <2>1. over \in Contents /\ Len(over) = Len(s.copy)
    BY <1>1, <1>2, OverIs
  <2>2. t = [s EXCEPT !.copy = over]
    BY <1>4 DEF GBASavedataLoad, fitting, Fitting
  <2>3. over = Over(s.copy, fitting)
    OBVIOUS
  <2> HIDE DEF over, Contents
  <2>5. t \in Machines /\ t.copy = over
    BY <2>1, <2>2 DEF Machines
  <2>6. /\ t.type = s.type /\ t.data = s.data /\ t.vf = s.vf /\ t.realVf = s.realVf
        /\ t.mapMode = s.mapMode /\ t.maskWriteback = s.maskWriteback /\ t.command = s.command
        /\ t.flashState = s.flashState /\ t.age = s.age /\ t.currentBank = s.currentBank
        /\ t.dirty = s.dirty /\ t.disk = s.disk /\ t.file = s.file
    BY <2>2 DEF Machines
  <2>7. Mapped(t) = over /\ Mapped(s) = s.copy
    BY <1>4, <2>5, <2>6 DEF Mapped
  <2> QED
    BY <1>4, <2>1, <2>3, <2>5, <2>6, <2>7 DEF fitting
<1>5. CASE s.data \notin {"shared", "private"}
  <2> DEFINE rest == Len(s.file[s.vf]) - Len(content)
             padded == IF rest > 0 THEN content \o Fill(Erased, rest) ELSE content
             file == [s.file EXCEPT ![s.vf] = padded]   end == Len(padded)
             offset == [s.offset EXCEPT ![s.vf] = end]
  <2>1. padded \in Contents
    <3>1. Len(s.file[s.vf]) \in 0 .. 2 /\ Len(content) \in 0 .. 2 /\ Erased \in Cells
      BY <1>1, CellsIn DEF Cells
    <3>2. Fill(Erased, rest) \in Contents /\ Len(Fill(Erased, rest)) + Len(content) <= 2
      BY <3>1, FillRest
    <3>3. content \o Fill(Erased, rest) \in Contents
      <4> DEFINE more == Fill(Erased, rest)
      <4>1. more \in Contents /\ Len(content) + Len(more) <= 2
        BY <3>1, <3>2, CellsIn
      <4> HIDE DEF more
      <4>2. content \o more \in Contents
        BY <4>1, JoinIs
      <4> QED
        BY <4>2 DEF more
    <3> QED
      BY <3>3
  <2>2. t = [s EXCEPT !.file = file, !.offset = offset]
    BY <1>5 DEF GBASavedataLoad
  <2> HIDE DEF padded
  <2>3. end \in 0 .. 2
    BY <2>1, CellsIn
  <2> HIDE DEF end, Contents
  <2>4. /\ file \in [Files -> Contents] /\ offset \in [Files -> 0 .. 2]
        /\ \A f \in Files : f # s.vf => file[f] = s.file[f]
    BY <1>1, <2>1, <2>3
  <2> HIDE DEF file, offset
  <2>5. t \in Machines /\ t.file = file
    BY <2>2, <2>4 DEF Machines
  <2>6. /\ t.type = s.type /\ t.data = s.data /\ t.vf = s.vf /\ t.realVf = s.realVf
        /\ t.mapMode = s.mapMode /\ t.maskWriteback = s.maskWriteback /\ t.command = s.command
        /\ t.flashState = s.flashState /\ t.age = s.age /\ t.currentBank = s.currentBank
        /\ t.dirty = s.dirty /\ t.disk = s.disk
    BY <2>2 DEF Machines
  <2> QED
    BY <1>5, <2>4, <2>5, <2>6
<1> QED
  BY <1>3, <1>4, <1>5

LEMMA LoadFits ==
  ASSUME NEW s, Ready(s), NEW content \in Contents
  PROVE  Ready(GBASavedataLoad(s, content))
<1> DEFINE t == GBASavedataLoad(s, content)
<1>1. s \in Machines /\ s.vf \in Files /\ s.realVf \in Files /\ Fits(s)
  BY DEF Ready
<1>2. /\ t \in Machines /\ t.type = s.type /\ t.data = s.data /\ t.vf = s.vf /\ t.realVf = s.realVf
      /\ s.data = "private" => t.file = s.file /\ Len(t.copy) = Len(s.copy)
      /\ s.data = "shared" => Len(t.file[s.vf]) = Len(s.file[s.vf])
  BY <1>1, LoadIs
<1> HIDE DEF t
<1>3. Ready(t)
  BY <1>1, <1>2 DEF Ready, Fits
<1> QED
  BY <1>3 DEF t

\* t is s but for the files a mask leaves empty and the order to write it back.
Unmasked(s, real, loaded, t) ==
  /\ loaded = IF s.maskWriteback THEN GBASavedataLoad(real, s.file[s.vf]) ELSE real
  /\ t \in Machines /\ t.type = loaded.type /\ t.data = loaded.data /\ t.copy = loaded.copy
  /\ t.vf = loaded.vf /\ t.realVf = loaded.realVf /\ t.mapMode = loaded.mapMode
  /\ (t.maskWriteback <=> ~s.maskWriteback /\ real.maskWriteback)
  /\ t.command = loaded.command /\ t.flashState = loaded.flashState
  /\ t.age = loaded.age /\ t.currentBank = loaded.currentBank /\ t.dirty = loaded.dirty /\ t.disk = loaded.disk
  /\ \A f \in Files : f # s.vf => t.file[f] = loaded.file[f]

LEMMA UnmaskIs ==
  ASSUME NEW s \in Machines, s.vf \in Files, s.realVf \in Files, s.vf # s.realVf,
         NEW t, t = GBASavedataUnmask(s)
  PROVE  \E u, real, loaded :
           /\ u \in Machines /\ real = GBASavedataForceType(u, s.type)
           /\ u.type = "AUTODETECT" /\ u.data = "none" /\ u.vf = s.realVf /\ u.realVf = s.realVf
           /\ u.mapMode = "WRITE" /\ (u.maskWriteback <=> s.maskWriteback)
           /\ u.command = s.command /\ u.flashState = s.flashState /\ u.age = s.age
           /\ u.currentBank = s.currentBank /\ u.dirty = s.dirty /\ u.disk = s.disk /\ u.file = s.file
           /\ Unmasked(s, real, loaded, t)
<1> DEFINE gone == GBASavedataDeinit(s)
           u == [gone EXCEPT !.vf = s.realVf, !.mapMode = "WRITE"]
           real == GBASavedataForceType(u, s.type)
           loaded == IF s.maskWriteback THEN GBASavedataLoad(real, s.file[s.vf]) ELSE real
           written == IF s.maskWriteback THEN [loaded EXCEPT !.maskWriteback = FALSE] ELSE real
<1>1. /\ gone \in Machines /\ gone.type = "AUTODETECT" /\ gone.data = "none"
      /\ gone.realVf = s.realVf /\ gone.mapMode = s.mapMode /\ gone.maskWriteback = s.maskWriteback
      /\ gone.command = s.command /\ gone.flashState = s.flashState /\ gone.age = s.age
      /\ gone.currentBank = s.currentBank /\ gone.dirty = s.dirty /\ gone.file = s.file /\ gone.disk = s.disk
  BY DeinitIs
<1>2. t = Close(written, s.vf)
  BY DEF GBASavedataUnmask
<1> HIDE DEF gone
<1>3. u \in Machines
  BY <1>1 DEF Machines
<1>4. /\ u.type = "AUTODETECT" /\ u.data = "none" /\ u.vf = s.realVf /\ u.realVf = s.realVf
      /\ u.mapMode = "WRITE" /\ u.maskWriteback = s.maskWriteback
      /\ u.command = s.command /\ u.flashState = s.flashState /\ u.age = s.age
      /\ u.currentBank = s.currentBank /\ u.dirty = s.dirty /\ u.disk = s.disk /\ u.file = s.file
  BY <1>1 DEF Machines
<1> HIDE DEF u
<1>5. Ready(real)
  <2>1. Ready(u) /\ s.type \in Types
    BY <1>3, <1>4 DEF Ready, Fits, Machines
  <2> QED
    BY <2>1, ForceTypeFits
<1>6. real = GBASavedataForceType(u, s.type)
  OBVIOUS
<1> HIDE DEF real
<1>7. loaded \in Machines /\ loaded.maskWriteback = real.maskWriteback
  <2>1. s.file[s.vf] \in Contents /\ real \in Machines /\ real.vf \in Files
    BY <1>5 DEF Machines, Ready
  <2> HIDE DEF Contents
  <2>2. GBASavedataLoad(real, s.file[s.vf]) \in Machines
        /\ GBASavedataLoad(real, s.file[s.vf]).maskWriteback = real.maskWriteback
    BY <2>1, LoadIs
  <2> QED
    BY <2>1, <2>2
<1>8. loaded = IF s.maskWriteback THEN GBASavedataLoad(real, s.file[s.vf]) ELSE real
  OBVIOUS
<1>9. ~s.maskWriteback => written = loaded
  OBVIOUS
<1>10. s.maskWriteback => written = [loaded EXCEPT !.maskWriteback = FALSE]
  OBVIOUS
<1> HIDE DEF loaded, written
<1>11. /\ written \in Machines /\ written.type = loaded.type /\ written.data = loaded.data /\ written.copy = loaded.copy
       /\ written.vf = loaded.vf /\ written.realVf = loaded.realVf /\ written.mapMode = loaded.mapMode
       /\ written.command = loaded.command /\ written.flashState = loaded.flashState
       /\ written.age = loaded.age /\ written.currentBank = loaded.currentBank
       /\ written.dirty = loaded.dirty /\ written.disk = loaded.disk /\ written.file = loaded.file
       /\ (written.maskWriteback <=> ~s.maskWriteback /\ real.maskWriteback)
  <2>1. CASE ~s.maskWriteback
    BY <1>7, <1>9, <2>1
  <2>2. CASE s.maskWriteback
    <3> DEFINE off == FALSE
    <3>1. written = [loaded EXCEPT !.maskWriteback = off] /\ off \in BOOLEAN /\ ~off
      BY <1>10, <2>2
    <3> HIDE DEF off
    <3>2. written \in Machines /\ written.maskWriteback = off
      BY <1>7, <3>1 DEF Machines
    <3>3. /\ written.type = loaded.type /\ written.data = loaded.data /\ written.copy = loaded.copy
          /\ written.vf = loaded.vf /\ written.realVf = loaded.realVf /\ written.mapMode = loaded.mapMode
          /\ written.command = loaded.command /\ written.flashState = loaded.flashState
          /\ written.age = loaded.age /\ written.currentBank = loaded.currentBank
          /\ written.dirty = loaded.dirty /\ written.disk = loaded.disk /\ written.file = loaded.file
      BY <1>7, <3>1 DEF Machines
    <3> QED
      BY <2>2, <3>1, <3>2, <3>3
  <2> QED
    BY <2>1, <2>2
<1>12. /\ t \in Machines /\ t.type = written.type /\ t.data = written.data /\ t.copy = written.copy
       /\ t.vf = written.vf /\ t.realVf = written.realVf /\ t.mapMode = written.mapMode
       /\ t.maskWriteback = written.maskWriteback
       /\ t.command = written.command /\ t.flashState = written.flashState
       /\ t.age = written.age /\ t.currentBank = written.currentBank
       /\ t.dirty = written.dirty /\ t.disk = written.disk
       /\ \A f \in Files : f # s.vf => t.file[f] = written.file[f]
  <2>1. written \in Machines
    BY <1>11
  <2> QED
    BY ONLY <1>2, <2>1, s.vf \in Files, CloseIs
<1>13. t.maskWriteback <=> ~s.maskWriteback /\ real.maskWriteback
  BY ONLY <1>11, <1>12
<1>14. /\ t \in Machines /\ t.type = loaded.type /\ t.data = loaded.data /\ t.copy = loaded.copy
       /\ t.vf = loaded.vf /\ t.realVf = loaded.realVf /\ t.mapMode = loaded.mapMode
       /\ t.command = loaded.command /\ t.flashState = loaded.flashState
       /\ t.age = loaded.age /\ t.currentBank = loaded.currentBank
       /\ t.dirty = loaded.dirty /\ t.disk = loaded.disk
       /\ \A f \in Files : f # s.vf => t.file[f] = loaded.file[f]
  BY ONLY <1>11, <1>12
<1>15. Unmasked(s, real, loaded, t)
  BY ONLY <1>8, <1>13, <1>14 DEF Unmasked
<1> QED
  BY <1>3, <1>4, <1>6, <1>15

LEMMA UnmaskFits ==
  ASSUME NEW s, Ready(s), NEW t, t = GBASavedataUnmask(s)
  PROVE  Ready(t)
<1>1. s \in Machines /\ s.vf \in Files /\ s.realVf \in Files
  BY DEF Ready
<1>2. CASE s.vf = s.realVf
  BY <1>2 DEF GBASavedataUnmask
<1>3. CASE s.vf # s.realVf
  <2>1. PICK u, real, loaded :
           /\ u \in Machines /\ real = GBASavedataForceType(u, s.type)
           /\ u.type = "AUTODETECT" /\ u.data = "none" /\ u.vf = s.realVf /\ u.realVf = s.realVf
           /\ Unmasked(s, real, loaded, t)
    BY <1>1, <1>3, UnmaskIs
  <2>2. Ready(u) /\ s.type \in Types /\ s.file[s.vf] \in Contents
    BY <1>1, <2>1 DEF Ready, Fits, Machines
  <2>3. Ready(real) /\ real.vf = s.realVf
    BY <2>1, <2>2, ForceTypeFits
  <2>4. Ready(loaded) /\ loaded.vf = s.realVf
    <3> HIDE DEF Contents
    <3>1. GBASavedataLoad(real, s.file[s.vf]).vf = real.vf
      BY <2>2, <2>3, LoadIs DEF Ready
    <3>2. Ready(GBASavedataLoad(real, s.file[s.vf]))
      BY <2>2, <2>3, LoadFits
    <3> QED
      BY <2>1, <2>3, <3>1, <3>2 DEF Unmasked
  <2> QED
    BY <1>3, <2>1, <2>4 DEF Unmasked, Ready, Fits
<1> QED
  BY <1>2, <1>3

-----------------------------------------------------------------------------
(* What the game does keeps a machine ready.                                 *)

\* Everything but the dirty flags, the age and the chip's command is as in s.
Stands(s, t) ==
  /\ t \in Machines /\ t.type = s.type /\ t.vf = s.vf /\ t.realVf = s.realVf /\ t.data = s.data
  /\ t.copy = s.copy /\ t.currentBank = s.currentBank /\ t.mapMode = s.mapMode
  /\ (t.maskWriteback <=> s.maskWriteback) /\ t.file = s.file /\ t.disk = s.disk

LEMMA StandsReady ==
  ASSUME NEW s, NEW t, Ready(s), Stands(s, t) PROVE Ready(t)
BY DEF Ready, Stands, Fits

LEMMA DirtiedIs ==
  ASSUME NEW s \in Machines, NEW t, t = Dirtied(s)
  PROVE  /\ Stands(s, t) /\ t.dirty = s.dirty \cup {"NEW"} /\ t.command = s.command
         /\ t.flashState = s.flashState /\ t.age = s.age /\ t.offset = s.offset
<1> DEFINE new == s.dirty \cup {"NEW"}
<1>1. t = [s EXCEPT !.dirty = new] /\ new \in SUBSET {"NEW", "SEEN"}
  BY DEF Dirtied, Machines
<1>2. new = s.dirty \cup {"NEW"}
  OBVIOUS
<1> HIDE DEF new, Contents
<1>3. t \in Machines /\ t.dirty = new
  BY <1>1 DEF Machines
<1> QED
  BY <1>1, <1>2, <1>3 DEF Machines, Stands

LEMMA CommandedIs ==
  ASSUME NEW s \in Machines, NEW command \in Commands, NEW state \in {"RAW", "START", "CONTINUE"}
  PROVE  /\ Stands(s, [s EXCEPT !.command = command]) /\ [s EXCEPT !.command = command].dirty = s.dirty
         /\ [s EXCEPT !.command = command].flashState = s.flashState
         /\ [s EXCEPT !.command = command].command = command
         /\ Stands(s, [s EXCEPT !.flashState = state]) /\ [s EXCEPT !.flashState = state].dirty = s.dirty
         /\ [s EXCEPT !.flashState = state].command = s.command
         /\ [s EXCEPT !.flashState = state].flashState = state
<1> HIDE DEF Contents, Commands
<1> QED
  BY DEF Machines, Stands

LEMMA StoreReady ==
  ASSUME NEW s, Ready(s), NEW i, NEW c \in Cells PROVE Ready(Store(s, i, c))
<1> DEFINE t == Store(s, i, c)
<1>1. s \in Machines /\ s.vf \in Files /\ s.realVf \in Files /\ Fits(s)
  BY DEF Ready
<1>2. /\ t \in Machines /\ Rest(s, t) /\ t.type = s.type /\ t.data = s.data
      /\ Len(t.copy) = Len(s.copy)
      /\ \A f \in Files : Len(t.file[f]) = Len(s.file[f])
  BY <1>1, StoreIs
<1> HIDE DEF t
<1>3. Ready(t)
  BY <1>1, <1>2 DEF Ready, Fits, Rest
<1> QED
  BY <1>3 DEF t

LEMMA DetectedIs ==
  ASSUME NEW s \in Machines, s.vf \in Files, session.type \in Types \ {"AUTODETECT"},
         s.type = "AUTODETECT", session.type # "FLASH1M", NEW t, t = Detected(s)
  PROVE  Told(s, t, session.type)
BY InitFlashIs, InitOthersAre DEF Detected, Types, FlashTypes

LEMMA DetectedAs ==
  ASSUME NEW s \in Machines, s.vf \in Files, session.type \in Types \ {"AUTODETECT"}, s.type = "AUTODETECT",
         NEW t, t = Detected(s)
  PROVE  Told(s, t, IF session.type = "FLASH1M" THEN "FLASH512" ELSE session.type)
BY InitFlashIs, InitOthersAre DEF Detected, Types, FlashTypes

LEMMA DetectedReady ==
  ASSUME NEW s, Ready(s), session.type \in Types \ {"AUTODETECT"}
  PROVE  Ready(Detected(s)) /\ Detected(s).type # "AUTODETECT"
<1> DEFINE t == Detected(s)   type == IF session.type = "FLASH1M" THEN "FLASH512" ELSE session.type
<1>1. s \in Machines /\ s.vf \in Files /\ s.realVf \in Files
  BY DEF Ready
<1>2. CASE s.type # "AUTODETECT"
  BY <1>2 DEF Detected
<1>3. CASE s.type = "AUTODETECT"
  <2>1. Told(s, t, type) /\ type \in Types /\ type # "AUTODETECT"
    BY <1>1, <1>3, DetectedAs DEF Types
  <2> HIDE DEF t, type
  <2>2. Ready(t)
    BY <1>1, <2>1, ToldFits
  <2> QED
    BY <2>1, <2>2 DEF t, Told
<1> QED
  BY <1>2, <1>3

\* An EEPROM is mapped anew when its second cell is used.
LEMMA EnsureIs ==
  ASSUME NEW s \in Machines, s.vf \in Files, NEW block \in 1 .. 2, NEW t, t = _ensureEeprom(s, block)
  PROVE  \/ t = s /\ (block = 1 \/ Len(s.file[s.vf]) >= 2)
         \/ /\ t \in Machines /\ Rest(s, t) /\ t.type = s.type /\ t.dirty = s.dirty
            /\ Grown(s, t) /\ Len(t.file[s.vf]) >= 2
            /\ t.data = MappedAs(s.vf, s.mapMode) /\ (t.data = "private" => t.copy = t.file[s.vf])
            /\ t.currentBank = s.currentBank /\ block = 2 /\ ~(Len(s.file[s.vf]) > 1)
<1> DEFINE long == Extend(s, 2, Erased)
<1>1. CASE block = 1 \/ Len(s.file[s.vf]) > 1
  <2>1. s.file[s.vf] \in Contents
    BY DEF Machines
  <2>2. Len(s.file[s.vf]) \in 0 .. 2
    BY <2>1, CellsIn
  <2> QED
    BY <1>1, <2>2 DEF _ensureEeprom
<1>2. CASE ~(block = 1 \/ Len(s.file[s.vf]) > 1)
  <2>1. Erased \in Cells /\ 2 \in 0 .. 2
    BY DEF Cells
  <2>2. /\ long \in Machines /\ Rest(s, long) /\ long.type = s.type
        /\ long.currentBank = s.currentBank /\ long.dirty = s.dirty
        /\ Grown(s, long) /\ Len(long.file[s.vf]) >= 2
    BY <2>1, ExtendIs
  <2>3. t = Map(long, s.mapMode)
    BY <1>2 DEF _ensureEeprom
  <2> HIDE DEF long
  <2>4. s.mapMode \in {"READ", "WRITE"} /\ long.vf = s.vf
    BY <2>2 DEF Machines, Rest
  <2>5. /\ t \in Machines /\ Rest(long, t) /\ t.type = long.type /\ t.data = MappedAs(s.vf, s.mapMode)
        /\ t.currentBank = long.currentBank /\ t.dirty = long.dirty /\ t.file = long.file /\ t.disk = long.disk
        /\ t.data = "private" => t.copy = t.file[s.vf]
    BY <2>2, <2>3, <2>4, MapIs
  <2> QED
    BY <1>2, <2>2, <2>4, <2>5 DEF Rest, Grown
<1> QED
  BY <1>1, <1>2

LEMMA EnsureReady ==
  ASSUME NEW s, Ready(s), s.type # "AUTODETECT", NEW block \in 1 .. 2
  PROVE  Ready(_ensureEeprom(s, block))
<1> DEFINE t == _ensureEeprom(s, block)
<1>1. s \in Machines /\ s.vf \in Files /\ s.realVf \in Files /\ s.type \in Types
  BY DEF Ready, Machines
<1>2. \/ t = s
      \/ /\ t \in Machines /\ Rest(s, t) /\ t.type = s.type
         /\ Len(t.file[s.vf]) >= 2 /\ (t.data = "private" => t.copy = t.file[s.vf])
  BY <1>1, EnsureIs
<1> HIDE DEF t
<1>3. Ready(t)
  BY <1>1, <1>2 DEF Ready, Fits, Rest, Need
<1> QED
  BY <1>3 DEF t

LEMMA BankIs ==
  ASSUME NEW s \in Machines, NEW bank \in {0, 1, Stale}, NEW t, t = [s EXCEPT !.currentBank = bank]
  PROVE  /\ t \in Machines /\ Rest(s, t) /\ t.type = s.type /\ t.data = s.data /\ t.copy = s.copy
         /\ t.currentBank = bank /\ t.dirty = s.dirty /\ t.file = s.file /\ t.disk = s.disk
<1> HIDE DEF Contents
<1> QED
  BY DEF Machines, Rest

\* A chip that has turned out to be one of 1 Mb.
LEMMA SwitchBankIs ==
  ASSUME NEW s \in Machines, s.vf \in Files, NEW bank \in 0 .. 1, NEW moves \in BOOLEAN,
         NEW t, t = _flashSwitchBank(s, bank, moves)
  PROVE  /\ t \in Machines /\ Rest(s, t) /\ t.dirty = s.dirty /\ Grown(s, t)
         /\ \/ /\ ~(bank = 1 /\ s.type = "FLASH512") /\ t.type = s.type /\ t.data = s.data /\ t.copy = s.copy
               /\ t.file = s.file /\ t.disk = s.disk /\ t.currentBank = bank
            \/ /\ bank = 1 /\ s.type = "FLASH512" /\ t.type = "FLASH1M" /\ Len(t.file[s.vf]) >= 2
               /\ t.data = MappedAs(s.vf, "WRITE") /\ (t.data = "private" => t.copy = t.file[s.vf])
               /\ (t.currentBank = 1 \/ (t.currentBank = Stale /\ moves))
<1> DEFINE switched == [s EXCEPT !.currentBank = bank]
           typed == [switched EXCEPT !.type = "FLASH1M"]
           long == Extend(typed, 2, Erased)
           grown == Map(long, "WRITE")
           stale == [grown EXCEPT !.currentBank = Stale]
<1>1. t = IF bank > 0 /\ s.type = "FLASH512" THEN (IF moves THEN stale ELSE grown) ELSE switched
  BY DEF _flashSwitchBank
<1>2. /\ switched \in Machines /\ Rest(s, switched) /\ switched.type = s.type /\ switched.data = s.data
      /\ switched.copy = s.copy /\ switched.currentBank = bank /\ switched.dirty = s.dirty
      /\ switched.file = s.file /\ switched.disk = s.disk
  BY BankIs
<1> HIDE DEF switched
<1>3. s.file[s.vf] \in Contents
  BY DEF Machines
<1>4. Grown(s, switched)
  BY <1>2, <1>3, CellsIn DEF Grown, Begins
<1>5. /\ typed \in Machines /\ Rest(switched, typed) /\ typed.type = "FLASH1M" /\ typed.data = s.data
      /\ typed.currentBank = bank /\ typed.dirty = s.dirty /\ typed.file = s.file /\ typed.disk = s.disk
  <2>1. "FLASH1M" \in Types
    BY DEF Types
  <2> QED
    BY <1>2, <2>1, TypedIs
<1> HIDE DEF typed
<1>6. /\ long \in Machines /\ Rest(typed, long) /\ long.type = "FLASH1M"
      /\ long.currentBank = bank /\ long.dirty = s.dirty
      /\ Grown(typed, long) /\ Len(long.file[s.vf]) >= 2
  <2>1. Erased \in Cells /\ 2 \in 0 .. 2 /\ typed.vf = s.vf
    BY <1>2, <1>5 DEF Cells, Rest
  <2> QED
    BY <1>5, <2>1, ExtendIs
<1> HIDE DEF long
<1>7. /\ grown \in Machines /\ Rest(long, grown) /\ grown.type = "FLASH1M" /\ grown.data = MappedAs(s.vf, "WRITE")
      /\ grown.currentBank = bank /\ grown.dirty = s.dirty /\ grown.file = long.file /\ grown.disk = long.disk
      /\ grown.data = "private" => grown.copy = grown.file[s.vf]
  <2>1. long.vf = s.vf
    BY <1>2, <1>5, <1>6 DEF Rest
  <2> QED
    BY <1>6, <2>1, MapIs
<1> HIDE DEF grown
<1>8. /\ stale \in Machines /\ Rest(grown, stale) /\ stale.type = grown.type /\ stale.data = grown.data
      /\ stale.copy = grown.copy /\ stale.currentBank = Stale /\ stale.dirty = grown.dirty
      /\ stale.file = grown.file /\ stale.disk = grown.disk
  BY <1>7, BankIs
<1> HIDE DEF stale
<1>9. Rest(s, grown) /\ Rest(s, stale)
  BY <1>2, <1>5, <1>6, <1>7, <1>8 DEF Rest
<1>10. Grown(s, grown) /\ Grown(s, stale)
  <2>1. typed.vf = s.vf
    BY <1>2, <1>5 DEF Rest
  <2> QED
    BY <1>5, <1>6, <1>7, <1>8, <2>1 DEF Grown
<1>11. CASE bank > 0 /\ s.type = "FLASH512"
  <2>1. bank = 1
    BY <1>11
  <2> QED
    BY <1>1, <1>6, <1>7, <1>8, <1>9, <1>10, <1>11, <2>1
<1>12. CASE ~(bank > 0 /\ s.type = "FLASH512")
  <2>1. ~(bank = 1 /\ s.type = "FLASH512")
    BY <1>12
  <2> QED
    BY <1>1, <1>2, <1>4, <1>12, <2>1
<1> QED
  BY <1>11, <1>12

LEMMA SwitchBankReady ==
  ASSUME NEW s, Ready(s), NEW bank \in 0 .. 1, NEW moves \in BOOLEAN
  PROVE  Ready(_flashSwitchBank(s, bank, moves))
<1> DEFINE t == _flashSwitchBank(s, bank, moves)
<1>1. s \in Machines /\ s.vf \in Files /\ s.realVf \in Files
  BY DEF Ready
<1>2. /\ t \in Machines /\ Rest(s, t)
      /\ \/ /\ t.type = s.type /\ t.data = s.data /\ t.copy = s.copy /\ t.file = s.file
         \/ /\ t.type = "FLASH1M" /\ Len(t.file[s.vf]) >= 2
            /\ t.data = "private" => t.copy = t.file[s.vf]
  BY <1>1, SwitchBankIs
<1> HIDE DEF t
<1>3. Ready(t)
  BY <1>1, <1>2 DEF Ready, Fits, Rest, Need
<1> QED
  BY <1>3 DEF t

LEMMA CommandReady ==
  ASSUME NEW s, Ready(s), NEW command \in Commands, NEW state \in {"RAW", "START", "CONTINUE"}
  PROVE  Ready([s EXCEPT !.command = command]) /\ Ready([s EXCEPT !.flashState = state]) /\ Ready(Dirtied(s))
         /\ Ready(Done(s))
<1>1. s \in Machines /\ "NONE" \in Commands
  BY DEF Ready, Commands
<1>2. Stands(s, [s EXCEPT !.command = command]) /\ Stands(s, [s EXCEPT !.flashState = state])
      /\ Stands(s, [s EXCEPT !.command = "NONE"])
  BY <1>1, CommandedIs
<1> QED
  BY <1>1, <1>2, DirtiedIs, StandsReady DEF Done

LEMMA DoneReady ==
  ASSUME NEW s, Ready(s) PROVE Ready(Done(s)) /\ Ready(Dirtied(s))
BY CommandReady DEF Commands

LEMMA EraseReady ==
  ASSUME NEW s, Ready(s) PROVE Ready(_flashErase(s))
<1>1. Erased \in Cells
  BY DEF Cells
<1> DEFINE dirtied == Dirtied(s)   first == Store(dirtied, 1, Erased)   both == Store(first, 2, Erased)
<1>2. Ready(dirtied)
  BY DoneReady
<1>3. Ready(first)
  <2> HIDE DEF dirtied
  <2> QED
    BY <1>1, <1>2, StoreReady
<1>4. Ready(both)
  <2> HIDE DEF first
  <2> QED
    BY <1>1, <1>3, StoreReady
<1>5. _flashErase(s) \in {first, both}
  BY DEF _flashErase
<1> QED
  BY <1>3, <1>4, <1>5

LEMMA StoreFlashReady ==
  ASSUME NEW s, Ready(s), NEW address, NEW c \in Cells PROVE Ready(StoreFlash(s, address, c))
<1> DEFINE dirtied == Dirtied(s)
<1>1. Ready(dirtied)
  BY DoneReady
<1>2. StoreFlash(s, address, c) \in {dirtied, Store(dirtied, s.currentBank + 1, c)}
  BY DEF StoreFlash
<1> HIDE DEF dirtied
<1>3. Ready(Store(dirtied, s.currentBank + 1, c))
  BY <1>1, StoreReady
<1> QED
  BY <1>1, <1>2, <1>3

LEMMA WriteFlashReady ==
  ASSUME NEW s, Ready(s), NEW address, NEW value, NEW moves \in BOOLEAN,
         s.flashState = "RAW" /\ s.command = "PROGRAM" => value \in Cells
  PROVE  Ready(GBASavedataWriteFlash(s, address, value, moves))
<1> DEFINE raw == [s EXCEPT !.flashState = "RAW"]
<1>1. Ready(raw)
  BY CommandReady DEF Commands
<1>2. ASSUME s.flashState = "RAW" PROVE Ready(FlashRaw(s, address, value, moves))
  <2>1. CASE s.command = "PROGRAM"
    <3>1. Ready(StoreFlash(s, address, value))
      BY <1>2, <2>1, StoreFlashReady
    <3> QED
      BY <2>1, <3>1, DoneReady DEF FlashRaw
  <2>2. CASE s.command = "SWITCH_BANK"
    <3> DEFINE bank == IF value = "BANK1" THEN 1 ELSE 0
    <3>1. Ready(_flashSwitchBank(s, bank, moves))
      BY SwitchBankReady
    <3>2. Ready(Done(s)) /\ Ready(Done(_flashSwitchBank(s, bank, moves)))
      BY <3>1, DoneReady
    <3> QED
      BY <2>2, <3>2 DEF FlashRaw
  <2>3. CASE s.command \notin {"PROGRAM", "SWITCH_BANK"}
    <3>1. Ready([s EXCEPT !.flashState = "START"])
      BY CommandReady DEF Commands
    <3> QED
      BY <2>3, <3>1 DEF FlashRaw
  <2> QED
    BY <2>1, <2>2, <2>3
<1>3. Ready([s EXCEPT !.flashState = "CONTINUE"])
  BY CommandReady DEF Commands
<1>4. Ready(FlashCommand(raw, value))
  <2> HIDE DEF raw
  <2>1. Ready(Done(raw))
    BY <1>1, DoneReady
  <2>2. Ready(_flashErase(raw))
    BY <1>1, EraseReady
  <2>3. Ready(Done(_flashErase(raw)))
    BY <2>2, DoneReady
  <2>4. ASSUME value \in Commands PROVE Ready([raw EXCEPT !.command = value])
    BY <1>1, <2>4, CommandReady
  <2>5. \/ FlashCommand(raw, value) \in {raw, Done(raw), Done(_flashErase(raw))}
        \/ value \in Commands /\ FlashCommand(raw, value) = [raw EXCEPT !.command = value]
    BY DEF FlashCommand
  <2> QED
    BY <1>1, <2>1, <2>3, <2>4, <2>5
<1>5. Ready(Done(StoreFlash(raw, address, Erased)))
  <2> HIDE DEF raw
  <2>1. Ready(StoreFlash(raw, address, Erased))
    BY <1>1, StoreFlashReady DEF Cells
  <2> QED
    BY <2>1, DoneReady
<1>6. CASE s.flashState = "RAW"
  BY <1>2, <1>6 DEF GBASavedataWriteFlash
<1>7. CASE s.flashState = "START"
  BY <1>1, <1>3, <1>7 DEF GBASavedataWriteFlash
<1>8. CASE s.flashState = "CONTINUE" /\ address = "HI"
  BY <1>4, <1>8 DEF GBASavedataWriteFlash
<1>9. CASE s.flashState = "CONTINUE" /\ address # "HI"
  BY <1>1, <1>5, <1>9 DEF GBASavedataWriteFlash
<1>10. s.flashState \in {"RAW", "START", "CONTINUE"}
  BY DEF Ready, Machines
<1> QED
  BY <1>6, <1>7, <1>8, <1>9, <1>10

LEMMA WriteEEPROMReady ==
  ASSUME NEW s, Ready(s), s.type # "AUTODETECT", NEW block \in 1 .. 2, NEW c \in Cells
  PROVE  Ready(GBASavedataWriteEEPROM(s, block, c))
<1> DEFINE long == _ensureEeprom(s, block)
<1>1. Ready(long)
  BY EnsureReady
<1> HIDE DEF long
<1>2. Ready(Dirtied(long))
  BY <1>1, DoneReady
<1> QED
  BY <1>2, StoreReady DEF GBASavedataWriteEEPROM, long

\* Only the age differs.
LEMMA OlderIs ==
  ASSUME NEW s \in Machines, NEW a \in 0 .. Threshold + 1, NEW t, t = [s EXCEPT !.age = a]
  PROVE  Stands(s, t) /\ t.dirty = s.dirty /\ t.command = s.command /\ t.flashState = s.flashState
<1> HIDE DEF Contents
<1>1. t \in Machines
  BY DEF Machines
<1> QED
  BY <1>1 DEF Machines, Stands

LEMMA AgedIs ==
  ASSUME NEW s \in Machines, NEW t, t = Aged(s)
  PROVE  Stands(s, t) /\ t.dirty = s.dirty /\ t.command = s.command /\ t.flashState = s.flashState
<1>1. Lesser(s.age + 1, Threshold + 1) \in 0 .. Threshold + 1
  BY SavedataAssumption DEF Machines, Lesser
<1>2. CASE "SEEN" \in s.dirty
  BY <1>1, <1>2, OlderIs DEF Aged
<1>3. CASE "SEEN" \notin s.dirty
  BY <1>3 DEF Aged, Stands
<1> QED
  BY <1>2, <1>3

LEMMA AtAnyAgeIs ==
  ASSUME NEW s \in Machines, NEW t \in AtAnyAge(s)
  PROVE  Stands(s, t) /\ t.dirty = s.dirty /\ t.command = s.command /\ t.flashState = s.flashState
<1>1. CASE "SEEN" \in s.dirty
  <2>1. PICK a \in 0 .. Threshold + 1 : t = [s EXCEPT !.age = a]
    BY <1>1 DEF AtAnyAge
  <2> QED
    BY <2>1, OlderIs
<1>2. CASE "SEEN" \notin s.dirty
  BY <1>2 DEF AtAnyAge, Stands
<1> QED
  BY <1>1, <1>2

LEMMA ClonedFromIs ==
  ASSUME NEW s \in Machines, s.vf \in Files, NEW t, t = ClonedFrom(s)
  PROVE  Stands(s, t) /\ t.dirty = s.dirty /\ t.command = s.command /\ t.flashState = s.flashState
<1>1. CASE s.data = "none"
  <2> DEFINE end == Len(s.file[s.vf])   offset == [s.offset EXCEPT ![s.vf] = end]
  <2>1. end \in 0 .. 2
    BY CellsIn DEF Machines
  <2> HIDE DEF end, Contents
  <2>2. offset \in [Files -> 0 .. 2]
    BY <2>1 DEF Machines
  <2>3. t = [s EXCEPT !.offset = offset]
    BY <1>1 DEF ClonedFrom, end
  <2> HIDE DEF offset
  <2> QED
    BY <2>2, <2>3 DEF Machines, Stands
<1>2. CASE s.data # "none"
  BY <1>2 DEF ClonedFrom, Stands
<1> QED
  BY <1>1, <1>2

LEMMA ClonedIs ==
  ASSUME NEW s, Ready(s), s.data # "failed" PROVE Cloned(s) \in Contents /\ View(s) \in Contents
<1>1. s \in Machines /\ s.vf \in Files /\ Fits(s) /\ s.file[s.vf] \in Contents
      /\ s.offset[s.vf] \in 0 .. 2
  BY DEF Ready, Machines
<1>2. CASE s.data \in {"shared", "private"}
  <2>1. Mapped(s) \in Contents /\ GBASavedataSize(s) \in 0 .. Len(Mapped(s))
    BY <1>1, <1>2, SizeIs
  <2>2. SubSeq(Mapped(s), 1, GBASavedataSize(s)) \in Contents
    BY <2>1, CutIs
  <2>3. <<>> \in Contents
    BY DEF Contents
  <2> HIDE DEF Contents
  <2> QED
    BY <1>2, <2>2, <2>3 DEF Cloned, View
<1>3. CASE s.data \notin {"shared", "private"}
  <2> DEFINE file == s.file[s.vf]   n == Len(file)   k == s.offset[s.vf]
             clone == [i \in 1 .. n |-> IF i + k <= n THEN file[i + k] ELSE Junk]
  <2>1. file \in Contents /\ n \in 0 .. 2 /\ (\A i \in 1 .. n : file[i] \in Cells) /\ k \in 0 .. 2
    BY <1>1, CellsIn
  <2>2. Cloned(s) = clone
    BY <1>3 DEF Cloned
  <2>3. Junk \in Cells
    BY DEF Cells
  <2> HIDE DEF file, n, k, Contents, Cells
  <2>4. \A i \in 1 .. n : i + k <= n => i + k \in 1 .. n
    BY <2>1
  <2>5. clone \in Seq(Cells) /\ Len(clone) = n
    BY <2>1, <2>3, <2>4
  <2> HIDE DEF clone
  <2>6. Cloned(s) \in Contents
    BY <2>1, <2>2, <2>5, IsContent
  <2>7. View(s) \in Contents
    BY <1>1, <1>3, <2>1 DEF View, file, Machines
  <2> QED
    BY <2>6, <2>7
<1> QED
  BY <1>2, <1>3

\* A frame's end marks the save as seen, or writes back a mask and syncs.
LEMMA CleanIs ==
  ASSUME NEW s \in Machines, NEW real, real = (IF s.maskWriteback THEN GBASavedataUnmask(s) ELSE s),
         real \in Machines, NEW t, t = GBASavedataClean(s)
  PROVE  \/ Stands(s, t) /\ t.command = s.command /\ t.flashState = s.flashState
            /\ t.dirty = (IF "NEW" \in s.dirty THEN {"SEEN"} ELSE s.dirty)
         \/ t = real /\ real.mapMode = "READ" /\ s.dirty = {"SEEN"}
         \/ /\ s.dirty = {"SEEN"} /\ real.mapMode # "READ" /\ t \in Machines
            /\ t.type = real.type /\ t.vf = real.vf /\ t.realVf = real.realVf /\ t.data = real.data
            /\ t.copy = real.copy /\ t.currentBank = real.currentBank /\ t.mapMode = real.mapMode
            /\ (t.maskWriteback <=> real.maskWriteback) /\ t.file = real.file /\ t.dirty = {}
            /\ t.command = real.command /\ t.flashState = real.flashState
            /\ t.disk = IF real.data = "shared" /\ real.vf = "save" THEN real.file["save"] ELSE real.disk
<1> DEFINE zero == 0   seen == {"SEEN"}   none == {}
<1>1. zero \in 0 .. Threshold + 1 /\ seen \in SUBSET {"NEW", "SEEN"} /\ none \in SUBSET {"NEW", "SEEN"}
  BY SavedataAssumption
<1>2. GBASavedataClean(s) =
        CASE "NEW" \in s.dirty -> [s EXCEPT !.age = zero, !.dirty = seen]
          [] s.dirty = seen /\ s.age > Threshold ->
               IF real.mapMode = "READ" THEN real
               ELSE [real EXCEPT !.dirty = none, !.age = zero,
                                 !.disk = IF real.data = "shared" /\ real.vf = "save"
                                          THEN real.file["save"] ELSE @]
          [] OTHER -> s
  BY DEF GBASavedataClean
<1>3. seen = {"SEEN"} /\ none = {}
  OBVIOUS
<1> HIDE DEF zero, seen, none
<1>4. CASE "NEW" \in s.dirty
  <2>1. t = [s EXCEPT !.age = zero, !.dirty = seen]
    <3>1. s.dirty # seen
      BY <1>3, <1>4
    <3> QED
      BY <1>2, <1>4, <3>1
  <2>2. t \in Machines /\ t.dirty = seen
    <3> HIDE DEF Contents
    <3> QED
      BY <1>1, <2>1 DEF Machines
  <2>3. Stands(s, t) /\ t.command = s.command /\ t.flashState = s.flashState
    <3> HIDE DEF Contents
    <3> QED
      BY <2>1, <2>2 DEF Stands, Machines
  <2> QED
    BY <1>3, <1>4, <2>2, <2>3
<1>5. CASE "NEW" \notin s.dirty /\ s.dirty = seen /\ s.age > Threshold
  <2> DEFINE disk == IF real.data = "shared" /\ real.vf = "save" THEN real.file["save"] ELSE real.disk
  <2>1. disk \in Contents
    BY DEF Machines, Files
  <2>2. real.mapMode = "READ" => t = real
    BY <1>2, <1>5
  <2>3. real.mapMode # "READ" => t = [real EXCEPT !.age = zero, !.dirty = none, !.disk = disk]
    BY <1>2, <1>5
  <2>4. disk = IF real.data = "shared" /\ real.vf = "save" THEN real.file["save"] ELSE real.disk
    OBVIOUS
  <2> HIDE DEF disk
  <2>5. ASSUME real.mapMode # "READ"
        PROVE  /\ t \in Machines /\ t.type = real.type /\ t.vf = real.vf /\ t.realVf = real.realVf /\ t.data = real.data
               /\ t.copy = real.copy /\ t.currentBank = real.currentBank /\ t.mapMode = real.mapMode
               /\ (t.maskWriteback <=> real.maskWriteback) /\ t.file = real.file /\ t.disk = disk /\ t.dirty = none
               /\ t.command = real.command /\ t.flashState = real.flashState
    <3>1. t = [real EXCEPT !.age = zero, !.dirty = none, !.disk = disk]
      BY <2>3, <2>5
    <3> HIDE DEF Contents
    <3>2. t \in Machines
      <4> DEFINE u == [real EXCEPT !.age = zero, !.dirty = none]
      <4>1. t = [u EXCEPT !.disk = disk]
        BY <3>1
      <4>2. u \in Machines
        BY ONLY <1>1, real \in Machines DEF Machines
      <4> HIDE DEF u
      <4> QED
        BY ONLY <2>1, <4>1, <4>2 DEF Machines
    <3>3. t.disk = disk /\ t.dirty = none
      BY <3>1 DEF Machines
    <3>4. /\ t.type = real.type /\ t.vf = real.vf /\ t.realVf = real.realVf /\ t.data = real.data
          /\ t.copy = real.copy /\ t.currentBank = real.currentBank /\ t.mapMode = real.mapMode
          /\ t.maskWriteback = real.maskWriteback /\ t.file = real.file
          /\ t.command = real.command /\ t.flashState = real.flashState
      BY <3>1 DEF Machines
    <3> QED
      BY <3>2, <3>3, <3>4
  <2> QED
    BY <1>3, <1>5, <2>2, <2>4, <2>5
<1>6. CASE "NEW" \notin s.dirty /\ ~(s.dirty = seen /\ s.age > Threshold)
  <2>1. t = s
    BY <1>2, <1>6
  <2> QED
    BY <1>6, <2>1 DEF Stands
<1> QED
  BY <1>4, <1>5, <1>6

LEMMA CleanReady ==
  ASSUME NEW s, Ready(s) PROVE Ready(GBASavedataClean(s))
<1> DEFINE real == IF s.maskWriteback THEN GBASavedataUnmask(s) ELSE s   t == GBASavedataClean(s)
<1>1. Ready(real)
  BY UnmaskFits
<1>2. real = IF s.maskWriteback THEN GBASavedataUnmask(s) ELSE s
  OBVIOUS
<1>3. real \in Machines /\ s \in Machines
  BY <1>1 DEF Ready
<1> HIDE DEF real
<1>4. \/ Stands(s, t)
      \/ t = real
      \/ /\ t \in Machines
         /\ t.type = real.type /\ t.vf = real.vf /\ t.realVf = real.realVf /\ t.data = real.data
         /\ t.copy = real.copy /\ t.file = real.file
  BY <1>2, <1>3, CleanIs
<1> HIDE DEF t
<1>5. Ready(t)
  BY <1>1, <1>4, StandsReady DEF Ready, Fits
<1> QED
  BY <1>5 DEF t

LEMMA DeserializeReady ==
  ASSUME NEW s, Ready(s), NEW state, state.type \in Types, state.command \in Commands,
         state.flashState \in {"RAW", "START", "CONTINUE"}, state.flashBank \in 0 .. 1
  PROVE  Ready(GBASavedataDeserialize(s, state))
<1> DEFINE forced == GBASavedataForceType(s, state.type)
           running == [forced EXCEPT !.command = state.command]
           typed == [running EXCEPT !.flashState = state.flashState]
           switched == _flashSwitchBank(typed, state.flashBank, FALSE)
<1>1. Ready(forced)
  BY ForceTypeFits
<1>2. GBASavedataDeserialize(s, state) = IF typed.type = "FLASH1M" THEN switched ELSE typed
  BY DEF GBASavedataDeserialize
<1> HIDE DEF forced
<1>3. Ready(running)
  BY <1>1, CommandReady
<1> HIDE DEF running
<1>4. Ready(typed)
  BY <1>3, CommandReady
<1> HIDE DEF typed
<1>5. Ready(switched)
  BY <1>4, SwitchBankReady
<1> QED
  BY <1>2, <1>4, <1>5

LEMMA MaskReady ==
  ASSUME NEW s, Ready(s), NEW vf \in {"temp", "state"}, NEW content \in Contents, NEW writeback \in BOOLEAN
  PROVE  Ready(GBASavedataMask(s, vf, content, writeback))
<1>1. s \in Machines /\ s.vf \in Files /\ s.realVf \in Files /\ s.type \in Types /\ vf \in Files
  BY DEF Ready, Machines, Files
<1> DEFINE t == GBASavedataMask(s, vf, content, writeback)
<1> HIDE DEF Contents
<1>2. PICK u \in Machines : t = GBASavedataForceType(u, s.type) /\ u.vf = vf /\ u.realVf = s.realVf /\ u.data = "none"
  BY <1>1, MaskIs
<1>3. Ready(u)
  BY <1>1, <1>2 DEF Ready, Fits
<1> HIDE DEF t
<1>4. Ready(t)
  BY <1>1, <1>2, <1>3, ForceTypeFits
<1> QED
  BY <1>4 DEF t

LEMMA RestoredReady ==
  ASSUME NEW s, Ready(s), NEW sram \in Contents, NEW writeback \in BOOLEAN
  PROVE  Ready(Restored(s, sram, writeback))
BY LoadFits, MaskReady DEF Restored

LEMMA DisarmedIs ==
  ASSUME NEW s \in Machines, NEW t, t = [s EXCEPT !.maskWriteback = FALSE]
  PROVE  /\ t \in Machines /\ t.type = s.type /\ t.vf = s.vf /\ t.realVf = s.realVf /\ t.data = s.data
         /\ t.copy = s.copy /\ t.currentBank = s.currentBank /\ t.mapMode = s.mapMode
         /\ ~t.maskWriteback /\ t.file = s.file /\ t.disk = s.disk /\ t.dirty = s.dirty
         /\ t.command = s.command /\ t.flashState = s.flashState
<1> DEFINE off == FALSE
<1>1. t = [s EXCEPT !.maskWriteback = off] /\ off \in BOOLEAN /\ ~off
  OBVIOUS
<1> HIDE DEF off, Contents
<1>2. t \in Machines /\ t.maskWriteback = off
  BY <1>1 DEF Machines
<1>3. /\ t.type = s.type /\ t.vf = s.vf /\ t.realVf = s.realVf /\ t.data = s.data
      /\ t.copy = s.copy /\ t.currentBank = s.currentBank /\ t.mapMode = s.mapMode
      /\ t.file = s.file /\ t.disk = s.disk /\ t.dirty = s.dirty
      /\ t.command = s.command /\ t.flashState = s.flashState
  BY <1>1 DEF Machines
<1> QED
  BY <1>1, <1>2, <1>3

LEMMA ResetReady ==
  ASSUME NEW s, Ready(s), session.type \in Types
  PROVE  Ready(ResetSavedata(s))
<1> DEFINE forced == Overridden(s)   plain == [forced EXCEPT !.maskWriteback = FALSE]
<1>1. Ready(forced)
  BY ForceTypeFits DEF Overridden
<1>2. ResetSavedata(s) = GBASavedataUnmask(plain)
  BY DEF ResetSavedata
<1> HIDE DEF forced
<1>3. Ready(plain)
  <2>1. forced \in Machines /\ plain = [forced EXCEPT !.maskWriteback = FALSE]
    BY <1>1 DEF Ready
  <2> HIDE DEF plain
  <2> QED
    BY <1>1, <2>1, DisarmedIs DEF Ready, Fits
<1> HIDE DEF plain
<1> QED
  BY <1>2, <1>3, UnmaskFits

-----------------------------------------------------------------------------
(* The types.                                                                *)

\* While the game goes on its save is mapped so that it fits.
TypeInv == TypeOK /\ (Sound => Ready(savedata))

LEMMA SessionIs ==
  ASSUME session \in Sessions
  PROVE  /\ session.type \in Types \ {"AUTODETECT"} /\ session.size \in 0 .. 2
         /\ session.writes \subseteq Cells /\ session.forced \in BOOLEAN
BY SavedataAssumption DEF Cells

LEMMA NothingIsContent == <<>> \in Contents
BY DEF Contents

\* Before every operation.
LEMMA ReadyNow ==
  ASSUME TypeInv, Sound
  PROVE  /\ Ready(savedata) /\ savedata \in Machines /\ savedata.vf \in Files /\ savedata.realVf \in Files
         /\ savedata.data # "failed" /\ savedata.currentBank \in 0 .. 1
BY DEF TypeInv, TypeOK, Sound, Ready, Machines

\* What an operation that leaves a machine ready has to leave else.
LEMMA ReadyNext ==
  ASSUME TypeInv, Ready(savedata'), Keeps, wrote' \in BOOLEAN, playing' \in BOOLEAN PROVE TypeInv'
BY DEF TypeInv, TypeOK, Keeps, Ready, Fits, Machines, Slots

LEMMA TypePlayed ==
  ASSUME TypeInv, NEW s, Ready(s), Played(s), wrote' \in BOOLEAN PROVE TypeInv'
<1>1. savedata' = s /\ Keeps /\ playing' \in BOOLEAN
  BY DEF Played, TypeInv, TypeOK
<1>2. Ready(savedata')
  BY <1>1 DEF Ready, Fits
<1> QED
  BY <1>1, <1>2, ReadyNext

LEMMA TypeGame ==
  ASSUME TypeInv, WriteSRAM \/ WriteFlash \/ WriteEEPROM \/ ReadEEPROM PROVE TypeInv'
<1> DEFINE told == Detected(savedata)
<1>1. Sound
  BY DEF WriteSRAM, WriteFlash, WriteEEPROM, ReadEEPROM
<1>2. session \in Sessions /\ session.type \in Types \ {"AUTODETECT"} /\ session.writes \subseteq Cells
      /\ wrote \in BOOLEAN
  BY SessionIs DEF TypeInv, TypeOK
<1>3. Ready(told) /\ told.type # "AUTODETECT"
  BY <1>1, <1>2, ReadyNow, DetectedReady
<1>4. told.command = savedata.command /\ told.flashState = savedata.flashState
  <2>1. savedata \in Machines /\ savedata.vf \in Files
    BY <1>1, ReadyNow
  <2>2. CASE savedata.type # "AUTODETECT"
    BY <2>2 DEF Detected
  <2>3. CASE savedata.type = "AUTODETECT"
    BY <1>2, <2>1, <2>3, DetectedAs DEF Told, Rest
  <2> QED
    BY <2>2, <2>3
<1> HIDE DEF told
<1>5. CASE WriteSRAM
  <2>1. PICK c \in session.writes : Played(Store(Dirtied(told), 1, c))
    BY <1>5 DEF WriteSRAM, told
  <2>2. Ready(Dirtied(told))
    BY <1>3, DoneReady
  <2>3. Ready(Store(Dirtied(told), 1, c))
    BY <1>2, <2>2, StoreReady
  <2>4. wrote' \in BOOLEAN
    BY <1>5 DEF WriteSRAM
  <2> QED
    BY <2>1, <2>3, <2>4, TypePlayed
<1>6. CASE WriteFlash
  <2>1. PICK address \in Addresses, value \in Bytes, moves \in BOOLEAN :
          /\ savedata.flashState = "RAW" /\ savedata.command = "PROGRAM" => value \in session.writes
          /\ Played(GBASavedataWriteFlash(told, address, value, moves))
          /\ wrote' \in BOOLEAN
    BY <1>2, <1>6 DEF WriteFlash, told
  <2>2. Ready(GBASavedataWriteFlash(told, address, value, moves))
    BY <1>2, <1>3, <1>4, <2>1, WriteFlashReady
  <2> QED
    BY <2>1, <2>2, TypePlayed
<1>7. CASE WriteEEPROM
  <2>1. PICK block \in 1 .. 2, c \in session.writes : Played(GBASavedataWriteEEPROM(told, block, c))
    BY <1>7 DEF WriteEEPROM, told
  <2>2. Ready(GBASavedataWriteEEPROM(told, block, c))
    BY <1>2, <1>3, WriteEEPROMReady
  <2>3. wrote' \in BOOLEAN
    BY <1>7 DEF WriteEEPROM
  <2> QED
    BY <2>1, <2>2, <2>3, TypePlayed
<1>8. CASE ReadEEPROM
  <2>1. PICK block \in 1 .. 2 : Played(_ensureEeprom(told, block))
    BY <1>8 DEF ReadEEPROM, told
  <2>2. Ready(_ensureEeprom(told, block))
    BY <1>3, EnsureReady
  <2>3. wrote' \in BOOLEAN
    BY <1>2, <1>8 DEF ReadEEPROM
  <2> QED
    BY <2>1, <2>2, <2>3, TypePlayed
<1> QED
  BY <1>5, <1>6, <1>7, <1>8

LEMMA TypeFrame ==
  ASSUME TypeInv, FrameEnded PROVE TypeInv'
<1> DEFINE aged == Aged(savedata)
<1>1. Sound /\ savedata' = GBASavedataClean(aged) /\ Keeps /\ wrote' = wrote /\ playing' = playing
  BY DEF FrameEnded
<1>2. Ready(savedata) /\ savedata \in Machines
  BY <1>1, ReadyNow
<1>3. Ready(aged)
  BY <1>2, AgedIs, StandsReady
<1> HIDE DEF aged
<1>4. Ready(savedata')
  BY <1>1, <1>3, CleanReady
<1>5. wrote' \in BOOLEAN /\ playing' \in BOOLEAN
  BY <1>1 DEF TypeInv, TypeOK
<1> QED
  BY <1>1, <1>4, <1>5, ReadyNext

LEMMA AnyAgeReady ==
  ASSUME NEW s, Ready(s), NEW t \in AtAnyAge(s) PROVE Ready(t)
<1>1. s \in Machines
  BY DEF Ready
<1>2. Stands(s, t)
  BY <1>1, AtAnyAgeIs
<1> QED
  BY <1>2, StandsReady

LEMMA TypeReset ==
  ASSUME TypeInv, GBAReset \/ loadTemporarySave PROVE TypeInv'
<1> DEFINE reset == ResetSavedata(savedata)
<1>1. Sound /\ Keeps /\ wrote' \in BOOLEAN /\ playing' \in BOOLEAN
  BY DEF GBAReset, loadTemporarySave, TypeInv, TypeOK
<1>2. session \in Sessions /\ session.type \in Types /\ session.writes \subseteq Cells
  BY SessionIs DEF TypeInv, TypeOK
<1>3. Ready(reset)
  BY <1>1, <1>2, ReadyNow, ResetReady
<1> HIDE DEF reset
<1>4. CASE GBAReset
  <2>1. savedata' \in AtAnyAge(reset)
    BY <1>4 DEF GBAReset, reset
  <2>2. Ready(savedata')
    BY <1>3, <2>1, AnyAgeReady
  <2> QED
    BY <1>1, <2>2, ReadyNext
<1>5. CASE loadTemporarySave
  <2>1. PICK c \in session.writes : savedata' \in AtAnyAge(GBASavedataMask(reset, "temp", <<c, c>>, FALSE))
    BY <1>5 DEF loadTemporarySave, reset
  <2> DEFINE save == <<c, c>>
  <2>2. save \in Contents
    BY <1>2 DEF Contents
  <2> HIDE DEF save, Contents
  <2> DEFINE masked == GBASavedataMask(reset, "temp", save, FALSE)
  <2>3. Ready(masked)
    BY <1>3, <2>2, MaskReady
  <2>4. savedata' \in AtAnyAge(masked)
    BY <2>1 DEF save
  <2> HIDE DEF masked
  <2>5. Ready(savedata')
    BY <2>3, <2>4, AnyAgeReady
  <2> QED
    BY <1>1, <2>5, ReadyNext
<1> QED
  BY <1>4, <1>5

LEMMA TypeSave ==
  ASSUME TypeInv, SaveState PROVE TypeInv'
<1>1. Sound /\ wrote' = wrote /\ playing' = playing /\ session' = session
  BY DEF SaveState
<1>2. /\ Ready(savedata) /\ savedata \in Machines /\ savedata.vf \in Files
      /\ savedata.data # "failed" /\ savedata.currentBank \in 0 .. 1
  BY <1>1, ReadyNow
<1>3. savedata' \in {savedata, ClonedFrom(savedata)}
  BY DEF SaveState
<1>4. Ready(savedata')
  <2>1. Ready(ClonedFrom(savedata))
    BY <1>2, ClonedFromIs, StandsReady
  <2>2. CASE savedata' = savedata
    BY <1>2, <2>2 DEF Ready, Fits
  <2>3. CASE savedata' = ClonedFrom(savedata)
    BY <2>1, <2>3 DEF Ready, Fits
  <2> QED
    BY <1>3, <2>2, <2>3
<1>5. slot' \in Slots
  <2> DEFINE state == GBASavedataSerialize(savedata)   seen == Visible(savedata)
             sram == IF GBASavedataSize(savedata) = 0 THEN <<>> ELSE Cloned(savedata)
  <2>1. slot' = [state |-> state, seen |-> seen, sram |-> sram]
    BY DEF SaveState
  <2>2. state \in [type : Types, command : Commands, flashState : {"RAW", "START", "CONTINUE"},
                   flashBank : 0 .. 1]
    BY <1>2 DEF GBASavedataSerialize, Machines
  <2>3. View(savedata) \in Contents /\ sram \in Contents
    <3>1. Cloned(savedata) \in Contents /\ View(savedata) \in Contents
      BY <1>2, ClonedIs
    <3> QED
      BY <3>1, NothingIsContent
  <2>4. seen \in [view : Contents, bank : 0 .. 1, command : Commands,
                  flashState : {"RAW", "START", "CONTINUE"}]
    <3> HIDE DEF Contents
    <3> QED
      BY <1>2, <2>3 DEF Visible, Machines
  <2> HIDE DEF state, seen, sram, Contents
  <2> QED
    BY <2>1, <2>2, <2>3, <2>4 DEF Slots
<1>6. savedata' \in Machines
  BY <1>4 DEF Ready
<1> QED
  BY <1>1, <1>4, <1>5, <1>6 DEF TypeInv, TypeOK, Machines, Slots

LEMMA TypeLoad ==
  ASSUME TypeInv, NEW writeback \in BOOLEAN, LoadState(writeback) PROVE TypeInv'
<1> DEFINE back == GBASavedataDeserialize(savedata, slot.state)
           restored == Restored(back, slot.sram, writeback)
<1>1. Sound /\ slot # Nil /\ savedata' \in AtAnyAge(restored) /\ Keeps /\ wrote' \in BOOLEAN /\ playing' = playing
  BY DEF LoadState
<1>2. slot \in Slots
  BY <1>1 DEF TypeInv, TypeOK
<1>3. /\ slot.state.type \in Types /\ slot.state.command \in Commands
      /\ slot.state.flashState \in {"RAW", "START", "CONTINUE"} /\ slot.state.flashBank \in 0 .. 1
      /\ slot.sram \in Contents
  BY <1>2 DEF Slots
<1>4. Ready(back)
  <2>1. Ready(savedata)
    BY <1>1, ReadyNow
  <2> QED
    BY <1>3, <2>1, DeserializeReady
<1> HIDE DEF back
<1>5. Ready(restored)
  BY <1>3, <1>4, RestoredReady
<1> HIDE DEF restored
<1>6. Ready(savedata')
  BY <1>1, <1>5, AnyAgeReady
<1>7. playing' \in BOOLEAN
  BY <1>1 DEF TypeInv, TypeOK
<1> QED
  BY <1>1, <1>6, <1>7, ReadyNext

LEMMA TypeEnd ==
  ASSUME TypeInv, GameStops \/ GBAUnloadROM \/ Finished \/ UNCHANGED vars PROVE TypeInv'
<1>1. CASE GBAUnloadROM
  <2> DEFINE plain == [savedata EXCEPT !.maskWriteback = FALSE]   unmasked == GBASavedataUnmask(plain)
             closed == GBASavedataDeinit(unmasked)
  <2>1. Sound /\ savedata' = [closed EXCEPT !.realVf = Nil] /\ Keeps /\ wrote' = FALSE /\ playing' = playing
    BY <1>1 DEF GBAUnloadROM
  <2>2. Ready(savedata) /\ savedata \in Machines
    BY <2>1, ReadyNow
  <2>3. Ready(plain)
    <3>1. plain = [savedata EXCEPT !.maskWriteback = FALSE]
      OBVIOUS
    <3> HIDE DEF plain
    <3> QED
      BY <2>2, <3>1, DisarmedIs DEF Ready, Fits
  <2> HIDE DEF plain
  <2>4. unmasked \in Machines
    BY <2>3, UnmaskFits DEF Ready
  <2> HIDE DEF unmasked
  <2>5. closed \in Machines /\ closed.vf = Nil
    BY <2>4, DeinitIs
  <2> HIDE DEF closed
  <2>6. savedata' \in Machines /\ savedata'.vf = Nil
    <3> HIDE DEF Contents
    <3> QED
      BY <2>1, <2>5 DEF Machines
  <2> QED
    BY <2>1, <2>6 DEF TypeInv, TypeOK, Sound, Keeps, Machines, Slots
<1>2. CASE GameStops \/ Finished \/ UNCHANGED vars
  BY <1>2 DEF GameStops, Finished, vars, TypeInv, TypeOK, Sound, Keeps, Machines, Slots, Ready, Fits
<1> QED
  BY <1>1, <1>2

\* The machine a game starts with.
LEMMA OpenedIs ==
  ASSUME NEW content \in Contents, NEW t, t = Opened(content)
  PROVE  /\ t \in Machines /\ t.type = "AUTODETECT" /\ t.data = "none" /\ t.vf = "save" /\ t.realVf = "save"
         /\ t.mapMode = "WRITE" /\ ~t.maskWriteback /\ t.command = "NONE" /\ t.flashState = "RAW"
         /\ t.dirty = {} /\ t.file["save"] = content /\ t.disk = content /\ t.currentBank = 0
<1> DEFINE none == {}   off == FALSE   empty == <<>>   zero == 0   auto == "AUTODETECT"
           file == [f \in Files |-> IF f = "save" THEN content ELSE empty]
           offset == [f \in Files |-> zero]
           s == [type |-> auto, vf |-> Nil, realVf |-> Nil, data |-> "none", copy |-> empty,
                 currentBank |-> zero, mapMode |-> "WRITE", maskWriteback |-> off, command |-> "NONE",
                 flashState |-> "RAW", dirty |-> none, age |-> zero,
                 file |-> file, offset |-> offset, disk |-> content]
<1>1. t = GBASavedataInit(s, "save")
  BY DEF Opened
<1>2. none \in SUBSET {"NEW", "SEEN"} /\ off \in BOOLEAN /\ empty \in Contents /\ zero \in 0 .. Threshold + 1
      /\ zero \in 0 .. 2 /\ zero \in {0, 1, Stale} /\ auto \in Types /\ "NONE" \in Commands
  BY SavedataAssumption, NothingIsContent DEF Types, Commands
<1>3. zero = 0
  OBVIOUS
<1> HIDE DEF none, off, empty, zero, auto, Contents
<1>4. file \in [Files -> Contents] /\ offset \in [Files -> 0 .. 2] /\ file["save"] = content
  BY <1>2 DEF Files
<1> HIDE DEF file, offset
<1>5. s \in Machines
  BY <1>2, <1>4 DEF Machines
<1>6. s.file = file /\ s.disk = content /\ s.currentBank = 0
  BY <1>3
<1> HIDE DEF s
<1>7. "save" \in Files \cup {Nil}
  BY DEF Files
<1> QED
  BY <1>1, <1>4, <1>5, <1>6, <1>7, InitIs

LEMMA StartIs ==
  ASSUME Init
  PROVE  /\ session \in Sessions
         /\ \E content \in Contents : /\ savedata = ResetSavedata(Opened(content)) /\ Ready(Opened(content))
                                      /\ session.size = Len(content)
<1>1. session \in Sessions
  BY DEF Init
<1>2. session.size \in 0 .. 2 /\ session.writes \subseteq Cells
  BY <1>1, SessionIs
<1>3. PICK content \in [1 .. session.size -> session.writes \cup {Erased}] :
        savedata = ResetSavedata(Opened(content))
  BY DEF Init
<1>4. content \in Contents /\ session.size = Len(content)
  <2>1. Erased \in Cells
    BY DEF Cells
  <2> DEFINE n == session.size
  <2>2. n \in 0 .. 2 /\ content \in [1 .. n -> Cells]
    BY <1>2, <1>3, <2>1
  <2> HIDE DEF n, Cells
  <2>3. content \in Seq(Cells) /\ Len(content) = n
    BY <2>2
  <2>4. content \in Contents
    BY <2>2, <2>3, IsContent
  <2> QED
    BY <2>3, <2>4 DEF n
<1>5. Ready(Opened(content))
  BY <1>4, OpenedIs DEF Ready, Fits, Files
<1> QED
  BY <1>1, <1>3, <1>4, <1>5

LEMMA TypeInit ==
  ASSUME Init PROVE TypeInv
<1>1. PICK content \in Contents : savedata = ResetSavedata(Opened(content)) /\ Ready(Opened(content))
  BY StartIs
<1>2. session \in Sessions /\ session.type \in Types
  BY SessionIs DEF Init
<1>3. Ready(savedata)
  BY <1>1, <1>2, ResetReady
<1> QED
  BY <1>2, <1>3 DEF TypeInv, TypeOK, Init, Ready

\* Whatever the game writes and whatever is loaded, masked and reset, the savedata keep
\* their types: a file, a copy of it and the clone in a savestate never exceed the two
\* cells of the largest chip, and no read or write of gba/savedata.c leaves them.
THEOREM SavedataTypes == Spec => []TypeOK
<1>1. Init => TypeInv
  BY TypeInit
<1>2. TypeInv /\ [Next]_vars => TypeInv'
  BY TypeGame, TypeFrame, TypeReset, TypeSave, TypeLoad, TypeEnd DEF Next
<1>3. TypeInv => TypeOK
  BY DEF TypeInv
<1> QED
  BY <1>1, <1>2, <1>3, PTL DEF Spec

-----------------------------------------------------------------------------
(* Savedata where no chip is given up while a mask is in use.                *)

\* GBASavedataForceType gives up a chip that is not the one it is asked for, and makes
\* the file in use the real one.  The first is only asked for by a state that was made
\* before the game told its chip; the second only matters while a mask is in use.
ChipIsKnown == session.forced \/ ~may("early")
MasksKeepTheirChip == ChipIsKnown \/ ~(may("load") \/ may("temp"))

OfGame(type) ==
    \/ type \in {"AUTODETECT", session.type}
    \/ type = "FLASH512" /\ session.type = "FLASH1M"

\* How a file is used and what is known of its chip, but for the order to write it back ...
Placed(s) ==
  /\ Ready(s) /\ s.realVf = "save"
  /\ s.mapMode = (IF s.vf = "save" THEN "WRITE" ELSE "READ")
  /\ s.type = "AUTODETECT" => s.data = "none"
  /\ s.type # "AUTODETECT" => s.data \in {"failed", MappedAs(s.vf, s.mapMode)}
  /\ s.data = "failed" => s.vf = "temp" /\ session.type = "FLASH1M" /\ ~session.forced
  /\ OfGame(s.type) /\ (session.forced => s.type = session.type)
  /\ s.type = "FLASH512" => s.currentBank = 0
\* ... which a savestate's has.
Settled(s) == Placed(s) /\ (s.maskWriteback <=> s.vf = "state")

\* The game has its save as before: it may be longer, on disk too.
Calm(s, t) == t.vf = s.vf /\ t.dirty = s.dirty /\ Grown(s, t)
\* The game has written.
Written(s, t) == t.vf = s.vf /\ t.dirty = s.dirty \cup {"NEW"}

LEMMA GrownKeeps ==
  ASSUME NEW s \in Machines, NEW t \in Machines, s.vf \in Files, Grown(s, t)
  PROVE  IsPrefix(s.file["save"], t.file["save"])
<1>1. s.file["save"] \in Contents /\ t.file["save"] \in Contents /\ "save" \in Files
  BY DEF Machines, Files
<1>2. Len(s.file["save"]) \in 0 .. 2
  BY <1>1, CellsIn
<1>3. CASE s.vf = "save"
  BY <1>1, <1>3, PrefixIs DEF Grown, Begins
<1>4. CASE s.vf # "save"
  <2>1. t.file["save"] = s.file["save"]
    BY <1>1, <1>4 DEF Grown
  <2> QED
    BY <1>1, <1>2, <2>1, PrefixIs
<1> QED
  BY <1>3, <1>4

LEMMA GrownSelf ==
  ASSUME NEW s \in Machines, s.vf \in Files, NEW t, t.file = s.file, t.disk = s.disk PROVE Grown(s, t)
<1>1. s.file[s.vf] \in Contents
  BY DEF Machines
<1> QED
  BY <1>1, CellsIn DEF Grown, Begins

LEMMA StandsSettled ==
  ASSUME NEW s, NEW t, Settled(s), Stands(s, t) PROVE Settled(t)
<1>1. Ready(t)
  BY StandsReady DEF Settled, Placed
<1> QED
  BY <1>1 DEF Settled, Placed, Stands

\* A chip told to a machine without one.
LEMMA ToldPlaced ==
  ASSUME NEW s, s.vf \in Files, s.realVf = "save", s.mapMode = (IF s.vf = "save" THEN "WRITE" ELSE "READ"),
         NEW t, NEW type \in Types, type # "AUTODETECT", OfGame(type), session.forced => type = session.type,
         Told(s, t, type)
  PROVE  Placed(t) /\ t.vf = s.vf /\ t.type = type /\ t.data # "failed"
<1>1. Ready(t) /\ t.vf = s.vf /\ t.realVf = s.realVf
  BY ToldFits DEF Files
<1>2. t.mapMode = s.mapMode /\ t.type = type /\ t.data = MappedAs(s.vf, s.mapMode)
      /\ (type = "FLASH512" => t.currentBank = 0)
  BY DEF Told, Rest, FlashTypes
<1>3. t.data # "failed"
  BY <1>2 DEF MappedAs
<1> QED
  BY <1>1, <1>2, <1>3 DEF Placed

LEMMA DetectedSettled ==
  ASSUME NEW s, Settled(s), session.type \in Types \ {"AUTODETECT"}, NEW t, t = Detected(s)
  PROVE  Settled(t) /\ t.type # "AUTODETECT" /\ Calm(s, t) /\ (s.type # "AUTODETECT" => t = s)
         /\ t.command = s.command /\ t.flashState = s.flashState
<1>1. s \in Machines /\ s.vf \in Files
  BY DEF Settled, Placed, Ready
<1>2. CASE s.type # "AUTODETECT"
  <2>1. t = s
    BY <1>2 DEF Detected
  <2> QED
    BY <1>1, <1>2, <2>1, GrownSelf DEF Calm
<1>3. CASE s.type = "AUTODETECT"
  <2> DEFINE type == IF session.type = "FLASH1M" THEN "FLASH512" ELSE session.type
  <2>1. Told(s, t, type)
    BY <1>1, <1>3, DetectedAs
  <2>2. type \in Types /\ type # "AUTODETECT" /\ OfGame(type) /\ ~session.forced
    BY <1>3 DEF Types, OfGame, Settled, Placed
  <2> HIDE DEF type
  <2>3. Placed(t) /\ t.vf = s.vf /\ t.type = type
    BY <1>1, <2>1, <2>2, ToldPlaced DEF Settled, Placed
  <2>4. t.maskWriteback = s.maskWriteback /\ t.dirty = s.dirty /\ Grown(s, t)
        /\ t.command = s.command /\ t.flashState = s.flashState
    BY <2>1 DEF Told, Rest
  <2> QED
    BY <1>3, <2>2, <2>3, <2>4 DEF Settled, Calm
<1> QED
  BY <1>2, <1>3

LEMMA StoreSettled ==
  ASSUME NEW s, Settled(s), NEW i, NEW c \in Cells, NEW t, t = Store(s, i, c)
  PROVE  Settled(t) /\ t.vf = s.vf /\ t.dirty = s.dirty /\ t.type = s.type
<1>1. s \in Machines /\ s.vf \in Files /\ Ready(s)
  BY DEF Settled, Placed, Ready
<1>2. Ready(t)
  BY <1>1, StoreReady
<1>3. Rest(s, t) /\ t.type = s.type /\ t.data = s.data /\ t.currentBank = s.currentBank /\ t.dirty = s.dirty
  BY <1>1, StoreIs
<1> QED
  BY <1>2, <1>3 DEF Settled, Placed, Rest

LEMMA EnsureSettled ==
  ASSUME NEW s, Settled(s), s.type # "AUTODETECT", NEW block \in 1 .. 2, NEW t, t = _ensureEeprom(s, block)
  PROVE  Settled(t) /\ t.type = s.type /\ Calm(s, t)
<1>1. s \in Machines /\ s.vf \in Files /\ Ready(s)
  BY DEF Settled, Placed, Ready
<1>2. CASE t = s
  BY <1>1, <1>2, GrownSelf DEF Calm
<1>3. CASE t # s
  <2>1. /\ Rest(s, t) /\ t.type = s.type /\ t.dirty = s.dirty /\ Grown(s, t)
        /\ t.data = MappedAs(s.vf, s.mapMode) /\ t.currentBank = s.currentBank
    BY <1>1, <1>3, EnsureIs
  <2>2. Ready(t)
    BY <1>1, EnsureReady
  <2>3. t.data # "failed"
    BY <2>1 DEF Settled, Placed, MappedAs
  <2> QED
    BY <2>1, <2>2, <2>3 DEF Settled, Placed, Calm, Rest
<1> QED
  BY <1>2, <1>3

\* The save that is growing into a second bank may not be mapped: a temporary one is
\* opened for reading only.
LEMMA SwitchBankSettled ==
  ASSUME NEW s, Settled(s), s.type # "AUTODETECT", NEW bank \in 0 .. 1, NEW moves \in BOOLEAN,
         s.type = "FLASH512" /\ bank = 1 => session.type = "FLASH1M",
         NEW t, t = _flashSwitchBank(s, bank, moves)
  PROVE  Settled(t) /\ t.type # "AUTODETECT" /\ Calm(s, t) /\ (s.type = "FLASH1M" => t.type = s.type)
<1>1. s \in Machines /\ s.vf \in Files /\ Ready(s)
  BY DEF Settled, Placed, Ready
<1>2. Ready(t)
  BY <1>1, SwitchBankReady
<1>3. /\ Rest(s, t) /\ t.dirty = s.dirty /\ Grown(s, t)
      /\ \/ /\ ~(bank = 1 /\ s.type = "FLASH512") /\ t.type = s.type /\ t.data = s.data
            /\ t.currentBank = bank
         \/ /\ bank = 1 /\ s.type = "FLASH512" /\ t.type = "FLASH1M"
            /\ t.data = MappedAs(s.vf, "WRITE")
  BY <1>1, SwitchBankIs
<1>4. Calm(s, t)
  BY <1>3 DEF Calm, Rest
<1>5. CASE ~(bank = 1 /\ s.type = "FLASH512") /\ t.type = s.type /\ t.data = s.data /\ t.currentBank = bank
  <2>1. t.type = "FLASH512" => t.currentBank = 0
    BY <1>5
  <2> QED
    BY <1>2, <1>3, <1>4, <1>5, <2>1 DEF Settled, Placed, Rest
<1>6. CASE bank = 1 /\ s.type = "FLASH512" /\ t.type = "FLASH1M" /\ t.data = MappedAs(s.vf, "WRITE")
  <2>1. session.type = "FLASH1M" /\ ~session.forced
    BY <1>6 DEF Settled, Placed
  <2>2. t.vf = s.vf /\ t.realVf = s.realVf /\ t.mapMode = s.mapMode /\ t.maskWriteback = s.maskWriteback
    BY <1>3 DEF Rest
  <2>3. t.data \in {"failed", MappedAs(t.vf, t.mapMode)} /\ (t.data = "failed" => t.vf = "temp")
    BY <1>6, <2>2 DEF Settled, Placed, Ready, MappedAs, Files
  <2> QED
    BY <1>2, <1>4, <1>6, <2>1, <2>2, <2>3 DEF Settled, Placed, OfGame
<1> QED
  BY <1>3, <1>5, <1>6

-----------------------------------------------------------------------------
(* What a game does to its save, and what it makes dirty.                    *)

\* t is s after an access to its save, which did or did not write.
Accessed(s, t, writes) ==
  /\ Settled(t) /\ t.type # "AUTODETECT" /\ (s.type = "FLASH1M" => t.type = "FLASH1M")
  /\ IF writes THEN Written(s, t) ELSE Calm(s, t)

LEMMA AccessedSelf ==
  ASSUME NEW s, Settled(s), s.type # "AUTODETECT" PROVE Accessed(s, s, FALSE)
BY GrownSelf DEF Accessed, Settled, Placed, Ready, Calm

LEMMA AccessedThen ==
  ASSUME NEW s, NEW t, NEW u, NEW writes \in BOOLEAN, Accessed(s, t, writes), Stands(t, u), u.dirty = t.dirty
  PROVE  Accessed(s, u, writes)
<1>1. Settled(u)
  BY StandsSettled DEF Accessed
<1> QED
  BY <1>1 DEF Accessed, Written, Calm, Grown, Stands

LEMMA ThenAccessed ==
  ASSUME NEW s, NEW t, NEW u, NEW writes \in BOOLEAN, Stands(s, t), t.dirty = s.dirty, Accessed(t, u, writes)
  PROVE  Accessed(s, u, writes)
BY DEF Accessed, Written, Calm, Grown, Stands

LEMMA CommandAccessed ==
  ASSUME NEW s, NEW t, NEW writes \in BOOLEAN, Accessed(s, t, writes), NEW command \in Commands,
         NEW state \in {"RAW", "START", "CONTINUE"}
  PROVE  /\ Accessed(s, [t EXCEPT !.command = command], writes)
         /\ Accessed(s, [t EXCEPT !.flashState = state], writes)
         /\ Accessed(s, Done(t), writes)
<1>1. t \in Machines /\ "NONE" \in Commands
  BY DEF Accessed, Settled, Placed, Ready, Commands
<1>2. /\ Stands(t, [t EXCEPT !.command = command]) /\ [t EXCEPT !.command = command].dirty = t.dirty
      /\ Stands(t, [t EXCEPT !.command = "NONE"]) /\ [t EXCEPT !.command = "NONE"].dirty = t.dirty
      /\ Stands(t, [t EXCEPT !.flashState = state]) /\ [t EXCEPT !.flashState = state].dirty = t.dirty
  BY <1>1, CommandedIs
<1>3. Done(t) = [t EXCEPT !.command = "NONE"]
  BY DEF Done
<1> DEFINE commanded == [t EXCEPT !.command = command]   stated == [t EXCEPT !.flashState = state]
           done == [t EXCEPT !.command = "NONE"]
<1>4. /\ Stands(t, commanded) /\ commanded.dirty = t.dirty /\ Stands(t, done) /\ done.dirty = t.dirty
      /\ Stands(t, stated) /\ stated.dirty = t.dirty
  BY <1>2
<1> HIDE DEF commanded, stated, done
<1>5. Accessed(s, commanded, writes) /\ Accessed(s, stated, writes) /\ Accessed(s, done, writes)
  BY <1>4, AccessedThen
<1> QED
  BY <1>3, <1>5 DEF commanded, stated, done

LEMMA DoneAccessed ==
  ASSUME NEW s, NEW t, NEW writes \in BOOLEAN, Accessed(s, t, writes) PROVE Accessed(s, Done(t), writes)
<1>1. "RAW" \in {"RAW", "START", "CONTINUE"} /\ "NONE" \in Commands
  BY DEF Commands
<1> QED
  BY <1>1, CommandAccessed

LEMMA DirtiedAccessed ==
  ASSUME NEW s, Settled(s), s.type # "AUTODETECT" PROVE Accessed(s, Dirtied(s), TRUE)
<1>1. s \in Machines
  BY DEF Settled, Placed, Ready
<1>2. Stands(s, Dirtied(s)) /\ Dirtied(s).dirty = s.dirty \cup {"NEW"}
  BY <1>1, DirtiedIs
<1>3. Settled(Dirtied(s))
  BY <1>2, StandsSettled
<1> QED
  BY <1>2, <1>3 DEF Accessed, Written, Stands

LEMMA StoreAccessed ==
  ASSUME NEW s, NEW t, Accessed(s, t, TRUE), NEW i, NEW c \in Cells PROVE Accessed(s, Store(t, i, c), TRUE)
<1> DEFINE u == Store(t, i, c)
<1>1. Settled(u) /\ u.vf = t.vf /\ u.dirty = t.dirty /\ u.type = t.type
  BY StoreSettled DEF Accessed
<1> HIDE DEF u
<1>2. Accessed(s, u, TRUE)
  BY <1>1 DEF Accessed, Written
<1> QED
  BY <1>2 DEF u

LEMMA StoreFlashAccessed ==
  ASSUME NEW s, Settled(s), s.type # "AUTODETECT", NEW address, NEW c \in Cells
  PROVE  Accessed(s, StoreFlash(s, address, c), TRUE)
BY DirtiedAccessed, StoreAccessed DEF StoreFlash

LEMMA EraseAccessed ==
  ASSUME NEW s, Settled(s), s.type # "AUTODETECT" PROVE Accessed(s, _flashErase(s), TRUE)
<1> DEFINE first == Store(Dirtied(s), 1, Erased)   both == Store(first, 2, Erased)
<1>1. Erased \in Cells
  BY DEF Cells
<1>2. Accessed(s, first, TRUE)
  BY <1>1, DirtiedAccessed, StoreAccessed
<1>3. Accessed(s, both, TRUE)
  <2> HIDE DEF first
  <2> QED
    BY <1>1, <1>2, StoreAccessed
<1>4. _flashErase(s) \in {first, both}
  BY DEF _flashErase
<1> QED
  BY <1>2, <1>3, <1>4

\* A program, a chip erase or a sector erase.
Writes(s, address, value) ==
  \/ s.flashState = "RAW" /\ s.command = "PROGRAM"
  \/ s.flashState = "CONTINUE" /\ s.command = "ERASE" /\ address = "HI" /\ value = "ERASE_CHIP"
  \/ s.flashState = "CONTINUE" /\ s.command = "ERASE" /\ address # "HI" /\ value = "ERASE_SECTOR"

LEMMA WriteFlashAccessed ==
  ASSUME NEW s, Settled(s), s.type # "AUTODETECT", NEW address, NEW value, NEW moves \in BOOLEAN,
         s.flashState = "RAW" /\ s.command = "PROGRAM" => value \in Cells,
         session.type = "FLASH512" => value # "BANK1"
  PROVE  Accessed(s, GBASavedataWriteFlash(s, address, value, moves), Writes(s, address, value))
<1> DEFINE raw == [s EXCEPT !.flashState = "RAW"]   writes == Writes(s, address, value)
<1>0. s \in Machines /\ Accessed(s, s, FALSE) /\ writes \in BOOLEAN
  BY AccessedSelf DEF Settled, Placed, Ready, Writes
<1>1. Accessed(s, raw, FALSE) /\ Stands(s, raw) /\ raw.dirty = s.dirty /\ raw.command = s.command
  BY <1>0, CommandAccessed, CommandedIs DEF Commands
<1>a. Settled(raw) /\ raw.type # "AUTODETECT"
  BY <1>1 DEF Accessed
<1> HIDE DEF writes
<1>2. ASSUME s.flashState = "RAW" PROVE Accessed(s, FlashRaw(s, address, value, moves), writes)
  <2>1. CASE s.command = "PROGRAM"
    <3>1. Accessed(s, StoreFlash(s, address, value), TRUE)
      BY <1>2, <2>1, StoreFlashAccessed
    <3>2. FlashRaw(s, address, value, moves) = Done(StoreFlash(s, address, value)) /\ (writes <=> TRUE)
      BY <1>2, <2>1 DEF FlashRaw, writes, Writes
    <3>3. writes = TRUE
      BY <1>0, <3>2
    <3> QED
      BY <3>1, <3>2, <3>3, DoneAccessed
  <2>2. CASE s.command = "SWITCH_BANK"
    <3> DEFINE bank == IF value = "BANK1" THEN 1 ELSE 0
    <3>1. Accessed(s, _flashSwitchBank(s, bank, moves), FALSE)
      <4> DEFINE t == _flashSwitchBank(s, bank, moves)
      <4>1. bank \in 0 .. 1 /\ (s.type = "FLASH512" /\ bank = 1 => session.type = "FLASH1M")
        BY DEF Settled, Placed, OfGame
      <4> HIDE DEF bank
      <4>2. Settled(t) /\ t.type # "AUTODETECT" /\ Calm(s, t) /\ (s.type = "FLASH1M" => t.type = s.type)
        BY <4>1, SwitchBankSettled
      <4> HIDE DEF t
      <4>3. Accessed(s, t, FALSE)
        BY <4>2 DEF Accessed
      <4> QED
        BY <4>3 DEF t
    <3>2. FlashRaw(s, address, value, moves) \in {Done(s), Done(_flashSwitchBank(s, bank, moves))}
      BY <2>2 DEF FlashRaw
    <3> HIDE DEF bank
    <3>3. writes = FALSE
      BY <1>0, <1>2, <2>2 DEF writes, Writes
    <3>4. Accessed(s, Done(s), FALSE) /\ Accessed(s, Done(_flashSwitchBank(s, bank, moves)), FALSE)
      BY <1>0, <3>1, DoneAccessed
    <3> QED
      BY <3>2, <3>3, <3>4
  <2>3. CASE s.command \notin {"PROGRAM", "SWITCH_BANK"}
    <3>1. Accessed(s, [s EXCEPT !.flashState = "START"], FALSE)
      BY <1>0, CommandAccessed DEF Commands
    <3>2. FlashRaw(s, address, value, moves) \in {s, [s EXCEPT !.flashState = "START"]}
      BY <2>3 DEF FlashRaw
    <3>3. writes = FALSE
      BY <1>0, <1>2, <2>3 DEF writes, Writes
    <3> QED
      BY <1>0, <3>1, <3>2, <3>3
  <2> QED
    BY <2>1, <2>2, <2>3
<1>3. ASSUME s.flashState = "START"
      PROVE  Accessed(s, IF address = "LO" /\ value = "CONTINUE" THEN [s EXCEPT !.flashState = "CONTINUE"] ELSE raw, writes)
  <2>1. Accessed(s, [s EXCEPT !.flashState = "CONTINUE"], FALSE)
    BY <1>0, CommandAccessed DEF Commands
  <2>2. writes = FALSE
    BY <1>0, <1>3 DEF writes, Writes
  <2> QED
    BY <1>1, <2>1, <2>2
<1>4. ASSUME s.flashState = "CONTINUE", address = "HI" PROVE Accessed(s, FlashCommand(raw, value), writes)
  <2> HIDE DEF raw
  <2>1. CASE s.command = "ERASE" /\ value = "ERASE_CHIP"
    <3>1. FlashCommand(raw, value) = Done(_flashErase(raw))
      BY <1>1, <2>1 DEF FlashCommand
    <3>2. writes = TRUE
      BY <1>0, <1>4, <2>1 DEF writes, Writes
    <3>3. Accessed(raw, Done(_flashErase(raw)), TRUE)
      BY <1>a, EraseAccessed, DoneAccessed
    <3> QED
      BY <1>1, <3>1, <3>2, <3>3, ThenAccessed
  <2>2. CASE ~(s.command = "ERASE" /\ value = "ERASE_CHIP")
    <3>1. \/ FlashCommand(raw, value) \in {raw, Done(raw)}
          \/ value \in Commands /\ FlashCommand(raw, value) = [raw EXCEPT !.command = value]
      BY <1>1, <2>2 DEF FlashCommand
    <3>2. writes = FALSE
      BY <1>0, <1>4, <2>2 DEF writes, Writes
    <3>3. Accessed(s, Done(raw), FALSE)
      BY <1>1, DoneAccessed
    <3>4. ASSUME value \in Commands PROVE Accessed(s, [raw EXCEPT !.command = value], FALSE)
      BY <1>1, <3>4, CommandAccessed
    <3> QED
      BY <1>1, <3>1, <3>2, <3>3, <3>4
  <2> QED
    BY <2>1, <2>2
<1>5. ASSUME s.flashState = "CONTINUE", address # "HI"
      PROVE  Accessed(s, IF s.command = "ERASE" /\ value = "ERASE_SECTOR"
                         THEN Done(StoreFlash(raw, address, Erased)) ELSE raw, writes)
  <2> HIDE DEF raw
  <2>1. Accessed(raw, StoreFlash(raw, address, Erased), TRUE)
    BY <1>a, StoreFlashAccessed DEF Cells
  <2>2. Accessed(raw, Done(StoreFlash(raw, address, Erased)), TRUE)
    BY <2>1, DoneAccessed
  <2>3. Accessed(s, Done(StoreFlash(raw, address, Erased)), TRUE)
    BY <1>1, <2>2, ThenAccessed
  <2>4. writes <=> s.command = "ERASE" /\ value = "ERASE_SECTOR"
    BY <1>5 DEF writes, Writes
  <2>5. CASE s.command = "ERASE" /\ value = "ERASE_SECTOR"
    <3>1. writes = TRUE
      BY <1>0, <2>4, <2>5
    <3> QED
      BY <2>3, <2>5, <3>1
  <2>6. CASE ~(s.command = "ERASE" /\ value = "ERASE_SECTOR")
    <3>1. writes = FALSE
      BY <1>0, <2>4, <2>6
    <3> QED
      BY <1>1, <2>6, <3>1
  <2> QED
    BY <2>5, <2>6
<1>6. s.flashState \in {"RAW", "START", "CONTINUE"}
  BY <1>0 DEF Machines
<1>7. Accessed(s, GBASavedataWriteFlash(s, address, value, moves), writes)
  <2> HIDE DEF raw
  <2>1. CASE s.flashState = "RAW"
    BY <1>2, <2>1 DEF GBASavedataWriteFlash
  <2>2. CASE s.flashState = "START"
    BY <1>3, <2>2 DEF GBASavedataWriteFlash, raw
  <2>3. CASE s.flashState = "CONTINUE" /\ address = "HI"
    BY <1>4, <2>3 DEF GBASavedataWriteFlash, raw
  <2>4. CASE s.flashState = "CONTINUE" /\ address # "HI"
    BY <1>5, <2>4 DEF GBASavedataWriteFlash, raw
  <2> QED
    BY <1>6, <2>1, <2>2, <2>3, <2>4
<1> QED
  BY <1>7 DEF writes

LEMMA UndirtiedIs ==
  ASSUME NEW s \in Machines, NEW t, t = Undirtied(s)
  PROVE  Stands(s, t) /\ t.dirty = {} /\ t.command = s.command /\ t.flashState = s.flashState
<1> DEFINE none == {}
<1>1. t = [s EXCEPT !.dirty = none] /\ none \in SUBSET {"NEW", "SEEN"} /\ none = {}
  BY DEF Undirtied
<1> HIDE DEF none, Contents
<1>2. t \in Machines /\ t.dirty = none
  BY <1>1 DEF Machines
<1> QED
  BY <1>1, <1>2 DEF Machines, Stands

\* What the history variable looks at.
LEMMA WritesShow ==
  ASSUME NEW s, Settled(s), s.type # "AUTODETECT", NEW address, NEW value, NEW moves \in BOOLEAN,
         s.flashState = "RAW" /\ s.command = "PROGRAM" => value \in Cells,
         session.type = "FLASH512" => value # "BANK1"
  PROVE  GBASavedataWriteFlash(Undirtied(s), address, value, moves).dirty # {} <=> Writes(s, address, value)
<1> DEFINE clean == Undirtied(s)   t == GBASavedataWriteFlash(clean, address, value, moves)
<1>1. s \in Machines
  BY DEF Settled, Placed, Ready
<1>2. Stands(s, clean) /\ clean.dirty = {} /\ clean.command = s.command /\ clean.flashState = s.flashState
  BY <1>1, UndirtiedIs
<1>3. Settled(clean) /\ clean.type # "AUTODETECT"
  BY <1>2, StandsSettled DEF Stands
<1> HIDE DEF clean
<1>4. Accessed(clean, t, Writes(clean, address, value))
  BY <1>2, <1>3, WriteFlashAccessed
<1> HIDE DEF t
<1>5. Writes(clean, address, value) <=> Writes(s, address, value)
  BY <1>2 DEF Writes
<1>6. t.dirty # {} <=> Writes(s, address, value)
  BY <1>2, <1>4, <1>5 DEF Accessed, Written, Calm
<1> QED
  BY <1>6 DEF t, clean

LEMMA WriteEEPROMAccessed ==
  ASSUME NEW s, Settled(s), s.type # "AUTODETECT", NEW block \in 1 .. 2, NEW c \in Cells
  PROVE  Accessed(s, GBASavedataWriteEEPROM(s, block, c), TRUE)
<1> DEFINE long == _ensureEeprom(s, block)   t == GBASavedataWriteEEPROM(s, block, c)
<1>1. Settled(long) /\ long.type = s.type /\ Calm(s, long)
  BY EnsureSettled
<1>2. t = Store(Dirtied(long), block, c)
  BY DEF GBASavedataWriteEEPROM
<1> HIDE DEF long, t
<1>3. Accessed(long, t, TRUE)
  BY <1>1, <1>2, DirtiedAccessed, StoreAccessed
<1>4. Accessed(s, t, TRUE)
  BY <1>1, <1>3 DEF Accessed, Written, Calm
<1> QED
  BY <1>4 DEF t

-----------------------------------------------------------------------------
(* Masks, resets and savestates.                                             *)

LEMMA MaskSettled ==
  ASSUME NEW s, Placed(s), NEW vf \in {"temp", "state"}, NEW content \in Contents,
         NEW writeback \in BOOLEAN, writeback <=> vf = "state",
         NEW t, t = GBASavedataMask(s, vf, content, writeback)
  PROVE  /\ Settled(t) /\ t.vf = vf /\ t.type = s.type /\ t.dirty = s.dirty /\ t.data # "failed"
         /\ t.file["save"] = s.file["save"] /\ t.command = s.command /\ t.flashState = s.flashState
         /\ Len(t.file[vf]) >= Len(content)
         /\ s.type # "AUTODETECT" /\ Len(content) >= Need(s.type) => Mapped(t) = content /\ t.file[vf] = content
<1>0. s \in Machines /\ s.vf \in Files /\ s.realVf \in Files /\ s.realVf = "save" /\ s.type \in Types
      /\ "save" \in Files /\ vf \in Files /\ vf # "save"
  BY DEF Placed, Ready, Machines, Files
<1> HIDE DEF Contents
<1>1. PICK u \in Machines :
        /\ t = GBASavedataForceType(u, s.type)
        /\ u.type = "AUTODETECT" /\ u.data = "none" /\ u.vf = vf /\ u.realVf = s.realVf
        /\ u.mapMode = "READ" /\ (u.maskWriteback <=> writeback)
        /\ u.command = s.command /\ u.flashState = s.flashState
        /\ u.currentBank = s.currentBank /\ u.dirty = s.dirty
        /\ u.file[vf] = content
        /\ \A f \in Files : f # vf /\ ~(f = s.vf /\ s.vf # s.realVf) => u.file[f] = s.file[f]
  BY <1>0, MaskIs
<1>2. u.file["save"] = s.file["save"]
  BY <1>0, <1>1
<1>3. Ready(u)
  BY <1>0, <1>1 DEF Ready, Fits
<1>4. CASE s.type = "AUTODETECT"
  <2>1. t = u
    BY <1>0, <1>1, <1>4, ForceTypeIs
  <2>2. Placed(t)
    BY <1>0, <1>1, <1>3, <1>4, <2>1 DEF Placed
  <2>3. Len(t.file[vf]) >= Len(content)
    BY <1>1, <2>1, CellsIn
  <2> QED
    BY <1>1, <1>2, <1>4, <2>1, <2>2, <2>3 DEF Settled
<1>5. CASE s.type # "AUTODETECT"
  <2>1. Told(u, t, s.type)
    BY <1>0, <1>1, <1>5, ForceTypeIs
  <2>2. Placed(t) /\ t.vf = vf /\ t.type = s.type /\ t.data # "failed"
    <3>1. u.mapMode = (IF u.vf = "save" THEN "WRITE" ELSE "READ") /\ OfGame(s.type)
          /\ (session.forced => s.type = session.type)
      BY <1>0, <1>1 DEF Placed
    <3> QED
      BY <1>0, <1>1, <1>5, <2>1, <3>1, ToldPlaced
  <2>3. t.file["save"] = s.file["save"]
    BY <1>0, <1>1, <1>2, <2>1 DEF Told, Grown
  <2>4. t.maskWriteback = u.maskWriteback /\ t.dirty = s.dirty /\ t.command = s.command /\ t.flashState = s.flashState
    BY <1>1, <2>1 DEF Told, Rest
  <2>5. ASSUME Len(content) >= Need(s.type) PROVE Mapped(t) = content /\ t.file[vf] = content
    <3>1. t.file = u.file
      BY <1>1, <2>1, <2>5 DEF Told
    <3> QED
      BY <1>1, <2>1, <2>2, <3>1 DEF Told, Mapped
  <2>6. Len(t.file[vf]) >= Len(content)
    <3>1. Len(content) \in 0 .. 2 /\ Len(t.file[vf]) \in 0 .. 2
      BY <1>0, <2>2, CellsIn DEF Placed, Ready, Machines
    <3> QED
      BY <1>1, <2>1, <3>1 DEF Told, Grown, Begins
  <2> QED
    BY <1>1, <2>2, <2>3, <2>4, <2>5, <2>6 DEF Settled
<1> QED
  BY <1>4, <1>5

\* What a mask that is written back leaves in the real save.
Returned(s, t) ==
  \E real \in Machines :
    /\ real.type = s.type /\ real.vf = "save" /\ real.data = "shared" /\ t.data = "shared"
    /\ Begins(s.file["save"], real.file["save"]) /\ Len(real.file["save"]) >= Need(s.type)
    /\ Len(s.file["save"]) >= Need(s.type) => real.file["save"] = s.file["save"]
    /\ t.file["save"] = Over(real.file["save"], Fitting(real, s.file[s.vf]))
    /\ s.type \in FlashTypes => t.currentBank = 0

LEMMA UnmaskSettled ==
  ASSUME NEW s, Placed(s), s.vf # "save", NEW t, t = GBASavedataUnmask(s)
  PROVE  /\ Settled(t) /\ t.vf = "save" /\ t.type = s.type /\ t.dirty = s.dirty /\ t.data # "failed"
         /\ t.command = s.command /\ t.flashState = s.flashState
         /\ ~s.maskWriteback => IsPrefix(s.file["save"], t.file["save"])
         /\ s.maskWriteback /\ s.type # "AUTODETECT" => Returned(s, t)
<1>0. s \in Machines /\ s.vf \in Files /\ s.realVf \in Files /\ s.realVf = "save" /\ s.type \in Types
      /\ "save" \in Files /\ s.file[s.vf] \in Contents
  BY DEF Placed, Ready, Machines, Files
<1> HIDE DEF Contents
<1>1. PICK u, real, loaded :
        /\ u \in Machines /\ real = GBASavedataForceType(u, s.type)
        /\ u.type = "AUTODETECT" /\ u.data = "none" /\ u.vf = s.realVf /\ u.realVf = s.realVf
        /\ u.mapMode = "WRITE" /\ (u.maskWriteback <=> s.maskWriteback)
        /\ u.command = s.command /\ u.flashState = s.flashState
        /\ u.currentBank = s.currentBank /\ u.dirty = s.dirty /\ u.disk = s.disk /\ u.file = s.file
        /\ Unmasked(s, real, loaded, t)
  BY <1>0, UnmaskIs
<1>2. Ready(u)
  BY <1>0, <1>1 DEF Ready, Fits
<1>3. /\ Placed(real) /\ real.vf = "save" /\ real.type = s.type /\ real.data # "failed"
      /\ real.dirty = s.dirty /\ (real.maskWriteback <=> s.maskWriteback)
      /\ real.command = s.command /\ real.flashState = s.flashState
      /\ Begins(s.file["save"], real.file["save"])
      /\ s.type # "AUTODETECT" =>
           /\ real.data = "shared" /\ Len(real.file["save"]) >= Need(s.type)
           /\ Len(s.file["save"]) >= Need(s.type) => real.file["save"] = s.file["save"]
           /\ s.type \in FlashTypes => real.currentBank = 0
  <2>1. CASE s.type = "AUTODETECT"
    <3>1. real = u
      BY <1>0, <1>1, <2>1, ForceTypeIs
    <3>2. Placed(real)
      BY <1>0, <1>1, <1>2, <2>1, <3>1 DEF Placed
    <3>3. Begins(s.file["save"], real.file["save"])
      BY <1>0, <1>1, <3>1, GrownSelf DEF Grown
    <3> QED
      BY <1>0, <1>1, <2>1, <3>1, <3>2, <3>3
  <2>2. CASE s.type # "AUTODETECT"
    <3>1. Told(u, real, s.type)
      BY <1>0, <1>1, <2>2, ForceTypeIs
    <3>2. Placed(real) /\ real.vf = u.vf /\ real.type = s.type /\ real.data # "failed"
      <4>1. u.mapMode = (IF u.vf = "save" THEN "WRITE" ELSE "READ") /\ OfGame(s.type)
            /\ (session.forced => s.type = session.type)
        BY <1>0, <1>1 DEF Placed
      <4> QED
        BY <1>0, <1>1, <2>2, <3>1, <4>1, ToldPlaced
    <3>3. real.data = "shared"
      BY <1>0, <1>1, <3>1 DEF Told, MappedAs
    <3>4. real.maskWriteback = u.maskWriteback /\ real.dirty = s.dirty /\ real.command = s.command
          /\ real.flashState = s.flashState
      BY <1>1, <3>1 DEF Told, Rest
    <3>5. /\ Begins(s.file["save"], real.file["save"]) /\ Len(real.file["save"]) >= Need(s.type)
          /\ Len(s.file["save"]) >= Need(s.type) => real.file["save"] = s.file["save"]
          /\ s.type \in FlashTypes => real.currentBank = 0
      BY <1>0, <1>1, <3>1 DEF Told, Grown
    <3> QED
      BY <1>0, <1>1, <3>2, <3>3, <3>4, <3>5
  <2> QED
    BY <2>1, <2>2
<1>4. real \in Machines /\ real.vf \in Files /\ Ready(real)
  BY <1>3 DEF Placed, Ready
<1>5. Ready(t)
  <2>1. Ready(s)
    BY DEF Placed
  <2> QED
    BY <2>1, UnmaskFits
<1> DEFINE load == GBASavedataLoad(real, s.file[s.vf])
<1>6. /\ load.type = real.type /\ load.data = real.data /\ load.vf = real.vf /\ load.realVf = real.realVf
      /\ load.mapMode = real.mapMode /\ load.command = real.command
      /\ load.flashState = real.flashState /\ load.currentBank = real.currentBank
      /\ load.dirty = real.dirty
      /\ real.data = "shared" => Mapped(load) = Over(Mapped(real), Fitting(real, s.file[s.vf]))
  BY <1>0, <1>4, LoadIs
<1>7. loaded = IF s.maskWriteback THEN load ELSE real
  BY <1>1 DEF Unmasked
<1> HIDE DEF load
<1>8. /\ t.type = real.type /\ t.data = real.data /\ t.vf = real.vf /\ t.realVf = real.realVf
      /\ t.mapMode = real.mapMode /\ t.command = real.command
      /\ t.flashState = real.flashState /\ t.currentBank = real.currentBank
      /\ t.dirty = real.dirty /\ ~t.maskWriteback /\ t.file["save"] = loaded.file["save"]
  BY <1>0, <1>1, <1>3, <1>6, <1>7 DEF Unmasked
<1>9. Settled(t)
  BY <1>3, <1>5, <1>8 DEF Settled, Placed
<1>10. ASSUME ~s.maskWriteback PROVE IsPrefix(s.file["save"], t.file["save"])
  <2>1. t.file["save"] = real.file["save"]
    BY <1>7, <1>8, <1>10
  <2>2. s.file["save"] \in Contents /\ real.file["save"] \in Contents
    BY <1>0, <1>4 DEF Machines
  <2>3. IsPrefix(s.file["save"], real.file["save"])
    BY <1>3, <2>2, PrefixIs DEF Begins
  <2> QED
    BY <2>1, <2>3
<1>11. ASSUME s.maskWriteback, s.type # "AUTODETECT" PROVE Returned(s, t)
  <2>1. real.data = "shared" /\ load.data = "shared" /\ loaded = load /\ load.vf = "save"
    BY <1>3, <1>6, <1>7, <1>11
  <2>2. Mapped(load) = load.file["save"] /\ Mapped(real) = real.file["save"]
    BY <1>3, <2>1 DEF Mapped
  <2>3. t.file["save"] = Over(real.file["save"], Fitting(real, s.file[s.vf]))
    BY <1>6, <1>8, <2>1, <2>2
  <2>4. /\ real.type = s.type /\ real.vf = "save" /\ t.data = "shared"
        /\ Begins(s.file["save"], real.file["save"]) /\ Len(real.file["save"]) >= Need(s.type)
        /\ Len(s.file["save"]) >= Need(s.type) => real.file["save"] = s.file["save"]
        /\ s.type \in FlashTypes => t.currentBank = 0
    BY <1>3, <1>8, <1>11
  <2> QED
    BY <1>4, <2>1, <2>3, <2>4 DEF Returned
<1> QED
  BY <1>3, <1>8, <1>9, <1>10, <1>11

\* What a reset leaves of a machine whose type has been forced.
LEMMA DisarmedSettled ==
  ASSUME NEW s, Placed(s), NEW t, t = GBASavedataUnmask([s EXCEPT !.maskWriteback = FALSE])
  PROVE  /\ Settled(t) /\ t.vf = "save" /\ t.type = s.type /\ t.dirty = s.dirty /\ t.data # "failed"
         /\ IsPrefix(s.file["save"], t.file["save"])
         /\ s.vf = "save" => t.file = s.file /\ t.disk = s.disk
<1> DEFINE plain == [s EXCEPT !.maskWriteback = FALSE]
<1>0. s \in Machines /\ s.vf \in Files
  BY DEF Placed, Ready
<1>1. /\ plain \in Machines /\ plain.type = s.type /\ plain.vf = s.vf /\ plain.realVf = s.realVf /\ plain.data = s.data
      /\ plain.copy = s.copy /\ plain.currentBank = s.currentBank /\ plain.mapMode = s.mapMode
      /\ ~plain.maskWriteback /\ plain.file = s.file /\ plain.disk = s.disk /\ plain.dirty = s.dirty
  BY <1>0, DisarmedIs
<1> HIDE DEF plain
<1>2. Placed(plain)
  BY <1>1 DEF Placed, Ready, Fits
<1>3. t = GBASavedataUnmask(plain)
  BY DEF plain
<1>4. CASE s.vf = "save"
  <2>1. t = plain
    BY <1>1, <1>2, <1>3, <1>4 DEF GBASavedataUnmask, Placed
  <2>2. IsPrefix(s.file["save"], t.file["save"])
    BY <1>0, <1>1, <2>1, GrownSelf, GrownKeeps
  <2>3. t.data # "failed"
    BY <1>2, <1>4, <1>1, <2>1 DEF Placed
  <2> QED
    BY <1>1, <1>2, <1>4, <2>1, <2>2, <2>3 DEF Settled
<1>5. CASE s.vf # "save"
  BY <1>1, <1>2, <1>3, <1>5, UnmaskSettled
<1> QED
  BY <1>4, <1>5

LEMMA ResetSettled ==
  ASSUME NEW s, Settled(s), session.type \in Types, NEW t, t = ResetSavedata(s)
  PROVE  /\ Settled(t) /\ t.vf = "save" /\ t.type = s.type /\ t.dirty = s.dirty /\ t.data # "failed"
         /\ IsPrefix(s.file["save"], t.file["save"])
         /\ s.vf = "save" => t.file = s.file /\ t.disk = s.disk
<1>1. Overridden(s) = s
  BY ForceTypeIs DEF Overridden, Settled, Placed, Ready
<1>2. t = GBASavedataUnmask([s EXCEPT !.maskWriteback = FALSE])
  BY <1>1 DEF ResetSavedata
<1> QED
  BY <1>2, DisarmedSettled DEF Settled

\* Before a state is loaded its chip is told, where it is not the one in use.
LEMMA DeserializeSettled ==
  ASSUME NEW s, Settled(s), NEW state, state.type \in Types, state.command \in Commands,
         state.flashState \in {"RAW", "START", "CONTINUE"}, state.flashBank \in 0 .. 1,
         OfGame(state.type), state.type = s.type \/ (s.vf = "save" /\ ~session.forced),
         NEW t, t = GBASavedataDeserialize(s, state)
  PROVE  /\ Settled(t) /\ t.vf = s.vf /\ t.type = state.type /\ t.dirty \subseteq s.dirty
         /\ IsPrefix(s.file["save"], t.file["save"])
         /\ state.type = s.type => t.file = s.file /\ t.data = s.data /\ t.copy = s.copy
         /\ t.command = state.command /\ t.flashState = state.flashState
         /\ t.type = "FLASH1M" => t.currentBank = state.flashBank
<1> DEFINE forced == GBASavedataForceType(s, state.type)
           running == [forced EXCEPT !.command = state.command]
           typed == [running EXCEPT !.flashState = state.flashState]
           switched == _flashSwitchBank(typed, state.flashBank, FALSE)
<1>0. s \in Machines /\ s.vf \in Files
  BY DEF Settled, Placed, Ready
<1>1. /\ Settled(forced) /\ forced.vf = s.vf /\ forced.type = state.type /\ forced.dirty \subseteq s.dirty
      /\ IsPrefix(s.file["save"], forced.file["save"])
      /\ state.type = s.type => forced.file = s.file /\ forced.data = s.data /\ forced.copy = s.copy
  <2>1. CASE state.type = s.type
    <3>1. forced = s
      BY <1>0, <2>1, ForceTypeIs
    <3>2. IsPrefix(s.file["save"], s.file["save"])
      BY <1>0, GrownSelf, GrownKeeps
    <3> QED
      BY <2>1, <3>1, <3>2
  <2>2. CASE state.type # s.type
    <3>0. s.vf = "save" /\ ~session.forced /\ s.realVf = "save" /\ s.mapMode = "WRITE" /\ ~s.maskWriteback
      BY <2>2 DEF Settled, Placed
    <3>1. PICK u : /\ u \in Machines /\ u.type = "AUTODETECT" /\ u.data = "none" /\ u.vf = "save" /\ u.realVf = "save"
                   /\ u.mapMode = "WRITE" /\ ~u.maskWriteback /\ u.dirty \subseteq s.dirty /\ u.file = s.file
                   /\ (forced = u /\ state.type = "AUTODETECT") \/ (Told(u, forced, state.type) /\ state.type # "AUTODETECT")
      <4>1. CASE s.type = "AUTODETECT"
        <5>1. Told(s, forced, state.type) /\ state.type # "AUTODETECT" /\ s.data = "none"
          BY <1>0, <2>2, <4>1, ForceTypeIs DEF Settled, Placed
        <5> QED
          BY <1>0, <3>0, <4>1, <5>1
      <4>2. CASE s.type # "AUTODETECT"
        <5>1. PICK u : /\ Blank(s, u)
                       /\ (forced = u /\ state.type = "AUTODETECT") \/ (Told(u, forced, state.type) /\ state.type # "AUTODETECT")
          BY <1>0, <2>2, <4>2, ForceTypeIs
        <5> QED
          BY <3>0, <5>1 DEF Blank
      <4> QED
        BY <4>1, <4>2
    <3>2. CASE forced = u /\ state.type = "AUTODETECT"
      <4>1. Ready(forced)
        BY <3>1, <3>2 DEF Ready, Fits, Files
      <4>2. Placed(forced)
        BY <3>0, <3>1, <3>2, <4>1 DEF Placed
      <4>3. IsPrefix(s.file["save"], s.file["save"])
        BY <1>0, GrownSelf, GrownKeeps
      <4> QED
        BY <2>2, <3>0, <3>1, <3>2, <4>2, <4>3 DEF Settled
    <3>3. CASE Told(u, forced, state.type) /\ state.type # "AUTODETECT"
      <4>1. Placed(forced) /\ forced.vf = u.vf /\ forced.type = state.type
        <5>1. u.vf \in Files /\ u.mapMode = (IF u.vf = "save" THEN "WRITE" ELSE "READ")
          BY <3>1 DEF Files
        <5> QED
          BY <3>0, <3>1, <3>3, <5>1, ToldPlaced
      <4>2. forced.maskWriteback = u.maskWriteback /\ forced.dirty = u.dirty
        BY <3>3 DEF Told, Rest
      <4>3. Grown(u, forced) /\ forced \in Machines /\ "save" \in Files
        BY <3>3 DEF Told, Files
      <4>4. IsPrefix(u.file["save"], forced.file["save"])
        BY <3>1, <4>3, GrownKeeps
      <4>5. forced.vf = s.vf /\ forced.dirty \subseteq s.dirty /\ ~forced.maskWriteback
        BY <3>0, <3>1, <4>1, <4>2
      <4>6. Settled(forced)
        BY <3>0, <4>1, <4>5 DEF Settled
      <4>7. IsPrefix(s.file["save"], forced.file["save"])
        BY <3>1, <4>4
      <4> QED
        BY <2>2, <4>1, <4>5, <4>6, <4>7
    <3> QED
      BY <3>1, <3>2, <3>3
  <2> QED
    BY <2>1, <2>2
<1>2. t = IF typed.type = "FLASH1M" THEN switched ELSE typed
  BY DEF GBASavedataDeserialize
<1> HIDE DEF forced
<1>3. Stands(forced, running) /\ running.dirty = forced.dirty /\ running.command = state.command
  BY <1>1, CommandedIs DEF Settled, Placed, Ready
<1> HIDE DEF running
<1>4. Stands(running, typed) /\ typed.dirty = forced.dirty /\ typed.command = state.command /\ typed.flashState = state.flashState
  <2>1. running \in Machines /\ "NONE" \in Commands
    BY <1>3 DEF Stands, Commands
  <2>2. Stands(running, typed) /\ typed.dirty = running.dirty /\ typed.command = running.command
        /\ typed.flashState = state.flashState
    BY <2>1, CommandedIs
  <2> QED
    BY <1>3, <2>2
<1> HIDE DEF typed
<1>5. /\ Settled(typed) /\ typed.vf = s.vf /\ typed.type = state.type /\ typed.dirty \subseteq s.dirty
      /\ typed.file = forced.file /\ typed.data = forced.data /\ typed.copy = forced.copy
  <2>1. Settled(running)
    BY <1>1, <1>3, StandsSettled
  <2>2. Settled(typed)
    BY <1>4, <2>1, StandsSettled
  <2> QED
    BY <1>1, <1>3, <1>4, <2>2 DEF Stands
<1>6. CASE typed.type # "FLASH1M"
  BY <1>1, <1>2, <1>4, <1>5, <1>6
<1>7. CASE typed.type = "FLASH1M"
  <2>1. typed \in Machines /\ typed.vf \in Files /\ t = switched
    BY <1>2, <1>5, <1>7 DEF Settled, Placed, Ready
  <2>2. Settled(t)
    BY <1>5, <1>7, <2>1, SwitchBankSettled
  <2>3. /\ Rest(typed, t) /\ t.dirty = typed.dirty /\ t.type = typed.type /\ t.data = typed.data /\ t.copy = typed.copy
        /\ t.file = typed.file /\ t.currentBank = state.flashBank
    <3>1. t = _flashSwitchBank(typed, state.flashBank, FALSE) /\ FALSE \in BOOLEAN
      BY <2>1
    <3> DEFINE bank == state.flashBank   still == FALSE
    <3>2. t = _flashSwitchBank(typed, bank, still) /\ still \in BOOLEAN /\ bank \in 0 .. 1
      BY <3>1
    <3>4. typed \in Machines /\ typed.vf \in Files
      BY <2>1
    <3> HIDE DEF bank, still
    <3>3. /\ Rest(typed, t) /\ t.dirty = typed.dirty
          /\ \/ /\ t.type = typed.type /\ t.data = typed.data /\ t.copy = typed.copy
                /\ t.file = typed.file /\ t.currentBank = bank
             \/ typed.type = "FLASH512"
      BY ONLY <3>2, <3>4, SwitchBankIs
    <3> QED
      BY <1>7, <3>3 DEF bank
  <2>4. t.vf = typed.vf /\ t.command = typed.command /\ t.flashState = typed.flashState
    BY <2>3 DEF Rest
  <2> QED
    BY <1>1, <1>4, <1>5, <2>2, <2>3, <2>4
<1> QED
  BY <1>6, <1>7

LEMMA LoadSettled ==
  ASSUME NEW s, Settled(s), NEW content \in Contents, NEW t, t = GBASavedataLoad(s, content)
  PROVE  /\ Settled(t) /\ t.vf = s.vf /\ t.type = s.type /\ t.dirty = s.dirty /\ t.data = s.data
         /\ t.command = s.command /\ t.flashState = s.flashState /\ t.currentBank = s.currentBank
<1>1. Ready(s) /\ s \in Machines /\ s.vf \in Files
  BY DEF Settled, Placed, Ready
<1>2. Ready(t)
  BY <1>1, LoadFits
<1>3. /\ t.type = s.type /\ t.data = s.data /\ t.vf = s.vf /\ t.realVf = s.realVf
      /\ t.mapMode = s.mapMode /\ t.maskWriteback = s.maskWriteback /\ t.command = s.command
      /\ t.flashState = s.flashState /\ t.currentBank = s.currentBank /\ t.dirty = s.dirty
  BY <1>1, LoadIs
<1> QED
  BY <1>2, <1>3 DEF Settled, Placed

\* The end of a frame leaves a save that is in use by itself, or writes a state back.
LEMMA CleanSettled ==
  ASSUME NEW s, Settled(s), NEW t, t = GBASavedataClean(s)
  PROVE  /\ Settled(t) /\ t.type = s.type
         /\ \/ /\ Stands(s, t) /\ t.command = s.command /\ t.flashState = s.flashState
               /\ t.dirty = (IF "NEW" \in s.dirty THEN {"SEEN"} ELSE s.dirty)
            \/ t = s /\ s.vf = "temp"
            \/ /\ s.vf = "save" /\ t.vf = "save" /\ t.data = s.data /\ t.file = s.file /\ t.copy = s.copy
               /\ t.currentBank = s.currentBank /\ t.command = s.command /\ t.flashState = s.flashState
               /\ t.disk = IF t.data = "shared" THEN t.file["save"] ELSE s.disk
            \/ /\ s.vf = "state" /\ t.vf = "save" /\ s.dirty = {"SEEN"}
               /\ t.command = s.command /\ t.flashState = s.flashState
               /\ s.type # "AUTODETECT" => Returned(s, t) /\ t.disk = t.file["save"]
<1> DEFINE real == IF s.maskWriteback THEN GBASavedataUnmask(s) ELSE s
<1>0. s \in Machines /\ s.vf \in Files /\ Ready(s)
  BY DEF Settled, Placed, Ready
<1>1. s.vf # "state" => real = s
  BY DEF Settled
<1>2. s.vf = "state" => real = GBASavedataUnmask(s)
  BY DEF Settled
<1>3. real = IF s.maskWriteback THEN GBASavedataUnmask(s) ELSE s
  OBVIOUS
<1> HIDE DEF real
<1>4. s.vf = "state" =>
        /\ Settled(real) /\ real.vf = "save" /\ real.type = s.type /\ real.data # "failed"
        /\ real.command = s.command /\ real.flashState = s.flashState
        /\ s.type # "AUTODETECT" => Returned(s, real)
  BY <1>2, UnmaskSettled DEF Settled
<1>5. Settled(real) /\ real.type = s.type
  BY <1>0, <1>1, <1>4
<1>6. real \in Machines /\ (real.mapMode = "READ" <=> real.vf # "save") /\ (real.vf # "save" => real.vf = "temp" \/ real.vf = "state")
  BY <1>5 DEF Settled, Placed, Ready, Files
<1>7. \/ Stands(s, t) /\ t.command = s.command /\ t.flashState = s.flashState
            /\ t.dirty = (IF "NEW" \in s.dirty THEN {"SEEN"} ELSE s.dirty)
      \/ t = real /\ real.mapMode = "READ" /\ s.dirty = {"SEEN"}
      \/ /\ s.dirty = {"SEEN"} /\ real.mapMode # "READ" /\ t \in Machines
         /\ t.type = real.type /\ t.vf = real.vf /\ t.realVf = real.realVf /\ t.data = real.data
         /\ t.copy = real.copy /\ t.currentBank = real.currentBank /\ t.mapMode = real.mapMode
         /\ (t.maskWriteback <=> real.maskWriteback) /\ t.file = real.file
         /\ t.command = real.command /\ t.flashState = real.flashState
         /\ t.disk = IF real.data = "shared" /\ real.vf = "save" THEN real.file["save"] ELSE real.disk
  BY <1>0, <1>3, <1>6, CleanIs
<1>8. CASE Stands(s, t) /\ t.command = s.command /\ t.flashState = s.flashState
            /\ t.dirty = (IF "NEW" \in s.dirty THEN {"SEEN"} ELSE s.dirty)
  BY <1>8, StandsSettled DEF Stands
<1>9. CASE t = real /\ real.mapMode = "READ"
  <2>1. s.vf # "state" /\ t = s /\ s.vf = "temp"
    BY <1>1, <1>4, <1>6, <1>9
  <2> QED
    BY <2>1
<1>10. CASE /\ s.dirty = {"SEEN"} /\ real.mapMode # "READ" /\ t \in Machines
            /\ t.type = real.type /\ t.vf = real.vf /\ t.realVf = real.realVf /\ t.data = real.data
            /\ t.copy = real.copy /\ t.currentBank = real.currentBank /\ t.mapMode = real.mapMode
            /\ (t.maskWriteback <=> real.maskWriteback) /\ t.file = real.file
            /\ t.command = real.command /\ t.flashState = real.flashState
            /\ t.disk = IF real.data = "shared" /\ real.vf = "save" THEN real.file["save"] ELSE real.disk
  <2>1. Settled(t)
    BY <1>5, <1>10 DEF Settled, Placed, Ready, Fits
  <2>2. real.vf = "save"
    BY <1>6, <1>10
  <2>3. CASE s.vf = "save"
    BY <1>1, <1>10, <2>1, <2>3
  <2>4. CASE s.vf = "state"
    <3>1. ASSUME s.type # "AUTODETECT" PROVE Returned(s, t) /\ t.disk = t.file["save"]
      <4>1. Returned(s, real)
        BY <1>4, <2>4, <3>1
      <4>2. t.data = real.data /\ t.file = real.file /\ t.currentBank = real.currentBank
        BY <1>10
      <4>3. Returned(s, t)
        BY <4>1, <4>2 DEF Returned
      <4>4. t.data = "shared"
        BY <4>3 DEF Returned
      <4> QED
        BY <1>10, <2>2, <4>3, <4>4
    <3> QED
      BY <1>4, <1>5, <1>10, <2>1, <2>2, <2>4, <3>1
  <2>5. s.vf = "save" \/ s.vf = "state"
    BY <1>1, <2>2
  <2> QED
    BY <2>3, <2>4, <2>5
<1> QED
  BY <1>7, <1>8, <1>9, <1>10

-----------------------------------------------------------------------------
(* Every step of a session in which masks keep their chip.                   *)

\* A save in use is settled, and so is the chip of a state.
Known ==
  /\ TypeInv /\ MasksKeepTheirChip
  /\ slot # Nil => OfGame(slot.state.type) /\ (ChipIsKnown => slot.state.type = session.type)
  /\ savedata.vf = Nil => savedata.data = "none"
  /\ savedata.vf # Nil =>
       /\ Settled(savedata)
       /\ ChipIsKnown /\ (slot # Nil \/ savedata.vf = "state") => savedata.type = session.type
       /\ savedata.vf = "temp" => may("temp")
       /\ savedata.vf = "state" => may("load")

LEMMA KnownNow ==
  ASSUME Known, Sound
  PROVE  /\ Settled(savedata) /\ savedata \in Machines /\ savedata.vf \in Files /\ session \in Sessions
         /\ session.type \in Types \ {"AUTODETECT"} /\ session.writes \subseteq Cells
         /\ savedata.data # "failed" /\ savedata.currentBank \in 0 .. 1
<1>1. session \in Sessions
  BY DEF Known, TypeInv, TypeOK
<1> QED
  BY <1>1, SessionIs DEF Known, TypeInv, TypeOK, Sound, Settled, Placed, Ready, Machines

\* What an operation has to leave that is not a savestate's being made.
LEMMA KnownNext ==
  ASSUME Known, TypeInv', Keeps, Settled(savedata'),
         ChipIsKnown /\ (slot # Nil \/ savedata'.vf = "state") => savedata'.type = session.type,
         savedata'.vf = "temp" => may("temp"),
         savedata'.vf = "state" => may("load")
  PROVE  Known'
<1>1. slot' = slot /\ session' = session
  BY DEF Keeps
<1>2. Settled(savedata)' <=> Settled(savedata')
  BY <1>1 DEF Settled, Placed, OfGame, Ready, Fits, Machines
<1>3. (ChipIsKnown' <=> ChipIsKnown) /\ (MasksKeepTheirChip' <=> MasksKeepTheirChip) /\ (may("temp")' <=> may("temp"))
      /\ (may("load")' <=> may("load"))
  BY <1>1 DEF ChipIsKnown, MasksKeepTheirChip, may
<1>4. savedata'.vf # Nil
  BY SavedataAssumption DEF Settled, Placed, Ready
<1>5. slot # Nil => OfGame(slot.state.type)' /\ (ChipIsKnown => slot.state.type = session.type)
  BY <1>1 DEF Known, OfGame
<1> QED
  BY <1>1, <1>2, <1>3, <1>4, <1>5 DEF Known

LEMMA GrownTwice ==
  ASSUME NEW s \in Machines, NEW t \in Machines, NEW u \in Machines, s.vf \in Files,
         Calm(s, t), Calm(t, u)
  PROVE  Calm(s, u)
<1>1. s.file[s.vf] \in Contents /\ t.file[s.vf] \in Contents /\ u.file[s.vf] \in Contents
  BY DEF Machines
<1>2. Len(s.file[s.vf]) \in Nat /\ Len(t.file[s.vf]) \in Nat /\ Len(u.file[s.vf]) \in Nat
  BY <1>1, CellsIn
<1>3. Begins(s.file[s.vf], u.file[s.vf])
  <2> DEFINE a == s.file[s.vf]   b == t.file[s.vf]   c == u.file[s.vf]
  <2>1. Begins(a, b) /\ Begins(b, c)
    BY DEF Calm, Grown
  <2>2. Len(a) \in Nat /\ Len(b) \in Nat /\ Len(c) \in Nat
    BY <1>2
  <2> HIDE DEF a, b, c
  <2>3. Begins(a, c)
    BY ONLY <2>1, <2>2 DEF Begins
  <2> QED
    BY <2>3 DEF a, c
<1>4. t.vf = s.vf /\ u.vf = s.vf /\ u.dirty = s.dirty
  BY DEF Calm
<1>5. \A f \in Files \ {s.vf} : u.file[f] = s.file[f]
  BY <1>4 DEF Calm, Grown
<1>6. (s.vf # "save" => u.disk = s.disk) /\ (s.disk = s.file["save"] => u.disk = u.file["save"])
  BY <1>4 DEF Calm, Grown
<1> QED
  BY <1>3, <1>4, <1>5, <1>6 DEF Calm, Grown

\* What a game does: it writes, which shows, or its save stays as it is.
Plays ==
  /\ savedata'.vf = savedata.vf /\ savedata'.type # "AUTODETECT" /\ savedata' \in Machines
  /\ \/ savedata'.dirty = savedata.dirty \cup {"NEW"} /\ wrote'
     \/ Calm(savedata, savedata') /\ (wrote' <=> wrote)

LEMMA KnownGame ==
  ASSUME Known, WriteSRAM \/ WriteFlash \/ WriteEEPROM \/ ReadEEPROM PROVE Known' /\ Plays
<1> DEFINE told == Detected(savedata)
<1>1. Sound /\ Keeps
  BY DEF WriteSRAM, WriteFlash, WriteEEPROM, ReadEEPROM, Played
<1>2. /\ Settled(savedata) /\ savedata \in Machines /\ savedata.vf \in Files
      /\ session.type \in Types \ {"AUTODETECT"} /\ session.writes \subseteq Cells
  BY <1>1, KnownNow
<1>3. /\ Settled(told) /\ told.type # "AUTODETECT" /\ Calm(savedata, told)
      /\ told.command = savedata.command /\ told.flashState = savedata.flashState
      /\ savedata.type # "AUTODETECT" => told = savedata
  BY <1>2, DetectedSettled
<1>4. TypeInv'
  BY TypeGame DEF Known
<1> HIDE DEF told
<1>5. ASSUME NEW writes \in BOOLEAN, Accessed(told, savedata', writes),
             wrote' <=> wrote \/ writes
      PROVE  Known' /\ Plays
  <2>1. /\ Settled(savedata') /\ savedata'.type # "AUTODETECT" /\ savedata'.vf = savedata.vf
        /\ savedata' \in Machines /\ told \in Machines
        /\ told.type = "FLASH1M" => savedata'.type = "FLASH1M"
    BY <1>3, <1>5 DEF Accessed, Written, Calm, Settled, Placed, Ready
  <2>2. Known'
    <3>1. savedata.vf # Nil
      BY <1>1 DEF Sound
    <3>2. ASSUME ChipIsKnown, slot # Nil \/ savedata'.vf = "state" PROVE savedata'.type = session.type
      <4>1. savedata.type = session.type /\ told = savedata
        BY <1>2, <1>3, <2>1, <3>1, <3>2 DEF Known
      <4>2. OfGame(savedata'.type)
        BY <2>1 DEF Settled, Placed
      <4> QED
        BY <2>1, <4>1, <4>2 DEF OfGame
    <3>3. /\ savedata'.vf = "temp" => may("temp")
          /\ savedata'.vf = "state" => may("load")
      BY <2>1, <3>1 DEF Known
    <3> QED
      BY <1>1, <1>4, <2>1, <3>2, <3>3, KnownNext
  <2>3. CASE writes
    <3>1. savedata'.dirty = told.dirty \cup {"NEW"}
      BY <1>5, <2>3 DEF Accessed, Written
    <3>2. told.dirty = savedata.dirty
      BY <1>3 DEF Calm
    <3>3. wrote'
      BY <1>5, <2>3
    <3> QED
      BY <2>1, <2>2, <3>1, <3>2, <3>3 DEF Plays
  <2>4. CASE ~writes
    <3>0. wrote' <=> wrote
      BY <1>5, <2>4
    <3>1. Calm(told, savedata')
      BY <1>5, <2>4 DEF Accessed
    <3>2. Calm(savedata, savedata')
      <4>1. savedata \in Machines /\ savedata.vf \in Files /\ Calm(savedata, told)
        BY <1>2, <1>3
      <4>2. savedata' \in Machines /\ told \in Machines
        BY <2>1
      <4> QED
        BY ONLY <3>1, <4>1, <4>2, GrownTwice
    <3> QED
      BY ONLY <2>1, <2>2, <3>0, <3>2 DEF Plays
  <2> QED
    BY <2>2, <2>3, <2>4
<1>6. CASE WriteSRAM
  <2>1. PICK c \in session.writes : savedata' = Store(Dirtied(told), 1, c)
    BY <1>6 DEF WriteSRAM, told, Played
  <2>2. Accessed(told, Store(Dirtied(told), 1, c), TRUE)
    BY <1>2, <1>3, DirtiedAccessed, StoreAccessed
  <2>3. Accessed(told, savedata', TRUE)
    BY <2>1, <2>2
  <2>4. wrote'
    BY <1>6 DEF WriteSRAM
  <2> DEFINE writes == TRUE
  <2>5. writes \in BOOLEAN /\ Accessed(told, savedata', writes) /\ (wrote' <=> wrote \/ writes)
    BY <2>3, <2>4
  <2> HIDE DEF writes
  <2> QED
    BY <1>5, <2>5
<1>7. CASE WriteFlash
  <2>1. PICK address \in Addresses, value \in Bytes, moves \in BOOLEAN :
          /\ savedata.flashState = "RAW" /\ savedata.command = "PROGRAM" => value \in session.writes
          /\ session.type = "FLASH512" => value # "BANK1"
          /\ savedata' = GBASavedataWriteFlash(told, address, value, moves)
          /\ wrote' = (wrote \/ GBASavedataWriteFlash(Undirtied(told), address, value, moves).dirty # {})
    BY <1>7 DEF WriteFlash, told, Played
  <2> DEFINE writes == Writes(told, address, value)
  <2>2. told.flashState = "RAW" /\ told.command = "PROGRAM" => value \in Cells
    BY <1>2, <1>3, <2>1
  <2>3. Accessed(told, GBASavedataWriteFlash(told, address, value, moves), writes)
    BY <1>3, <2>1, <2>2, WriteFlashAccessed
  <2>4. GBASavedataWriteFlash(Undirtied(told), address, value, moves).dirty # {} <=> writes
    BY <1>3, <2>1, <2>2, WritesShow
  <2>5. writes \in BOOLEAN
    BY DEF Writes
  <2> HIDE DEF writes
  <2>6. Accessed(told, savedata', writes)
    BY <2>1, <2>3
  <2>7. wrote' <=> wrote \/ writes
    BY <2>1, <2>4
  <2> QED
    BY <1>5, <2>5, <2>6, <2>7
<1>8. CASE WriteEEPROM
  <2>1. PICK block \in 1 .. 2, c \in session.writes : savedata' = GBASavedataWriteEEPROM(told, block, c)
    BY <1>8 DEF WriteEEPROM, told, Played
  <2>2. Accessed(told, GBASavedataWriteEEPROM(told, block, c), TRUE)
    BY <1>2, <1>3, WriteEEPROMAccessed
  <2>3. Accessed(told, savedata', TRUE)
    BY <2>1, <2>2
  <2>4. wrote'
    BY <1>8 DEF WriteEEPROM
  <2> DEFINE writes == TRUE
  <2>5. writes \in BOOLEAN /\ Accessed(told, savedata', writes) /\ (wrote' <=> wrote \/ writes)
    BY <2>3, <2>4
  <2> HIDE DEF writes
  <2> QED
    BY <1>5, <2>5
<1>9. CASE ReadEEPROM
  <2>1. PICK block \in 1 .. 2 : savedata' = _ensureEeprom(told, block)
    BY <1>9 DEF ReadEEPROM, told, Played
  <2>2. Settled(savedata') /\ savedata'.type = told.type /\ Calm(told, savedata')
    BY <1>3, <2>1, EnsureSettled
  <2>3. Accessed(told, savedata', FALSE)
    BY <1>3, <2>2 DEF Accessed
  <2>4. wrote' = wrote
    BY <1>9 DEF ReadEEPROM
  <2> DEFINE writes == FALSE
  <2>5. writes \in BOOLEAN /\ Accessed(told, savedata', writes) /\ (wrote' <=> wrote \/ writes)
    BY <2>3, <2>4
  <2> HIDE DEF writes
  <2> QED
    BY <1>5, <2>5
<1> QED
  BY <1>6, <1>7, <1>8, <1>9

\* The end of a frame: the save is in use as before, or a state has been written back.
Ends ==
  /\ savedata' \in Machines /\ savedata'.type = savedata.type /\ (wrote' <=> wrote)
  /\ \/ /\ Stands(savedata, savedata') /\ savedata'.command = savedata.command
        /\ savedata'.flashState = savedata.flashState
        /\ savedata'.dirty = (IF "NEW" \in savedata.dirty THEN {"SEEN"} ELSE savedata.dirty)
     \/ Stands(savedata, savedata') /\ savedata'.command = savedata.command
        /\ savedata'.flashState = savedata.flashState /\ savedata.vf = "temp"
     \/ /\ savedata.vf = "save" /\ savedata'.vf = "save" /\ savedata'.data = savedata.data
        /\ savedata'.file = savedata.file /\ savedata'.copy = savedata.copy
        /\ savedata'.currentBank = savedata.currentBank
        /\ savedata'.command = savedata.command /\ savedata'.flashState = savedata.flashState
        /\ savedata'.data = "shared" => savedata'.disk = savedata'.file["save"]
     \/ /\ savedata.vf = "state" /\ savedata'.vf = "save" /\ savedata.dirty = {"SEEN"}
        /\ savedata'.command = savedata.command /\ savedata'.flashState = savedata.flashState
        /\ savedata.type # "AUTODETECT" => Returned(savedata, savedata') /\ savedata'.disk = savedata'.file["save"]

LEMMA StandsTwice ==
  ASSUME NEW s, NEW t, NEW u, Stands(s, t), Stands(t, u) PROVE Stands(s, u)
BY DEF Stands

LEMMA KnownFrame ==
  ASSUME Known, FrameEnded PROVE Known' /\ Ends
<1> DEFINE aged == Aged(savedata)
<1>1. Sound /\ Keeps /\ savedata' = GBASavedataClean(aged) /\ wrote' = wrote
  BY DEF FrameEnded
<1>2. Settled(savedata) /\ savedata \in Machines /\ savedata.vf # Nil
  BY <1>1, KnownNow DEF Sound
<1>3. Stands(savedata, aged) /\ aged.dirty = savedata.dirty /\ aged.command = savedata.command
      /\ aged.flashState = savedata.flashState
  BY <1>2, AgedIs
<1> HIDE DEF aged
<1>4. Settled(aged)
  BY <1>2, <1>3, StandsSettled
<1>5. /\ Settled(savedata') /\ savedata'.type = aged.type
      /\ \/ /\ Stands(aged, savedata') /\ savedata'.command = aged.command /\ savedata'.flashState = aged.flashState
            /\ savedata'.dirty = (IF "NEW" \in aged.dirty THEN {"SEEN"} ELSE aged.dirty)
         \/ savedata' = aged /\ aged.vf = "temp"
         \/ /\ aged.vf = "save" /\ savedata'.vf = "save" /\ savedata'.data = aged.data /\ savedata'.file = aged.file
            /\ savedata'.copy = aged.copy
            /\ savedata'.currentBank = aged.currentBank /\ savedata'.command = aged.command
            /\ savedata'.flashState = aged.flashState
            /\ savedata'.disk = IF savedata'.data = "shared" THEN savedata'.file["save"] ELSE aged.disk
         \/ /\ aged.vf = "state" /\ savedata'.vf = "save" /\ aged.dirty = {"SEEN"}
            /\ savedata'.command = aged.command /\ savedata'.flashState = aged.flashState
            /\ aged.type # "AUTODETECT" => Returned(aged, savedata') /\ savedata'.disk = savedata'.file["save"]
  BY <1>1, <1>4, CleanSettled
<1>6. savedata' \in Machines
  BY <1>5 DEF Settled, Placed, Ready
<1>7. TypeInv'
  BY TypeFrame DEF Known
<1>8. Known'
  <2>1. savedata'.vf \in {savedata.vf, "save"} /\ savedata'.type = savedata.type
    BY <1>3, <1>5 DEF Stands
  <2>2. /\ ChipIsKnown /\ (slot # Nil \/ savedata'.vf = "state") => savedata'.type = session.type
        /\ savedata'.vf = "temp" => may("temp")
        /\ savedata'.vf = "state" => may("load")
    BY <1>2, <2>1 DEF Known
  <2> QED
    BY <1>1, <1>5, <1>7, <2>2, KnownNext
<1>9. Ends
  <2>1. Returned(aged, savedata') => Returned(savedata, savedata')
    BY <1>3 DEF Returned, Fitting, Stands
  <2>2. savedata'.type = savedata.type /\ (wrote' <=> wrote)
    BY <1>1, <1>3, <1>5 DEF Stands
  <2>3. CASE /\ Stands(aged, savedata') /\ savedata'.command = aged.command /\ savedata'.flashState = aged.flashState
             /\ savedata'.dirty = (IF "NEW" \in aged.dirty THEN {"SEEN"} ELSE aged.dirty)
    <3>1. Stands(savedata, savedata')
      BY <1>3, <2>3, StandsTwice
    <3> QED
      BY <1>3, <1>6, <2>2, <2>3, <3>1 DEF Ends
  <2>4. CASE savedata' = aged /\ aged.vf = "temp"
    <3>1. Stands(savedata, savedata')
      BY <1>3, <2>4
    <3> QED
      BY <1>3, <1>6, <2>2, <2>4, <3>1 DEF Ends, Stands
  <2>5. CASE /\ aged.vf = "save" /\ savedata'.vf = "save" /\ savedata'.data = aged.data /\ savedata'.file = aged.file
             /\ savedata'.copy = aged.copy
             /\ savedata'.currentBank = aged.currentBank /\ savedata'.command = aged.command
             /\ savedata'.flashState = aged.flashState
             /\ savedata'.disk = IF savedata'.data = "shared" THEN savedata'.file["save"] ELSE aged.disk
    BY <1>3, <1>6, <2>2, <2>5 DEF Ends, Stands
  <2>6. CASE /\ aged.vf = "state" /\ savedata'.vf = "save" /\ aged.dirty = {"SEEN"}
             /\ savedata'.command = aged.command /\ savedata'.flashState = aged.flashState
             /\ aged.type # "AUTODETECT" => Returned(aged, savedata') /\ savedata'.disk = savedata'.file["save"]
    BY <1>3, <1>6, <2>1, <2>2, <2>6 DEF Ends, Stands
  <2> QED
    BY <1>5, <2>3, <2>4, <2>5, <2>6
<1> QED
  BY <1>8, <1>9

\* The save is in use itself again, as it was or as a mask found it.
Resets ==
  /\ savedata'.vf = "save" /\ savedata'.dirty = savedata.dirty /\ savedata'.type = savedata.type
  /\ IsPrefix(savedata.file["save"], savedata'.file["save"])
  /\ savedata.vf = "save" => savedata'.file = savedata.file /\ savedata'.disk = savedata.disk

LEMMA KnownReset ==
  ASSUME Known, GBAReset PROVE Known' /\ Resets
<1> DEFINE reset == ResetSavedata(savedata)
<1>1. Sound /\ Keeps /\ savedata' \in AtAnyAge(reset)
  BY DEF GBAReset
<1>2. Settled(savedata) /\ session.type \in Types /\ savedata.vf # Nil
  BY <1>1, KnownNow DEF Sound
<1>3. /\ Settled(reset) /\ reset.vf = "save" /\ reset.type = savedata.type /\ reset.dirty = savedata.dirty
      /\ IsPrefix(savedata.file["save"], reset.file["save"])
      /\ savedata.vf = "save" => reset.file = savedata.file /\ reset.disk = savedata.disk
  BY <1>2, ResetSettled
<1> HIDE DEF reset
<1>4. Stands(reset, savedata') /\ savedata'.dirty = reset.dirty
  BY <1>1, <1>3, AtAnyAgeIs DEF Settled, Placed, Ready
<1>5. Settled(savedata')
  BY <1>3, <1>4, StandsSettled
<1>6. TypeInv'
  BY TypeReset DEF Known
<1>7. Resets
  BY <1>3, <1>4 DEF Stands, Resets
<1>8. ChipIsKnown /\ (slot # Nil \/ savedata'.vf = "state") => savedata'.type = session.type
  BY <1>2, <1>7 DEF Known, Resets
<1>9. savedata'.vf # "temp" /\ savedata'.vf # "state"
  BY <1>7 DEF Resets
<1> QED
  BY <1>1, <1>5, <1>6, <1>7, <1>8, <1>9, KnownNext

LEMMA KnownTemp ==
  ASSUME Known, loadTemporarySave
  PROVE  /\ Known' /\ savedata'.vf = "temp" /\ ~wrote' /\ Len(savedata'.file["temp"]) >= 2
         /\ IsPrefix(savedata.file["save"], savedata'.file["save"])
<1> DEFINE reset == ResetSavedata(savedata)
<1>1. PICK c \in session.writes : savedata' \in AtAnyAge(GBASavedataMask(reset, "temp", <<c, c>>, FALSE))
  BY DEF loadTemporarySave
<1>a. Sound /\ Keeps /\ may("temp") /\ ~wrote'
  BY DEF loadTemporarySave
<1>2. Settled(savedata) /\ session.type \in Types /\ savedata.vf # Nil /\ session.writes \subseteq Cells
  BY <1>a, KnownNow DEF Sound
<1>3. Settled(reset) /\ reset.type = savedata.type /\ IsPrefix(savedata.file["save"], reset.file["save"])
  BY <1>2, ResetSettled
<1> HIDE DEF reset
<1> DEFINE off == FALSE   content == <<c, c>>   masked == GBASavedataMask(reset, "temp", content, off)
<1>4. off \in BOOLEAN /\ (off <=> "temp" = "state") /\ content \in Contents /\ "temp" \in {"temp", "state"}
      /\ Placed(reset) /\ Len(content) = 2
  BY <1>1, <1>2, <1>3 DEF Contents, Settled
<1>5. savedata' \in AtAnyAge(masked)
  BY <1>1
<1> HIDE DEF off, content
<1>6. /\ Settled(masked) /\ masked.vf = "temp" /\ masked.type = reset.type
      /\ masked.file["save"] = reset.file["save"] /\ Len(masked.file["temp"]) >= Len(content)
  BY <1>4, MaskSettled
<1> HIDE DEF masked
<1>7. Stands(masked, savedata')
  BY <1>5, <1>6, AtAnyAgeIs DEF Settled, Placed, Ready
<1>8. Settled(savedata')
  BY <1>6, <1>7, StandsSettled
<1>9. TypeInv'
  BY TypeReset DEF Known
<1>10. savedata'.vf = "temp" /\ savedata'.type = savedata.type /\ savedata'.file["save"] = reset.file["save"]
       /\ Len(savedata'.file["temp"]) >= 2
  BY <1>3, <1>4, <1>6, <1>7 DEF Stands
<1>11. ChipIsKnown /\ (slot # Nil \/ savedata'.vf = "state") => savedata'.type = session.type
  BY <1>2, <1>10, SavedataAssumption DEF Known
<1>12. Known'
  BY <1>a, <1>8, <1>9, <1>10, <1>11, KnownNext
<1> QED
  BY <1>3, <1>a, <1>10, <1>12

\* A state is made without the save being touched.
LEMMA KnownSave ==
  ASSUME Known, SaveState
  PROVE  /\ Known' /\ Stands(savedata, savedata') /\ savedata'.dirty = savedata.dirty /\ (wrote' <=> wrote)
         /\ savedata'.command = savedata.command /\ savedata'.flashState = savedata.flashState
<1>1. /\ Sound /\ savedata' \in {savedata, ClonedFrom(savedata)} /\ wrote' = wrote /\ session' = session
      /\ savedata.type = session.type \/ may("early")
  BY DEF SaveState
<1>2. Settled(savedata) /\ savedata \in Machines /\ savedata.vf \in Files /\ savedata.vf # Nil
  BY <1>1, KnownNow DEF Sound
<1>3. Stands(savedata, savedata') /\ savedata'.dirty = savedata.dirty
      /\ savedata'.command = savedata.command /\ savedata'.flashState = savedata.flashState
  <2>1. CASE savedata' = savedata
    BY <1>2, <2>1 DEF Stands
  <2>2. CASE savedata' # savedata
    <3>1. savedata' = ClonedFrom(savedata)
      BY <1>1, <2>2
    <3> QED
      BY <1>2, <3>1, ClonedFromIs
  <2> QED
    BY <2>1, <2>2
<1>4. Settled(savedata')
  BY <1>2, <1>3, StandsSettled
<1>5. TypeInv'
  BY TypeSave DEF Known
<1>6. slot'.state.type = savedata.type
  BY DEF SaveState, GBASavedataSerialize
<1>7. ChipIsKnown => savedata.type = session.type
  BY <1>1, <1>2 DEF ChipIsKnown, Settled, Placed
<1>8. /\ Settled(savedata)' <=> Settled(savedata')
      /\ (ChipIsKnown' <=> ChipIsKnown) /\ (MasksKeepTheirChip' <=> MasksKeepTheirChip)
      /\ (may("temp")' <=> may("temp")) /\ (may("load")' <=> may("load"))
  BY <1>1 DEF Settled, Placed, OfGame, Ready, Fits, Machines, ChipIsKnown, MasksKeepTheirChip, may
<1>9. OfGame(slot.state.type)' /\ (ChipIsKnown => slot'.state.type = session'.type)
  BY <1>1, <1>2, <1>6, <1>7 DEF OfGame, Settled, Placed
<1>10. savedata'.vf = savedata.vf /\ savedata'.type = savedata.type
  BY <1>3 DEF Stands
<1> QED
  BY <1>1, <1>2, <1>3, <1>4, <1>5, <1>7, <1>8, <1>9, <1>10 DEF Known

\* The way back is open to a savestate's save only.
LEMMA MaskedSettled ==
  ASSUME NEW s, Placed(s), NEW vf \in {"temp", "state"}, NEW content \in Contents,
         NEW t, t = GBASavedataMask(s, vf, content, vf = "state")
  PROVE  /\ Settled(t) /\ t.vf = vf /\ t.type = s.type /\ t.dirty = s.dirty /\ t.data # "failed"
         /\ t.file["save"] = s.file["save"] /\ t.command = s.command /\ t.flashState = s.flashState
         /\ Len(t.file[vf]) >= Len(content)
         /\ s.type # "AUTODETECT" /\ Len(content) >= Need(s.type) => Mapped(t) = content /\ t.file[vf] = content
<1> DEFINE writeback == vf = "state"
<1>1. writeback \in BOOLEAN /\ (writeback <=> vf = "state") /\ t = GBASavedataMask(s, vf, content, writeback)
  OBVIOUS
<1> HIDE DEF writeback, Contents
<1> QED
  BY <1>1, MaskSettled

LEMMA RestoredSettled ==
  ASSUME NEW s, Settled(s), NEW content \in Contents, NEW writeback \in BOOLEAN,
         NEW t, t = Restored(s, content, writeback)
  PROVE  /\ Settled(t) /\ t.vf \in {s.vf, "state"} /\ t.type = s.type /\ t.dirty = s.dirty
         /\ writeback => t.vf = s.vf
         /\ ~writeback => t.file["save"] = s.file["save"]
         /\ t.command = s.command /\ t.flashState = s.flashState
<1> HIDE DEF Contents
<1>1. CASE content = <<>>
  BY <1>1 DEF Restored
<1>2. CASE content # <<>> /\ writeback
  <2>1. t = GBASavedataLoad(s, content)
    BY <1>2 DEF Restored
  <2>2. /\ Settled(t) /\ t.vf = s.vf /\ t.type = s.type /\ t.dirty = s.dirty
        /\ t.command = s.command /\ t.flashState = s.flashState
    BY ONLY Settled(s), content \in Contents, <2>1, LoadSettled
  <2>3. writeback
    BY <1>2
  <2> QED
    BY ONLY <2>2, <2>3
<1>3. CASE content # <<>> /\ ~writeback
  <2> DEFINE vf == "state"   masked == GBASavedataMask(s, vf, content, vf = "state")
  <2>1. t = masked
    BY <1>3 DEF Restored
  <2>2. content \in Contents /\ vf \in {"temp", "state"} /\ vf = "state" /\ Placed(s)
    BY DEF Settled
  <2> HIDE DEF vf
  <2>3. Settled(masked) /\ masked.vf = vf /\ masked.type = s.type /\ masked.dirty = s.dirty
        /\ masked.file["save"] = s.file["save"] /\ masked.command = s.command /\ masked.flashState = s.flashState
    BY <2>2, MaskedSettled
  <2> HIDE DEF masked
  <2>4. ~writeback
    BY <1>3
  <2> QED
    BY ONLY <2>1, <2>2, <2>3, <2>4
<1> QED
  BY <1>1, <1>2, <1>3

LEMMA KnownLoad ==
  ASSUME Known, NEW writeback \in BOOLEAN, LoadState(writeback)
  PROVE  /\ Known' /\ ~wrote' /\ savedata'.dirty \subseteq savedata.dirty
         /\ ~writeback => IsPrefix(savedata.file["save"], savedata'.file["save"])
<1> DEFINE back == GBASavedataDeserialize(savedata, slot.state)
           restored == Restored(back, slot.sram, writeback)
<1>1. /\ Sound /\ slot # Nil /\ savedata' \in AtAnyAge(restored) /\ Keeps /\ ~wrote'
      /\ ~writeback => may("load")
  BY DEF LoadState
<1>2. slot \in Slots
  BY <1>1 DEF Known, TypeInv, TypeOK
<1>3. /\ slot.state.type \in Types /\ slot.state.command \in Commands
      /\ slot.state.flashState \in {"RAW", "START", "CONTINUE"} /\ slot.state.flashBank \in 0 .. 1
      /\ slot.sram \in Contents
  BY <1>2 DEF Slots
<1>4. Settled(savedata) /\ savedata.vf # Nil /\ savedata.vf \in Files
  BY <1>1, KnownNow DEF Sound
<1>5. OfGame(slot.state.type) /\ (slot.state.type = savedata.type \/ (savedata.vf = "save" /\ ~session.forced))
  <2>1. CASE ChipIsKnown
    BY <1>1, <1>4, <2>1 DEF Known
  <2>2. CASE ~ChipIsKnown
    <3>1. ~session.forced /\ ~may("load") /\ ~may("temp")
      BY <2>2 DEF Known, ChipIsKnown, MasksKeepTheirChip
    <3> QED
      BY <1>1, <1>4, <3>1 DEF Known, Files
  <2> QED
    BY <2>1, <2>2
<1>6. /\ Settled(back) /\ back.vf = savedata.vf /\ back.type = slot.state.type /\ back.dirty \subseteq savedata.dirty
      /\ IsPrefix(savedata.file["save"], back.file["save"])
  BY <1>3, <1>4, <1>5, DeserializeSettled
<1> HIDE DEF back
<1>7. /\ Settled(restored) /\ restored.vf \in {back.vf, "state"} /\ restored.type = back.type
      /\ restored.dirty = back.dirty /\ (writeback => restored.vf = back.vf)
      /\ ~writeback => restored.file["save"] = back.file["save"]
  BY <1>3, <1>6, RestoredSettled
<1> HIDE DEF restored
<1>8. Stands(restored, savedata') /\ savedata'.dirty = restored.dirty
  BY <1>1, <1>7, AtAnyAgeIs DEF Settled, Placed, Ready
<1>9. Settled(savedata')
  BY <1>7, <1>8, StandsSettled
<1>10. TypeInv'
  BY TypeLoad DEF Known
<1>11. /\ savedata'.vf \in {savedata.vf, "state"} /\ (writeback => savedata'.vf = savedata.vf)
       /\ savedata'.type = slot.state.type
       /\ ~writeback => savedata'.file["save"] = back.file["save"]
  BY <1>6, <1>7, <1>8 DEF Stands
<1>12. /\ ChipIsKnown => savedata'.type = session.type
       /\ savedata'.vf = "temp" => may("temp")
       /\ savedata'.vf = "state" => may("load")
  BY <1>1, <1>4, <1>11 DEF Known
<1>13. Known'
  BY <1>1, <1>9, <1>10, <1>12, KnownNext
<1> QED
  BY <1>1, <1>6, <1>7, <1>8, <1>11, <1>13

LEMMA KnownEnd ==
  ASSUME Known, GBAUnloadROM
  PROVE  /\ Known' /\ savedata'.vf = Nil /\ ~wrote'
         /\ IsPrefix(savedata.file["save"], savedata'.file["save"])
<1> DEFINE unmasked == GBASavedataUnmask([savedata EXCEPT !.maskWriteback = FALSE])
           closed == GBASavedataDeinit(unmasked)
<1>1. Sound /\ savedata' = [closed EXCEPT !.realVf = Nil] /\ Keeps /\ ~wrote'
  BY DEF GBAUnloadROM
<1>2. Placed(savedata)
  BY <1>1, KnownNow DEF Settled
<1>3. unmasked \in Machines /\ IsPrefix(savedata.file["save"], unmasked.file["save"])
  BY <1>2, DisarmedSettled DEF Settled, Placed, Ready
<1> HIDE DEF unmasked
<1>4. closed \in Machines /\ closed.vf = Nil /\ closed.data = "none" /\ closed.file = unmasked.file
  BY <1>3, DeinitIs
<1> HIDE DEF closed
<1>5. savedata'.vf = Nil /\ savedata'.data = "none" /\ savedata'.file = unmasked.file
  <2> HIDE DEF Contents
  <2> QED
    BY <1>1, <1>4 DEF Machines
<1>6. TypeInv'
  BY TypeEnd DEF Known
<1>7. slot' = slot /\ session' = session
  BY <1>1 DEF Keeps
<1>8. /\ (ChipIsKnown' <=> ChipIsKnown) /\ (MasksKeepTheirChip' <=> MasksKeepTheirChip)
      /\ slot # Nil => OfGame(slot.state.type)' /\ (ChipIsKnown => slot.state.type = session.type)
  BY <1>7 DEF Known, ChipIsKnown, MasksKeepTheirChip, may, OfGame
<1>9. Known'
  BY <1>5, <1>6, <1>7, <1>8 DEF Known
<1> QED
  BY <1>1, <1>3, <1>5, <1>9

LEMMA KnownStill ==
  ASSUME Known, GameStops \/ Finished \/ UNCHANGED vars
  PROVE  Known' /\ savedata' = savedata /\ wrote' = wrote
<1>1. savedata' = savedata /\ slot' = slot /\ session' = session /\ wrote' = wrote
  BY DEF GameStops, Finished, vars, Keeps
<1>2. TypeInv'
  BY TypeEnd DEF Known
<1> QED
  BY <1>1, <1>2 DEF Known, ChipIsKnown, MasksKeepTheirChip, may, OfGame, Settled, Placed, Ready, Fits, Machines

LEMMA KnownInit ==
  ASSUME Init, MasksKeepTheirChip PROVE Known /\ savedata.vf = "save" /\ ~wrote
<1>1. PICK content \in Contents : savedata = ResetSavedata(Opened(content)) /\ Ready(Opened(content))
  BY StartIs
<1> DEFINE opened == Opened(content)   told == Overridden(opened)
<1>2. session \in Sessions /\ slot = Nil /\ ~wrote
  BY DEF Init
<1>3. session.type \in Types \ {"AUTODETECT"} /\ session.forced \in BOOLEAN
  BY <1>2, SessionIs
<1>4. /\ opened \in Machines /\ opened.type = "AUTODETECT" /\ opened.data = "none" /\ opened.vf = "save"
      /\ opened.realVf = "save" /\ opened.mapMode = "WRITE" /\ Ready(opened)
  BY <1>1, OpenedIs
<1>5. savedata = GBASavedataUnmask([told EXCEPT !.maskWriteback = FALSE])
  BY <1>1 DEF ResetSavedata
<1>6. told = IF session.forced THEN GBASavedataForceType(opened, session.type) ELSE opened
  BY DEF Overridden
<1> HIDE DEF opened, told
<1>7. Placed(told) /\ told.vf = "save"
  <2>1. CASE session.forced
    <3>1. Told(opened, told, session.type)
      BY <1>3, <1>4, <1>6, <2>1, ForceTypeIs DEF Files
    <3> QED
      BY <1>3, <1>4, <3>1, ToldPlaced DEF OfGame, Files
  <2>2. CASE ~session.forced
    BY <1>4, <1>6, <2>2 DEF Placed, OfGame
  <2> QED
    BY <2>1, <2>2
<1>8. Settled(savedata) /\ savedata.vf = "save"
  BY <1>5, <1>7, DisarmedSettled
<1>9. TypeInv
  BY TypeInit
<1> QED
  BY <1>2, <1>8, <1>9, SavedataAssumption DEF Known, Files

-----------------------------------------------------------------------------
(* What holds of a save where no chip is given up.                          *)

LEMMA SessionStays ==
  ASSUME [Next]_vars PROVE session' = session
BY DEF Next, vars, WriteSRAM, WriteFlash, WriteEEPROM, ReadEEPROM, Played, FrameEnded, GBAReset,
       loadTemporarySave, SaveState, LoadState, GameStops, GBAUnloadROM, Finished, Keeps

LEMMA KnownStep ==
  ASSUME Known, [Next]_vars PROVE Known'
BY KnownGame, KnownFrame, KnownReset, KnownTemp, KnownSave, KnownLoad, KnownEnd, KnownStill DEF Next

\* A temporary save that is opened for reading only cannot be mapped anew when a
\* chip turns out to have 1 Mb.
MasksFit == session.type = "FLASH1M" /\ ~session.forced => ~may("temp")

\* The bank a game works in is in the mapping, or the pointer to it was lost when the
\* save was mapped anew (_flashSwitchBank): of all the ways to switch, grow, mask,
\* load and reset a save, only that one leaves a game outside its file.
THEOREM BanksAreMapped == Spec /\ MasksKeepTheirChip /\ MasksFit => []BankIsMapped
<1> DEFINE IInv == Known /\ MasksFit
<1>1. Init /\ MasksKeepTheirChip /\ MasksFit => IInv
  BY KnownInit
<1>2. IInv /\ [Next]_vars => IInv'
  BY KnownStep, SessionStays DEF MasksFit, may
<1>3. IInv => BankIsMapped
  <2> SUFFICES ASSUME Known, MasksFit PROVE BankIsMapped
    OBVIOUS
  <2>1. savedata.currentBank \in {0, 1, Stale}
    BY DEF Known, TypeInv, TypeOK, Machines
  <2>2. CASE savedata.vf = Nil
    BY <2>2 DEF Known, BankIsMapped
  <2>3. CASE savedata.vf # Nil
    <3>1. Settled(savedata) /\ (savedata.vf = "temp" => may("temp"))
      BY <2>3 DEF Known
    <3>2. savedata.data # "failed"
      BY <3>1 DEF Settled, Placed, MasksFit
    <3>3. savedata.type = "FLASH512" => savedata.currentBank = 0
      BY <3>1 DEF Settled, Placed
    <3> QED
      BY <2>1, <3>2, <3>3 DEF BankIsMapped, FlashTypes, GBASavedataSize
  <2> QED
    BY <2>2, <2>3
<1> QED
  BY <1>1, <1>2, <1>3, PTL DEF Spec

-----------------------------------------------------------------------------
\* A game that has written has told its chip.
Unsynced ==
  /\ Known /\ UnsyncedIsDirty
  /\ wrote /\ savedata.vf # Nil => savedata.type # "AUTODETECT"

LEMMA UnsyncedFrame ==
  ASSUME Unsynced, FrameEnded PROVE Unsynced'
<1>1. Known' /\ Ends /\ Sound
  BY KnownFrame DEF Unsynced, FrameEnded
<1>2. savedata.vf # Nil /\ savedata'.type = savedata.type /\ (wrote' <=> wrote)
  BY <1>1 DEF Sound, Ends
<1>3. wrote' => savedata'.type # "AUTODETECT"
  BY <1>2 DEF Unsynced
<1>4. ASSUME wrote', savedata'.vf # "temp"
      PROVE  savedata'.dirty # {} \/ (savedata'.vf = "save" /\ savedata'.disk = savedata'.file["save"])
  <2>1. CASE Stands(savedata, savedata') /\ savedata'.dirty = (IF "NEW" \in savedata.dirty THEN {"SEEN"} ELSE savedata.dirty)
    <3>1. savedata'.vf = savedata.vf /\ savedata'.file = savedata.file /\ savedata'.disk = savedata.disk
      BY <2>1 DEF Stands
    <3> QED
      BY <1>2, <1>4, <2>1, <3>1 DEF Unsynced, UnsyncedIsDirty
  <2>0. CASE Stands(savedata, savedata') /\ savedata.vf = "temp"
    BY <1>4, <2>0 DEF Stands
  <2>2. CASE savedata'.vf = "save" /\ (savedata'.data = "shared" => savedata'.disk = savedata'.file["save"])
    <3>1. savedata'.data = "shared"
      <4>1. Settled(savedata)'
        BY <1>1, <2>2, SavedataAssumption DEF Known, Files
      <4> QED
        BY <1>3, <1>4, <2>2, <4>1 DEF Settled, Placed, MappedAs
    <3> QED
      BY <2>2, <3>1
  <2>3. CASE savedata'.vf = "save" /\ savedata.type # "AUTODETECT" /\ savedata'.disk = savedata'.file["save"]
    BY <2>3
  <2> QED
    BY <1>1, <1>2, <1>3, <1>4, <2>0, <2>1, <2>2, <2>3 DEF Ends
<1> QED
  BY <1>1, <1>3, <1>4 DEF Unsynced, UnsyncedIsDirty

LEMMA UnsyncedStep ==
  ASSUME Unsynced, [Next]_vars PROVE Unsynced'
<1>1. Known
  BY DEF Unsynced
<1>2. CASE WriteSRAM \/ WriteFlash \/ WriteEEPROM \/ ReadEEPROM
  <2>1. Known' /\ Plays
    BY <1>1, <1>2, KnownGame
  <2>2. CASE savedata'.dirty = savedata.dirty \cup {"NEW"}
    BY <2>1, <2>2 DEF Unsynced, UnsyncedIsDirty, Plays
  <2>3. CASE Calm(savedata, savedata') /\ (wrote' <=> wrote)
    <3>1. savedata'.dirty = savedata.dirty /\ savedata'.vf = savedata.vf
          /\ (savedata.disk = savedata.file["save"] => savedata'.disk = savedata'.file["save"])
      BY <2>3 DEF Calm, Grown
    <3> QED
      BY <2>1, <2>3, <3>1 DEF Unsynced, UnsyncedIsDirty, Plays
  <2> QED
    BY <2>1, <2>2, <2>3 DEF Plays
<1>3. CASE FrameEnded
  BY <1>3, UnsyncedFrame
<1>4. CASE GBAReset
  <2>1. Known' /\ Resets /\ wrote' = (wrote /\ savedata.vf = "save") /\ Sound
    BY <1>1, <1>4, KnownReset DEF GBAReset
  <2> QED
    BY <2>1 DEF Unsynced, UnsyncedIsDirty, Resets, Sound
<1>5. CASE SaveState
  <2>1. /\ Known' /\ Stands(savedata, savedata') /\ savedata'.dirty = savedata.dirty /\ (wrote' <=> wrote)
    BY <1>1, <1>5, KnownSave
  <2> QED
    BY <2>1 DEF Unsynced, UnsyncedIsDirty, Stands
<1>6. CASE loadTemporarySave \/ LoadState(TRUE) \/ LoadState(FALSE) \/ GBAUnloadROM
  <2>1. Known' /\ ~wrote'
    <3>1. ASSUME NEW writeback \in BOOLEAN, LoadState(writeback) PROVE Known' /\ ~wrote'
      BY <1>1, <3>1, KnownLoad
    <3> QED
      BY <1>1, <1>6, <3>1, KnownTemp, KnownEnd
  <2> QED
    BY <2>1 DEF Unsynced, UnsyncedIsDirty
<1>7. CASE GameStops \/ Finished \/ UNCHANGED vars
  <2>1. Known' /\ savedata' = savedata /\ wrote' = wrote
    BY <1>1, <1>7, KnownStill
  <2> QED
    BY <2>1 DEF Unsynced, UnsyncedIsDirty
<1> QED
  BY <1>2, <1>3, <1>4, <1>5, <1>6, <1>7 DEF Next

\* What a game has written is on disk or known to be dirty, through every growth of its
\* file, mask, reset and written back state: GBASavedataClean never forgets a write.
THEOREM WritesAreDirty == Spec /\ MasksKeepTheirChip => []UnsyncedIsDirty
<1>1. Init /\ MasksKeepTheirChip => Unsynced
  BY KnownInit DEF Unsynced, UnsyncedIsDirty
<1>2. Unsynced /\ [Next]_vars => Unsynced'
  BY UnsyncedStep
<1>3. Unsynced => UnsyncedIsDirty
  BY DEF Unsynced
<1> QED
  BY <1>1, <1>2, <1>3, PTL DEF Spec

-----------------------------------------------------------------------------
\* A state that is loaded while nothing is left to sync comes back only when the game
\* writes into it.
Kept ==
  /\ Known /\ ~may("hasty")
  /\ savedata.vf = "state" /\ savedata.dirty # {} => wrote

SaveIsKept == wrote' \/ LoadState(TRUE) \/ IsPrefix(savedata.file["save"], savedata'.file["save"])

LEMMA SameIsKept ==
  ASSUME NEW s \in Machines, NEW t, t.file["save"] = s.file["save"]
  PROVE  IsPrefix(s.file["save"], t.file["save"])
<1>1. s.file["save"] \in Contents
  BY DEF Machines, Files
<1> QED
  BY <1>1, CellsIn, PrefixIs DEF Begins

LEMMA KeptStep ==
  ASSUME Kept, [Next]_vars PROVE Kept' /\ (SaveIsKept \/ UNCHANGED vars)
<1>1. Known /\ savedata \in Machines
  BY DEF Kept, Known, TypeInv, TypeOK
<1>2. ~may("hasty")'
  BY SessionStays DEF Kept, may
<1>3. CASE WriteSRAM \/ WriteFlash \/ WriteEEPROM \/ ReadEEPROM
  <2>1. Known' /\ Plays
    BY <1>1, <1>3, KnownGame
  <2>2. CASE savedata'.dirty = savedata.dirty \cup {"NEW"} /\ wrote'
    BY <1>2, <2>1, <2>2 DEF Kept, SaveIsKept
  <2>3. CASE Calm(savedata, savedata') /\ (wrote' <=> wrote)
    <3>1. Sound
      BY <1>3 DEF WriteSRAM, WriteFlash, WriteEEPROM, ReadEEPROM
    <3>2. savedata' \in Machines /\ savedata.vf \in Files
      BY <1>1, <2>1, <3>1, KnownNow DEF Plays
    <3>3. IsPrefix(savedata.file["save"], savedata'.file["save"])
      BY <1>1, <2>3, <3>2, GrownKeeps DEF Calm
    <3>4. savedata'.dirty = savedata.dirty /\ savedata'.vf = savedata.vf
      BY <2>3 DEF Calm
    <3> QED
      BY <1>2, <2>1, <2>3, <3>3, <3>4 DEF Kept, SaveIsKept
  <2> QED
    BY <2>1, <2>2, <2>3 DEF Plays
<1>4. CASE FrameEnded
  <2>1. Known' /\ Ends
    BY <1>1, <1>4, KnownFrame
  <2>2. CASE Stands(savedata, savedata')
    <3>1. savedata'.vf = savedata.vf /\ savedata'.file = savedata.file
      BY <2>2 DEF Stands
    <3>2. IsPrefix(savedata.file["save"], savedata'.file["save"])
      BY <1>1, <3>1, SameIsKept
    <3>3. savedata'.vf = "state" /\ savedata'.dirty # {} => wrote'
      BY <2>1, <3>1 DEF Kept, Ends
    <3> QED
      BY <1>2, <2>1, <3>2, <3>3 DEF Kept, SaveIsKept
  <2>3. CASE savedata'.vf = "save" /\ savedata'.file = savedata.file
    <3>1. IsPrefix(savedata.file["save"], savedata'.file["save"])
      BY <1>1, <2>3, SameIsKept
    <3> QED
      BY <1>2, <2>1, <2>3, <3>1 DEF Kept, SaveIsKept
  <2>4. CASE savedata.vf = "state" /\ savedata'.vf = "save" /\ savedata.dirty = {"SEEN"}
    <3>1. wrote'
      BY <2>1, <2>4 DEF Kept, Ends
    <3> QED
      BY <1>2, <2>1, <2>4, <3>1 DEF Kept, SaveIsKept
  <2> QED
    BY <2>1, <2>2, <2>3, <2>4 DEF Ends
<1>5. CASE GBAReset
  BY <1>1, <1>2, <1>5, KnownReset DEF Kept, SaveIsKept, Resets
<1>6. CASE loadTemporarySave
  BY <1>1, <1>2, <1>6, KnownTemp DEF Kept, SaveIsKept
<1>7. CASE SaveState
  <2>1. Known' /\ Stands(savedata, savedata') /\ savedata'.dirty = savedata.dirty /\ (wrote' <=> wrote)
    BY <1>1, <1>7, KnownSave
  <2>2. savedata'.vf = savedata.vf /\ IsPrefix(savedata.file["save"], savedata'.file["save"])
    BY <1>1, <2>1, SameIsKept DEF Stands
  <2> QED
    BY <1>2, <2>1, <2>2 DEF Kept, SaveIsKept
<1>8. ASSUME NEW writeback \in BOOLEAN, LoadState(writeback)
      PROVE  /\ Kept' /\ (~writeback => IsPrefix(savedata.file["save"], savedata'.file["save"]))
  <2>1. savedata.dirty = {}
    BY <1>8 DEF LoadState, Kept
  <2>2. Known' /\ savedata'.dirty = {} /\ (~writeback => IsPrefix(savedata.file["save"], savedata'.file["save"]))
    BY <1>1, <1>8, <2>1, KnownLoad
  <2> QED
    BY <1>2, <2>2 DEF Kept
<1>9. CASE LoadState(TRUE) \/ LoadState(FALSE)
  BY <1>8, <1>9 DEF SaveIsKept
<1>10. CASE GBAUnloadROM
  BY <1>1, <1>2, <1>10, KnownEnd, SavedataAssumption DEF Kept, SaveIsKept, Files
<1>11. CASE GameStops \/ Finished \/ UNCHANGED vars
  <2>1. Known' /\ savedata' = savedata /\ wrote' = wrote
    BY <1>1, <1>11, KnownStill
  <2>2. IsPrefix(savedata.file["save"], savedata'.file["save"])
    BY <1>1, <2>1, SameIsKept
  <2> QED
    BY <1>2, <2>1, <2>2 DEF Kept, SaveIsKept
<1> QED
  BY <1>3, <1>4, <1>5, <1>6, <1>7, <1>9, <1>10, <1>11 DEF Next

\* Trying out a savestate or another save does not cost the player the real one, if the
\* state is loaded when the last writes have been synced: otherwise their dirtiness
\* brings the state back by itself.
THEOREM SaveIsSafe == Spec /\ MasksKeepTheirChip /\ ~may("hasty") => SaveKept
<1>1. Init /\ MasksKeepTheirChip /\ ~may("hasty") => Kept
  BY KnownInit DEF Kept
<1>2. Kept /\ [Next]_vars => Kept' /\ [SaveIsKept]_vars
  BY KeptStep
<1> QED
  BY <1>1, <1>2, PTL DEF Spec, SaveKept, SaveIsKept

-----------------------------------------------------------------------------
(* An EEPROM of 8 KiB stays one.                                            *)

\* The game has an EEPROM of two cells, and no state gives up its chip.
EightKiB == session.type = "EEPROM" /\ session.size = 2 /\ ChipIsKnown

\* All of it is in every file the game uses and in every state.
Long ==
  EightKiB =>
    /\ Len(savedata.file["save"]) = 2
    /\ savedata.vf # Nil => Len(savedata.file[savedata.vf]) = 2
    /\ slot # Nil => Len(slot.sram) = 2

\* No file gets shorter.
Longer(s, t) == \A f \in Files : Len(t.file[f]) >= Len(s.file[f])

LEMMA CalmLonger ==
  ASSUME NEW s \in Machines, NEW t \in Machines, s.vf \in Files, Calm(s, t) PROVE Longer(s, t)
<1> SUFFICES ASSUME NEW f \in Files PROVE Len(t.file[f]) >= Len(s.file[f])
  BY DEF Longer
<1>1. s.file[f] \in Contents
  BY DEF Machines
<1>2. Len(s.file[f]) \in 0 .. 2
  BY <1>1, CellsIn
<1> QED
  BY <1>2 DEF Calm, Grown, Begins

LEMMA WriteEEPROMLonger ==
  ASSUME NEW s, Settled(s), s.type # "AUTODETECT", NEW block \in 1 .. 2, NEW c \in Cells,
         NEW t, t = GBASavedataWriteEEPROM(s, block, c)
  PROVE  Longer(s, t) /\ t.vf = s.vf
<1> DEFINE long == _ensureEeprom(s, block)   dirty == Dirtied(long)
<1>1. s \in Machines /\ s.vf \in Files
  BY DEF Settled, Placed, Ready
<1>2. Settled(long) /\ Calm(s, long)
  BY EnsureSettled
<1>3. t = Store(dirty, block, c)
  BY DEF GBASavedataWriteEEPROM
<1> HIDE DEF long
<1>4. long \in Machines /\ long.vf = s.vf /\ Longer(s, long)
  BY <1>1, <1>2, CalmLonger DEF Settled, Placed, Ready, Calm
<1>5. Stands(long, dirty)
  BY <1>4, DirtiedIs
<1> HIDE DEF dirty
<1>6. dirty \in Machines /\ dirty.vf = s.vf /\ dirty.file = long.file
  BY <1>4, <1>5 DEF Stands
<1>7. t.vf = dirty.vf /\ \A f \in Files : Len(t.file[f]) = Len(dirty.file[f])
  BY <1>1, <1>3, <1>6, StoreIs DEF Rest
<1> QED
  BY <1>4, <1>6, <1>7 DEF Longer

LEMMA LongerThen ==
  ASSUME NEW s \in Machines, NEW t \in Machines, NEW u \in Machines, Longer(s, t), Longer(t, u) PROVE Longer(s, u)
<1> SUFFICES ASSUME NEW f \in Files PROVE Len(u.file[f]) >= Len(s.file[f])
  BY DEF Longer
<1>1. s.file[f] \in Contents /\ t.file[f] \in Contents /\ u.file[f] \in Contents
  BY DEF Machines
<1>2. Len(s.file[f]) \in 0 .. 2 /\ Len(t.file[f]) \in 0 .. 2 /\ Len(u.file[f]) \in 0 .. 2
  BY <1>1, CellsIn
<1> QED
  BY <1>2 DEF Longer

\* What is asked of a step that leaves the slot alone.
LEMMA LongNext ==
  ASSUME Long, Keeps, savedata' \in Machines, savedata'.vf \in Files,
         EightKiB => Len(savedata'.file["save"]) >= 2 /\ Len(savedata'.file[savedata'.vf]) >= 2
  PROVE  Long'
<1>1. slot' = slot /\ session' = session /\ "save" \in Files
  BY DEF Keeps, Files
<1>2. savedata'.file["save"] \in Contents /\ savedata'.file[savedata'.vf] \in Contents
  BY <1>1 DEF Machines
<1>3. Len(savedata'.file["save"]) \in 0 .. 2 /\ Len(savedata'.file[savedata'.vf]) \in 0 .. 2
  BY <1>2, CellsIn
<1>4. EightKiB' <=> EightKiB
  BY <1>1 DEF EightKiB, ChipIsKnown, may
<1>5. ASSUME EightKiB
      PROVE  /\ Len(savedata'.file["save"]) = 2 /\ Len(savedata'.file[savedata'.vf]) = 2
             /\ slot # Nil => Len(slot.sram) = 2
  <2>1. Len(savedata'.file["save"]) >= 2 /\ Len(savedata'.file[savedata'.vf]) >= 2
    BY <1>5
  <2>2. slot # Nil => Len(slot.sram) = 2
    BY <1>5 DEF Long
  <2> DEFINE m == Len(savedata'.file["save"])   n == Len(savedata'.file[savedata'.vf])
  <2>3. m \in 0 .. 2 /\ n \in 0 .. 2 /\ m >= 2 /\ n >= 2
    BY <1>3, <2>1
  <2> HIDE DEF m, n
  <2>4. m = 2 /\ n = 2
    BY ONLY <2>3
  <2> QED
    BY <2>2, <2>4 DEF m, n
<1> QED
  BY <1>1, <1>4, <1>5 DEF Long

LEMMA KnownMachine ==
  ASSUME Known PROVE savedata \in Machines /\ (savedata.vf # Nil => savedata.vf \in Files)
BY DEF Known, TypeInv, TypeOK, Machines

LEMMA LongGame ==
  ASSUME Known, Long, WriteSRAM \/ WriteFlash \/ WriteEEPROM \/ ReadEEPROM PROVE Long'
<1>1. Keeps /\ Sound /\ Plays
  BY KnownGame DEF WriteSRAM, WriteFlash, WriteEEPROM, ReadEEPROM, Played
<1>2. /\ Settled(savedata) /\ savedata \in Machines /\ savedata.vf \in Files /\ savedata.vf # Nil
      /\ session.writes \subseteq Cells /\ session.type \in Types \ {"AUTODETECT"}
      /\ savedata' \in Machines /\ savedata'.vf = savedata.vf
  BY <1>1, KnownNow DEF Plays, Sound
<1>3. ASSUME session.type = "EEPROM" PROVE Longer(savedata, savedata')
  <2> DEFINE told == Detected(savedata)
  <2>1. Settled(told) /\ told.type # "AUTODETECT" /\ Calm(savedata, told)
    BY <1>2, DetectedSettled
  <2>2. \/ \E block \in 1 .. 2, c \in session.writes : savedata' = GBASavedataWriteEEPROM(told, block, c)
        \/ \E block \in 1 .. 2 : savedata' = _ensureEeprom(told, block)
    BY <1>3 DEF WriteSRAM, WriteFlash, WriteEEPROM, ReadEEPROM, Played, FlashTypes
  <2> HIDE DEF told
  <2>3. told \in Machines /\ told.vf \in Files /\ Longer(savedata, told)
    BY <1>2, <2>1, CalmLonger DEF Settled, Placed, Ready
  <2>4. Longer(told, savedata')
    <3>1. CASE \E block \in 1 .. 2, c \in session.writes : savedata' = GBASavedataWriteEEPROM(told, block, c)
      BY <1>2, <2>1, <3>1, WriteEEPROMLonger
    <3>2. CASE \E block \in 1 .. 2 : savedata' = _ensureEeprom(told, block)
      <4>1. Calm(told, savedata')
        BY <2>1, <3>2, EnsureSettled
      <4> QED
        BY <1>2, <2>3, <4>1, CalmLonger
    <3> QED
      BY <2>2, <3>1, <3>2
  <2> QED
    BY <1>2, <2>3, <2>4, LongerThen
<1>4. EightKiB => Len(savedata'.file["save"]) >= 2 /\ Len(savedata'.file[savedata'.vf]) >= 2
  BY <1>2, <1>3 DEF EightKiB, Long, Longer, Files
<1> QED
  BY <1>1, <1>2, <1>4, LongNext

\* Every other step but a state's.
LEMMA LongMask ==
  ASSUME Known, Long, FrameEnded \/ GBAReset \/ loadTemporarySave PROVE Long'
<1>1. Keeps /\ Sound /\ Known'
  BY KnownFrame, KnownReset, KnownTemp DEF FrameEnded, GBAReset, loadTemporarySave
<1>2. savedata \in Machines /\ savedata.vf \in Files /\ savedata' \in Machines /\ savedata.vf # Nil
  BY <1>1, KnownMachine DEF Sound, Known, TypeInv, TypeOK
<1> DEFINE Both(s) == Len(s.file["save"]) >= 2 /\ Len(s.file[s.vf]) >= 2
<1>3. ASSUME EightKiB PROVE savedata'.vf \in Files /\ Both(savedata')
  <2>1. Len(savedata.file["save"]) = 2 /\ Len(savedata.file[savedata.vf]) = 2 /\ session.type = "EEPROM"
    BY <1>2, <1>3 DEF Long, EightKiB
  <2>0. Len(savedata.file["save"]) >= 2 /\ Len(savedata.file[savedata.vf]) >= 2
    BY <2>1
  <2>2. CASE FrameEnded
    <3>1. Ends
      BY <2>2, KnownFrame
    <3>2. CASE Stands(savedata, savedata')
      <4>1. savedata'.vf = savedata.vf /\ savedata'.file = savedata.file
        BY <3>2 DEF Stands
      <4> QED
        BY <1>2, <2>0, <4>1
    <3>3. CASE savedata'.vf = "save" /\ savedata'.file = savedata.file
      <4>1. Len(savedata'.file["save"]) >= 2
        BY <2>0, <3>3
      <4> QED
        BY <3>3, <4>1 DEF Files
    <3>4. CASE savedata.vf = "state" /\ savedata'.vf = "save" /\ (savedata.type # "AUTODETECT" => Returned(savedata, savedata'))
      <4>1. ChipIsKnown /\ savedata.type = session.type
        BY <1>2, <3>4 DEF Known, MasksKeepTheirChip
      <4>2. PICK real \in Machines :
              /\ Begins(savedata.file["save"], real.file["save"])
              /\ savedata'.file["save"] = Over(real.file["save"], Fitting(real, savedata.file[savedata.vf]))
              /\ real.vf = "save"
        BY <2>1, <3>4, <4>1 DEF Returned
      <4> DEFINE a == real.file["save"]   b == Fitting(real, savedata.file[savedata.vf])
      <4>3. a \in Contents /\ b \in Contents
        BY <1>2, <4>2, FittingIs DEF Machines, Files
      <4>4. Len(Over(a, b)) = Len(a)
        BY <4>3, OverIs
      <4>5. Len(a) \in 0 .. 2 /\ Len(a) >= 2
        BY <2>1, <4>2, <4>3, CellsIn DEF Begins
      <4> QED
        BY <3>4, <4>2, <4>4, <4>5 DEF Files
    <3> QED
      BY <3>1, <3>2, <3>3, <3>4 DEF Ends
  <2>3. CASE GBAReset
    <3>1. Resets
      BY <2>3, KnownReset
    <3>2. Len(savedata'.file["save"]) >= 2
      BY <2>1, <3>1 DEF Resets, IsPrefix
    <3> QED
      BY <3>1, <3>2 DEF Resets, Files
  <2>4. CASE loadTemporarySave
    <3>1. savedata'.vf = "temp" /\ Len(savedata'.file["temp"]) >= 2 /\ IsPrefix(savedata.file["save"], savedata'.file["save"])
      BY <2>4, KnownTemp
    <3> QED
      BY <2>1, <3>1 DEF IsPrefix, Files
  <2> QED
    BY <2>2, <2>3, <2>4
<1>4. savedata'.vf \in Files
  <2>1. savedata'.vf # Nil
    BY <1>2, KnownFrame, KnownReset, KnownTemp, SavedataAssumption DEF Ends, Stands, Resets, Files
  <2> QED
    BY <1>1, <2>1, KnownMachine DEF Known, TypeInv, TypeOK, Machines
<1> QED
  BY <1>1, <1>2, <1>3, <1>4, LongNext

\* How a save is mapped whose chip is told.
LEMMA UsedAs ==
  ASSUME NEW s, Settled(s), s.type # "AUTODETECT", s.data # "failed"
  PROVE  s.data \in {"shared", "private"} /\ (s.vf # "temp" => s.data = "shared")
         /\ Len(s.file[s.vf]) >= Need(s.type)
BY DEF Settled, Placed, MappedAs, Files, Ready, Fits

LEMMA LongSave ==
  ASSUME Known, Long, SaveState PROVE Long'
<1>1. /\ Sound /\ (savedata.type = session.type \/ may("early"))
      /\ slot'.sram = IF GBASavedataSize(savedata) = 0 THEN <<>> ELSE Cloned(savedata)
      /\ session' = session
  BY DEF SaveState
<1>6. Settled(savedata) /\ savedata \in Machines /\ savedata.vf \in Files /\ savedata.data # "failed"
  BY <1>1, KnownNow
<1>2. Settled(savedata) /\ savedata \in Machines /\ savedata.vf \in Files /\ savedata.data # "failed" /\ savedata.vf # Nil
  BY <1>1, <1>6 DEF Sound
<1>5. savedata'.vf = savedata.vf /\ savedata'.file = savedata.file
  BY KnownSave DEF Stands
<1>3. (EightKiB' <=> EightKiB)
  BY <1>1 DEF EightKiB, ChipIsKnown, may
<1>4. ASSUME EightKiB PROVE Len(slot'.sram) = 2
  <2>1. savedata.type = "EEPROM"
    BY <1>1, <1>2, <1>4 DEF EightKiB, ChipIsKnown, Settled, Placed
  <2>2. savedata.data \in {"shared", "private"} /\ Fits(savedata)
    BY <1>2, <2>1, UsedAs DEF Settled, Placed, Ready
  <2>3. Len(savedata.file[savedata.vf]) = 2
    BY <1>2, <1>4 DEF Long
  <2>4. GBASavedataSize(savedata) = 2
    BY <2>1, <2>3 DEF GBASavedataSize
  <2> DEFINE all == Mapped(savedata)
  <2>5. all \in Contents /\ Len(all) = 2
    BY <1>2, <2>2, <2>3, SizeIs
  <2>6. slot'.sram = SubSeq(all, 1, 2)
    BY <1>1, <2>1, <2>2, <2>4 DEF Cloned
  <2> HIDE DEF all, Contents
  <2> DEFINE n == 2
  <2>7. n \in 0 .. Len(all) /\ n = 2
    BY <2>5
  <2> HIDE DEF n
  <2>8. Len(SubSeq(all, 1, n)) = n
    BY <2>5, <2>7, CutIs
  <2> QED
    BY <2>6, <2>7, <2>8
<1> QED
  BY <1>1, <1>2, <1>3, <1>4, <1>5 DEF Long

LEMMA RestoredLonger ==
  ASSUME NEW s, Settled(s), s.type # "AUTODETECT", s.data # "failed", NEW content \in Contents,
         NEW writeback \in BOOLEAN, NEW t, t = Restored(s, content, writeback)
  PROVE  \/ t.vf = s.vf /\ \A f \in Files : Len(t.file[f]) = Len(s.file[f])
         \/ t.vf = "state" /\ t.file["save"] = s.file["save"] /\ Len(t.file["state"]) >= Len(content)
<1> HIDE DEF Contents
<1>1. CASE content = <<>>
  BY <1>1 DEF Restored
<1>2. CASE content # <<>> /\ writeback
  <2>1. t = GBASavedataLoad(s, content)
    BY <1>2 DEF Restored
  <2>2. s \in Machines /\ s.vf \in Files /\ s.data \in {"shared", "private"}
    BY UsedAs DEF Settled, Placed, Ready
  <2>3. /\ t.vf = s.vf
        /\ \A f \in Files : f # s.vf => t.file[f] = s.file[f]
        /\ s.data = "private" => t.file = s.file
        /\ s.data = "shared" => Len(t.file[s.vf]) = Len(s.file[s.vf])
    BY ONLY content \in Contents, <2>1, <2>2, LoadIs
  <2>4. \A f \in Files : Len(t.file[f]) = Len(s.file[f])
    BY ONLY <2>2, <2>3
  <2> QED
    BY ONLY <2>3, <2>4
<1>3. CASE content # <<>> /\ ~writeback
  <2> DEFINE vf == "state"   masked == GBASavedataMask(s, vf, content, vf = "state")
  <2>1. t = masked
    BY <1>3 DEF Restored
  <2>2. content \in Contents /\ vf \in {"temp", "state"} /\ vf = "state" /\ Placed(s)
    BY DEF Settled
  <2> HIDE DEF vf
  <2>3. masked.vf = vf /\ masked.file["save"] = s.file["save"] /\ Len(masked.file[vf]) >= Len(content)
    BY <2>2, MaskedSettled
  <2> HIDE DEF masked
  <2> QED
    BY ONLY <2>1, <2>2, <2>3
<1> QED
  BY <1>1, <1>2, <1>3

LEMMA LongLoad ==
  ASSUME Known, Long, NEW writeback \in BOOLEAN, LoadState(writeback) PROVE Long'
<1> DEFINE back == GBASavedataDeserialize(savedata, slot.state)
           restored == Restored(back, slot.sram, writeback)
           sram == slot.sram
<1>1. Sound /\ slot # Nil /\ savedata' \in AtAnyAge(restored) /\ Keeps
  BY DEF LoadState
<1>2. slot \in Slots
  BY <1>1 DEF Known, TypeInv, TypeOK
<1>3. /\ slot.state.type \in Types /\ slot.state.command \in Commands
      /\ slot.state.flashState \in {"RAW", "START", "CONTINUE"} /\ slot.state.flashBank \in 0 .. 1
      /\ sram \in Contents
  BY <1>2 DEF Slots
<1>4. /\ Settled(savedata) /\ savedata.vf # Nil /\ savedata.vf \in Files /\ savedata.data # "failed"
      /\ savedata \in Machines /\ session.type \in Types \ {"AUTODETECT"}
  BY <1>1, KnownNow DEF Sound
<1>5. OfGame(slot.state.type) /\ (slot.state.type = savedata.type \/ (savedata.vf = "save" /\ ~session.forced))
  <2>1. CASE ChipIsKnown
    BY <1>1, <1>4, <2>1 DEF Known
  <2>2. CASE ~ChipIsKnown
    <3>1. ~session.forced /\ ~may("load") /\ ~may("temp")
      BY <2>2 DEF Known, ChipIsKnown, MasksKeepTheirChip
    <3> QED
      BY <1>1, <1>4, <3>1 DEF Known, Files
  <2> QED
    BY <2>1, <2>2
<1>6. /\ Settled(back) /\ back.vf = savedata.vf /\ back.type = slot.state.type
      /\ IsPrefix(savedata.file["save"], back.file["save"])
      /\ slot.state.type = savedata.type => back.file = savedata.file /\ back.data = savedata.data
  BY <1>3, <1>4, <1>5, DeserializeSettled
<1> HIDE DEF back, Contents
<1>7. Settled(restored)
  BY <1>3, <1>6, RestoredSettled
<1> HIDE DEF restored
<1>8. Stands(restored, savedata')
  BY <1>1, <1>7, AtAnyAgeIs DEF Settled, Placed, Ready
<1>9. savedata' \in Machines /\ savedata'.vf = restored.vf /\ savedata'.file = restored.file /\ restored.vf \in Files
  BY <1>7, <1>8 DEF Stands, Settled, Placed, Ready
<1> HIDE DEF sram
<1>10. ASSUME EightKiB
       PROVE  Len(restored.file["save"]) >= 2 /\ Len(restored.file[restored.vf]) >= 2
  <2>1. Len(savedata.file["save"]) = 2 /\ Len(savedata.file[savedata.vf]) = 2 /\ Len(sram) = 2
    BY <1>1, <1>4, <1>10 DEF Long, sram
  <2>2. slot.state.type = savedata.type /\ savedata.type = session.type
    BY <1>1, <1>4, <1>10 DEF Known, EightKiB
  <2>3. back.type # "AUTODETECT" /\ back.data # "failed" /\ back.file = savedata.file
    BY <1>4, <1>6, <2>2
  <2>4. \/ restored.vf = back.vf /\ \A f \in Files : Len(restored.file[f]) = Len(back.file[f])
        \/ /\ restored.vf = "state" /\ restored.file["save"] = back.file["save"]
           /\ Len(restored.file["state"]) >= Len(sram)
    BY <1>3, <1>6, <2>3, RestoredLonger DEF restored, sram
  <2>5. CASE restored.vf = back.vf /\ \A f \in Files : Len(restored.file[f]) = Len(back.file[f])
    <3>1. Len(restored.file["save"]) = 2 /\ Len(restored.file[restored.vf]) = 2
      BY <1>4, <1>6, <2>1, <2>3, <2>5 DEF Files
    <3> QED
      BY <3>1
  <2>6. CASE /\ restored.vf = "state" /\ restored.file["save"] = back.file["save"]
             /\ Len(restored.file["state"]) >= Len(sram)
    <3>1. Len(restored.file["save"]) = 2
      BY <2>1, <2>3, <2>6
    <3> QED
      BY <2>1, <2>6, <3>1
  <2> QED
    BY <2>4, <2>5, <2>6
<1> QED
  BY <1>1, <1>9, <1>10, LongNext

LEMMA LongEnd ==
  ASSUME Known, Long, GBAUnloadROM PROVE Long'
<1>1. Keeps /\ savedata'.vf = Nil /\ IsPrefix(savedata.file["save"], savedata'.file["save"]) /\ Known'
  BY KnownEnd DEF GBAUnloadROM
<1>2. slot' = slot /\ session' = session /\ "save" \in Files
  BY <1>1 DEF Keeps, Files
<1>3. (EightKiB' <=> EightKiB)
  BY <1>2 DEF EightKiB, ChipIsKnown, may
<1>4. savedata'.file["save"] \in Contents
  BY <1>1, <1>2 DEF Known, TypeInv, TypeOK, Machines
<1>5. Len(savedata'.file["save"]) \in 0 .. 2
  BY <1>4, CellsIn
<1>6. ASSUME EightKiB PROVE Len(savedata'.file["save"]) = 2
  <2>1. Len(savedata.file["save"]) = 2
    BY <1>6 DEF Long
  <2> DEFINE m == Len(savedata'.file["save"])
  <2>2. m >= 2
    BY <1>1, <2>1 DEF IsPrefix
  <2>3. m \in 0 .. 2
    BY <1>5
  <2> HIDE DEF m
  <2>4. m = 2
    BY ONLY <2>2, <2>3
  <2> QED
    BY <2>4 DEF m
<1> QED
  BY <1>1, <1>2, <1>3, <1>6 DEF Long

LEMMA LongStill ==
  ASSUME Known, Long, GameStops \/ Finished \/ UNCHANGED vars PROVE Long'
<1>1. savedata' = savedata /\ slot' = slot /\ session' = session
  BY DEF GameStops, Finished, Keeps, vars
<1>2. (EightKiB' <=> EightKiB)
  BY <1>1 DEF EightKiB, ChipIsKnown, may
<1> QED
  BY <1>1, <1>2 DEF Long

LEMMA LongInit ==
  ASSUME Init PROVE Long
<1>1. PICK content \in Contents : /\ savedata = ResetSavedata(Opened(content)) /\ Ready(Opened(content))
                                  /\ session.size = Len(content)
  BY StartIs
<1> DEFINE opened == Opened(content)   told == Overridden(opened)
           plain == [told EXCEPT !.maskWriteback = FALSE]
<1>2. session \in Sessions /\ slot = Nil
  BY DEF Init
<1>3. session.type \in Types \ {"AUTODETECT"} /\ session.forced \in BOOLEAN
  BY <1>2, SessionIs
<1>4. /\ opened \in Machines /\ opened.type = "AUTODETECT" /\ opened.vf = "save" /\ opened.realVf = "save"
      /\ opened.file["save"] = content
  BY <1>1, OpenedIs DEF Opened, GBASavedataInit, Files
<1>5. savedata = GBASavedataUnmask(plain)
  BY <1>1 DEF ResetSavedata
<1>6. told = IF session.forced THEN GBASavedataForceType(opened, session.type) ELSE opened
  BY DEF Overridden
<1> HIDE DEF opened, told, Contents
<1>7. told \in Machines /\ told.vf = "save" /\ told.realVf = "save" /\ Begins(content, told.file["save"])
  <2>1. CASE session.forced
    <3>1. Told(opened, told, session.type)
      BY <1>3, <1>4, <1>6, <2>1, ForceTypeIs DEF Files
    <3> QED
      BY <1>4, <3>1 DEF Told, Rest, Grown
  <2>2. CASE ~session.forced
    <3>1. Len(content) \in 0 .. 2
      BY CellsIn
    <3>2. Begins(content, content)
      BY <3>1 DEF Begins
    <3> QED
      BY <1>4, <1>6, <2>2, <3>2
  <2> QED
    BY <2>1, <2>2
<1>8. plain.vf = "save" /\ plain.realVf = "save" /\ plain.file = told.file
  BY <1>7, DisarmedIs
<1>9. savedata = plain
  BY <1>5, <1>8 DEF GBASavedataUnmask
<1> HIDE DEF plain
<1>10. savedata.file["save"] \in Contents
  BY <1>7, <1>8, <1>9 DEF Machines, Files
<1>11. Len(savedata.file["save"]) \in 0 .. 2 /\ Begins(content, savedata.file["save"])
  BY <1>7, <1>8, <1>9, <1>10, CellsIn
<1>12. ASSUME EightKiB PROVE Len(savedata.file["save"]) = 2
  <2> DEFINE m == Len(savedata.file["save"])
  <2>1. m >= 2
    BY <1>1, <1>11, <1>12 DEF EightKiB, Begins
  <2>2. m \in 0 .. 2
    BY <1>11
  <2> HIDE DEF m
  <2>3. m = 2
    BY ONLY <2>1, <2>2
  <2> QED
    BY <2>3 DEF m
<1> QED
  BY <1>2, <1>8, <1>9, <1>12 DEF Long

LEMMA LongStep ==
  ASSUME Known, Long, [Next]_vars PROVE Long'
BY LongGame, LongMask, LongSave, LongLoad, LongEnd, LongStill DEF Next

-----------------------------------------------------------------------------
(* What a game sees of its save.                                            *)

LEMMA VisibleSame ==
  ASSUME NEW s, NEW t, t.type = s.type, t.data = s.data, t.vf = s.vf, t.file = s.file, t.copy = s.copy,
         t.currentBank = s.currentBank, t.command = s.command, t.flashState = s.flashState
  PROVE  Visible(t) = Visible(s)
<1>1. GBASavedataSize(t) = GBASavedataSize(s) /\ Mapped(t) = Mapped(s)
  BY DEF GBASavedataSize, Mapped
<1>2. View(t) = View(s)
  BY <1>1 DEF View
<1> QED
  BY <1>2 DEF Visible

\* What is laid over a longer content is seen as a whole.
LEMMA LaidOver ==
  ASSUME NEW a \in Contents, NEW b \in Contents, NEW n \in 0 .. Len(a), n <= Len(b)
  PROVE  SubSeq(Over(a, SubSeq(b, 1, Lesser(Len(b), n))), 1, n) = SubSeq(b, 1, n)
<1> DEFINE part == SubSeq(b, 1, n)   over == Over(a, part)
<1>1. Len(a) \in 0 .. 2 /\ Len(b) \in 0 .. 2
  BY CellsIn
<1>2. n \in Nat /\ n \in 0 .. Len(b) /\ Lesser(Len(b), n) = n
  BY <1>1 DEF Lesser
<1> HIDE DEF Contents
<1>3. part \in Contents /\ Len(part) = n
  BY <1>2, CutIs
<1> HIDE DEF part
<1>4. over \in Contents /\ Len(over) = Len(a) /\ \A i \in 1 .. Len(a) : over[i] = IF i <= Len(part) THEN part[i] ELSE a[i]
  BY <1>3, OverIs
<1> HIDE DEF over
<1>5. n \in 0 .. Len(over)
  BY <1>4
<1>6. /\ SubSeq(over, 1, n) \in Contents /\ Len(SubSeq(over, 1, n)) = n
      /\ \A i \in 1 .. n : SubSeq(over, 1, n)[i] = over[i]
  BY <1>4, <1>5, CutIs
<1>7. \A i \in 1 .. n : over[i] = part[i]
  BY <1>1, <1>2, <1>3, <1>4
<1>8. SubSeq(over, 1, n) = part
  <2> DEFINE cut == SubSeq(over, 1, n)
  <2>1. cut \in Contents /\ Len(cut) = Len(part) /\ \A i \in 1 .. Len(cut) : cut[i] = part[i]
    BY <1>3, <1>6, <1>7
  <2> HIDE DEF cut
  <2>2. cut = part
    BY <1>3, <2>1, SameContent
  <2> QED
    BY <2>2 DEF cut
<1> QED
  BY <1>2, <1>8 DEF over, part

LEMMA WholeIsSeen ==
  ASSUME NEW b \in Contents PROVE SubSeq(b, 1, Len(b)) = b
<1>1. Len(b) \in Nat /\ Len(b) \in 0 .. Len(b)
  BY CellsIn
<1> HIDE DEF Contents
<1> DEFINE cut == SubSeq(b, 1, Len(b))
<1>2. cut \in Contents /\ Len(cut) = Len(b) /\ \A i \in 1 .. Len(b) : cut[i] = b[i]
  BY <1>1, CutIs
<1> HIDE DEF cut
<1>3. cut = b
  BY <1>2, SameContent
<1> QED
  BY <1>3 DEF cut

\* A state's save that is written back shows what it showed, unless the chip has banks
\* or the save is longer than the state's.
LEMMA ReturnedShows ==
  ASSUME NEW s, Settled(s), s.vf = "state", s.type \in {"SRAM", "FLASH512", "EEPROM"}, s.data # "failed",
         NEW t \in Machines, Returned(s, t), t.type = s.type, t.vf = "save",
         t.command = s.command, t.flashState = s.flashState,
         s.type = "EEPROM" => Len(s.file["save"]) = 2 /\ Len(s.file["state"]) = 2
  PROVE  Visible(t) = Visible(s)
<1>1. s \in Machines /\ s.data = "shared" /\ Len(s.file["state"]) >= 1 /\ "state" \in Files /\ "save" \in Files
  BY UsedAs DEF Settled, Placed, Ready, Need, Files
<1>2. PICK real \in Machines :
        /\ real.type = s.type /\ real.vf = "save" /\ t.data = "shared"
        /\ Len(real.file["save"]) >= 1 /\ Begins(s.file["save"], real.file["save"])
        /\ t.file["save"] = Over(real.file["save"], Fitting(real, s.file["state"]))
  BY DEF Returned, Need
<1> DEFINE a == real.file["save"]   b == s.file["state"]   n == IF s.type = "EEPROM" THEN 2 ELSE 1
<1>3. a \in Contents /\ b \in Contents /\ Len(a) \in 0 .. 2 /\ Len(b) \in 0 .. 2
  BY <1>1, CellsIn DEF Machines
<1>4. n \in 1 .. 2 /\ Len(a) >= n /\ Len(b) >= n
  <2>1. CASE s.type = "EEPROM"
    <3>1. Len(a) >= Len(s.file["save"]) /\ Len(s.file["save"]) = 2 /\ Len(b) = 2 /\ n = 2
      BY <1>2, <1>3, <2>1 DEF Begins
    <3> QED
      BY <1>3, <3>1
  <2>2. CASE s.type # "EEPROM"
    <3>1. Len(a) >= 1 /\ Len(b) >= 1 /\ n = 1
      BY <1>1, <1>2, <2>2
    <3> QED
      BY <3>1
  <2> QED
    BY <2>1, <2>2
<1>5. Len(Over(a, Fitting(real, b))) = Len(a)
  <2>1. Fitting(real, b) \in Contents
    BY <1>1, <1>2, <1>3, FittingIs DEF Files
  <2> QED
    BY <1>3, <2>1, OverIs
<1>6. GBASavedataSize(s) = n /\ GBASavedataSize(t) = n /\ GBASavedataSize(real) = n
  <2>1. CASE s.type = "EEPROM"
    <3>1. Len(s.file[s.vf]) = 2 /\ Len(real.file[real.vf]) = Len(a) /\ Len(t.file[t.vf]) = Len(a) /\ n = 2
      BY <1>2, <1>5, <2>1
    <3> DEFINE m == Len(a)
    <3>2. m >= n /\ m \in 0 .. 2 /\ n = 2
      BY <1>3, <1>4, <3>1
    <3> HIDE DEF m, n
    <3>3. m # 1
      BY ONLY <3>2
    <3> QED
      BY <1>2, <2>1, <3>1, <3>3 DEF GBASavedataSize, m
  <2>2. CASE s.type # "EEPROM"
    BY <1>2, <2>2 DEF GBASavedataSize
  <2> QED
    BY <2>1, <2>2
<1>7. View(s) = SubSeq(b, 1, n) /\ View(t) = SubSeq(Over(a, Fitting(real, b)), 1, n)
  BY <1>1, <1>2, <1>6 DEF View, Mapped
<1>8. Fitting(real, b) = SubSeq(b, 1, Lesser(Len(b), n))
  BY <1>6 DEF Fitting
<1> HIDE DEF a, b, n
<1>9. n \in 0 .. Len(a) /\ n <= Len(b)
  BY <1>3, <1>4
<1>10. SubSeq(Over(a, SubSeq(b, 1, Lesser(Len(b), n))), 1, n) = SubSeq(b, 1, n)
  BY <1>3, <1>9, LaidOver
<1>11. View(t) = View(s)
  BY <1>7, <1>8, <1>10
<1> QED
  BY <1>11 DEF Visible

\* A savestate's save is written back whole: there is one bank, and all of the chip is
\* in the state.
StatesAreWhole ==
  may("load") => session.type # "FLASH1M" /\ (session.type = "EEPROM" => session.size = 2)

LEMMA FrameShows ==
  ASSUME Known, Long, StatesAreWhole, FrameEnded PROVE Visible(savedata') = Visible(savedata)
<1>1. Ends /\ Sound /\ Settled(savedata) /\ savedata.vf # Nil
  BY KnownFrame, KnownNow DEF FrameEnded, Sound
<1>2. CASE Stands(savedata, savedata')
  BY <1>1, <1>2, VisibleSame DEF Stands, Ends
<1>3. CASE /\ savedata.vf = "save" /\ savedata'.vf = "save" /\ savedata'.data = savedata.data
           /\ savedata'.file = savedata.file /\ savedata'.copy = savedata.copy
           /\ savedata'.currentBank = savedata.currentBank
           /\ savedata'.command = savedata.command /\ savedata'.flashState = savedata.flashState
  <2>1. savedata'.type = savedata.type
    BY <1>1 DEF Ends
  <2> QED
    BY <1>3, <2>1, VisibleSame
<1>4. CASE /\ savedata.vf = "state" /\ savedata'.vf = "save"
           /\ savedata'.command = savedata.command /\ savedata'.flashState = savedata.flashState
           /\ savedata.type # "AUTODETECT" => Returned(savedata, savedata')
  <2>1. may("load") /\ ChipIsKnown
    BY <1>1, <1>4 DEF Known, MasksKeepTheirChip
  <2>2. savedata.type = session.type /\ session.type \in Types \ {"AUTODETECT"}
    BY <1>1, <1>4, <2>1, KnownNow DEF Known
  <2>3. savedata.type \in {"SRAM", "FLASH512", "EEPROM"} /\ (savedata.type = "EEPROM" => EightKiB)
    BY <2>1, <2>2 DEF StatesAreWhole, EightKiB, Types
  <2>4. savedata.type = "EEPROM" => Len(savedata.file["save"]) = 2 /\ Len(savedata.file["state"]) = 2
    BY <1>1, <1>4, <2>3 DEF Long
  <2>5. savedata' \in Machines /\ savedata'.type = savedata.type /\ savedata.data # "failed"
    BY <1>1 DEF Ends, Sound
  <2>6. Returned(savedata, savedata')
    BY <1>4, <2>3
  <2> QED
    BY <1>1, <1>4, <2>3, <2>4, <2>5, <2>6, ReturnedShows
<1> QED
  BY <1>1, <1>2, <1>3, <1>4 DEF Ends

\* No frame's end is noticed by the game: neither the sync of a save nor, where states
\* are whole, the moment at which a loaded state's save becomes the real one.
THEOREM FramesAreUnseen == Spec /\ MasksKeepTheirChip /\ StatesAreWhole => FramesUnseen
<1> DEFINE IInv == Known /\ Long /\ StatesAreWhole
<1>1. Init /\ MasksKeepTheirChip /\ StatesAreWhole => IInv
  BY KnownInit, LongInit
<1>2. IInv /\ [Next]_vars => IInv'
  BY KnownStep, LongStep, SessionStays DEF StatesAreWhole, may
<1>3. IInv => [FrameEnded => Visible(savedata') = Visible(savedata)]_vars
  BY FrameShows
<1> QED
  BY <1>1, <1>2, <1>3, PTL DEF Spec, FramesUnseen

-----------------------------------------------------------------------------
(* What a loaded state brings back.  An EEPROM of one cell is left out of a  *)
(* state, and a mask is mapped at the first bank.                            *)

StatesAreComplete ==
  /\ may("load") \/ may("restore") => (session.type = "EEPROM" => session.size = 2)
  /\ may("load") => session.type # "FLASH1M"

\* The cells of a chip, if an EEPROM is one of 8 KiB.
Whole(type) == IF type \in {"FLASH1M", "EEPROM"} THEN 2 ELSE 1

\* The slot holds what the game saw of a chip it had told.
SlotShows ==
  slot # Nil =>
    /\ slot.state.type = session.type
    /\ slot.sram \in Contents /\ Len(slot.sram) = Whole(session.type)
    /\ slot.seen = [view |-> slot.sram,
                    bank |-> IF session.type = "FLASH1M" THEN slot.state.flashBank ELSE 0,
                    command |-> slot.state.command, flashState |-> slot.state.flashState]

Shown == Known /\ Long /\ StatesAreComplete /\ (~may("early") => SlotShows)

\* As many cells are seen of a chip as it has.
LEMMA ViewIs ==
  ASSUME NEW s, Settled(s), s.type # "AUTODETECT", s.data # "failed",
         s.type = "EEPROM" => Len(s.file[s.vf]) = 2
  PROVE  /\ s.data \in {"shared", "private"} /\ GBASavedataSize(s) = Whole(s.type)
         /\ Mapped(s) \in Contents /\ Whole(s.type) \in 1 .. 2 /\ Whole(s.type) \in 0 .. Len(Mapped(s))
         /\ View(s) = SubSeq(Mapped(s), 1, Whole(s.type))
         /\ View(s) \in Contents /\ Len(View(s)) = Whole(s.type)
<1>1. s \in Machines /\ s.vf \in Files /\ Ready(s) /\ Fits(s) /\ s.data \in {"shared", "private"}
  BY UsedAs DEF Settled, Placed, Ready
<1>2. GBASavedataSize(s) = Whole(s.type) /\ Whole(s.type) \in 1 .. 2
  <2>1. s.type = "EEPROM" => Len(s.file[s.vf]) # 1
    OBVIOUS
  <2> QED
    BY <1>1, <2>1 DEF GBASavedataSize, Whole, Machines, Types
<1>3. Mapped(s) \in Contents /\ GBASavedataSize(s) \in 1 .. Len(Mapped(s))
  BY <1>1, SizeIs
<1> DEFINE all == Mapped(s)   n == Whole(s.type)
<1>4. Len(all) \in 0 .. 2
  BY <1>3, CellsIn
<1>5. n \in 0 .. Len(all)
  BY <1>2, <1>3, <1>4
<1>6. View(s) = SubSeq(all, 1, n)
  BY <1>1, <1>2 DEF View
<1> HIDE DEF all, n, Contents
<1>7. SubSeq(all, 1, n) \in Contents /\ Len(SubSeq(all, 1, n)) = n
  BY <1>3, <1>5, CutIs DEF all
<1> QED
  BY <1>1, <1>2, <1>3, <1>5, <1>6, <1>7 DEF all, n

\* Where a state is made or loaded, an EEPROM is one of 8 KiB.
LEMMA EEPROMIsLong ==
  ASSUME Shown, may("load") \/ may("restore"), ~may("early"), savedata.vf # Nil, session.type = "EEPROM"
  PROVE  EightKiB /\ Len(savedata.file[savedata.vf]) = 2
<1>1. EightKiB
  BY DEF Shown, StatesAreComplete, EightKiB, ChipIsKnown
<1> QED
  BY <1>1 DEF Shown, Long

LEMMA ShownSave ==
  ASSUME Shown, ~may("early"), SaveState
  PROVE  /\ slot'.state.type = session.type
         /\ slot'.sram \in Contents /\ Len(slot'.sram) = Whole(session.type)
         /\ slot'.seen = [view |-> slot'.sram,
                          bank |-> IF session.type = "FLASH1M" THEN slot'.state.flashBank ELSE 0,
                          command |-> slot'.state.command, flashState |-> slot'.state.flashState]
<1> DEFINE sram == IF GBASavedataSize(savedata) = 0 THEN <<>> ELSE Cloned(savedata)
<1>1. /\ Sound /\ savedata.type = session.type /\ Known /\ (may("load") \/ may("restore"))
      /\ slot' = [state |-> GBASavedataSerialize(savedata), seen |-> Visible(savedata), sram |-> sram]
  BY DEF SaveState, Shown
<1>2. Settled(savedata) /\ savedata.data # "failed" /\ savedata.currentBank \in 0 .. 1
      /\ session.type \in Types \ {"AUTODETECT"}
  BY <1>1, KnownNow
<1>3. savedata.type # "AUTODETECT" /\ (savedata.type = "EEPROM" => Len(savedata.file[savedata.vf]) = 2)
  BY <1>1, <1>2, EEPROMIsLong DEF Sound
<1>4. /\ savedata.data \in {"shared", "private"} /\ GBASavedataSize(savedata) = Whole(savedata.type)
      /\ Whole(savedata.type) \in 1 .. 2 /\ View(savedata) = SubSeq(Mapped(savedata), 1, Whole(savedata.type))
      /\ View(savedata) \in Contents /\ Len(View(savedata)) = Whole(savedata.type)
  BY <1>2, <1>3, ViewIs
<1>5. sram = View(savedata)
  <2>1. ~(savedata.type = "EEPROM" /\ GBASavedataSize(savedata) = 1)
    BY <1>4 DEF Whole
  <2> QED
    BY <1>4, <2>1 DEF Cloned
<1> HIDE DEF sram, Contents
<1>6. slot'.state = GBASavedataSerialize(savedata) /\ slot'.seen = Visible(savedata) /\ slot'.sram = sram
  BY <1>1
<1>7. /\ slot'.state.type = savedata.type /\ slot'.state.command = savedata.command
      /\ slot'.state.flashState = savedata.flashState /\ slot'.state.flashBank = savedata.currentBank
  BY <1>2, <1>6 DEF GBASavedataSerialize
<1>8. slot'.seen = [view |-> View(savedata), bank |-> IF savedata.type = "FLASH1M" THEN savedata.currentBank ELSE 0,
                    command |-> savedata.command, flashState |-> savedata.flashState]
  BY <1>6 DEF Visible
<1> QED
  BY <1>1, <1>4, <1>5, <1>6, <1>7, <1>8

LEMMA ShownLoad ==
  ASSUME Shown, NEW writeback \in BOOLEAN, LoadState(writeback), ~may("early")
  PROVE  Visible(savedata') = slot.seen
<1> DEFINE back == GBASavedataDeserialize(savedata, slot.state)
           restored == Restored(back, slot.sram, writeback)
           sram == slot.sram   n == Whole(session.type)
<1>1. /\ Sound /\ slot # Nil /\ savedata' \in AtAnyAge(restored) /\ Known /\ StatesAreComplete
      /\ (may("load") \/ may("restore")) /\ (~writeback => may("load"))
  BY DEF LoadState, Shown
<1>2. slot \in Slots
  BY <1>1 DEF Known, TypeInv, TypeOK
<1>3. /\ slot.state.type \in Types /\ slot.state.command \in Commands
      /\ slot.state.flashState \in {"RAW", "START", "CONTINUE"} /\ slot.state.flashBank \in 0 .. 1
  BY <1>2 DEF Slots
<1>4. /\ slot.state.type = session.type /\ sram \in Contents /\ Len(sram) = n
      /\ slot.seen = [view |-> sram, bank |-> IF session.type = "FLASH1M" THEN slot.state.flashBank ELSE 0,
                      command |-> slot.state.command, flashState |-> slot.state.flashState]
  BY <1>1 DEF Shown, SlotShows
<1>5. Settled(savedata) /\ savedata.vf # Nil /\ savedata.data # "failed" /\ session.type \in Types \ {"AUTODETECT"}
  BY <1>1, KnownNow DEF Sound
<1>6. savedata.type = session.type
  BY <1>1, <1>5 DEF Known, ChipIsKnown
<1>7. OfGame(slot.state.type)
  BY <1>4 DEF OfGame
<1>8. /\ Settled(back) /\ back.type = session.type /\ back.data = savedata.data
      /\ back.vf = savedata.vf /\ back.file = savedata.file
      /\ back.command = slot.state.command /\ back.flashState = slot.state.flashState
      /\ back.type = "FLASH1M" => back.currentBank = slot.state.flashBank
  BY <1>3, <1>4, <1>5, <1>6, <1>7, DeserializeSettled
<1> HIDE DEF back, Contents
<1>9. back.data # "failed" /\ back.type # "AUTODETECT" /\ n \in 1 .. 2
      /\ (back.type = "EEPROM" => Len(back.file[back.vf]) = 2)
  BY <1>1, <1>5, <1>8, EEPROMIsLong DEF Whole
<1>10. /\ Settled(restored) /\ restored.type = session.type
       /\ restored.command = slot.state.command /\ restored.flashState = slot.state.flashState
  BY <1>4, <1>8, RestoredSettled
<1>15. restored.type = "EEPROM" => Len(restored.file[restored.vf]) = 2
  <2>1. savedata'.vf = restored.vf /\ savedata'.file = restored.file /\ restored.vf # Nil
    <3>1. Stands(restored, savedata')
      BY <1>1, <1>10, AtAnyAgeIs DEF Settled, Placed, Ready
    <3> QED
      BY <1>10, <3>1, SavedataAssumption DEF Stands, Settled, Placed, Ready
  <2>2. Long' /\ (EightKiB' <=> EightKiB)
    <3>1. Long'
      BY LongLoad DEF Shown
    <3> QED
      BY <3>1 DEF LoadState, Keeps, EightKiB, ChipIsKnown, may
  <2>3. session.type = "EEPROM" => EightKiB
    BY <1>1, <1>5, EEPROMIsLong
  <2> QED
    BY <1>10, <2>1, <2>2, <2>3 DEF Long
<1>11. sram # <<>>
  BY <1>4, <1>9
<1>12. Visible(restored) = slot.seen
  <2>1. CASE writeback
    <3>1. restored = GBASavedataLoad(back, sram)
      BY <1>11, <2>1 DEF Restored
    <3>2. back \in Machines /\ back.vf \in Files /\ back.data \in {"shared", "private"} /\ GBASavedataSize(back) = n
          /\ Mapped(back) \in Contents /\ n \in 0 .. Len(Mapped(back))
      BY <1>8, <1>9, ViewIs DEF Settled, Placed, Ready
    <3>3. /\ Mapped(restored) = Over(Mapped(back), Fitting(back, sram)) /\ restored.data = back.data
          /\ restored.currentBank = back.currentBank
      BY <1>4, <3>1, <3>2, LoadIs
    <3>4. View(restored) = SubSeq(Mapped(restored), 1, n)
      BY <1>9, <1>8, <1>10, <1>15, <3>3, ViewIs
    <3>5. Fitting(back, sram) = SubSeq(sram, 1, Lesser(Len(sram), n))
      BY <3>2 DEF Fitting
    <3> DEFINE a == Mapped(back)
    <3> HIDE DEF n, sram, a, restored
    <3>6. SubSeq(Over(a, SubSeq(sram, 1, Lesser(Len(sram), n))), 1, n) = SubSeq(sram, 1, n)
      <4>1. n <= Len(sram) /\ a \in Contents /\ n \in 0 .. Len(a) /\ sram \in Contents
        BY <1>4, <1>9, <3>2 DEF a
      <4> QED
        BY <4>1, LaidOver
    <3>7. SubSeq(sram, 1, n) = sram
      BY <1>4, WholeIsSeen
    <3>8. View(restored) = sram
      BY <3>3, <3>4, <3>5, <3>6, <3>7 DEF a
    <3> QED
      BY <1>4, <1>8, <1>10, <3>3, <3>8 DEF Visible
  <2>2. CASE ~writeback
    <3> DEFINE vf == "state"   masked == GBASavedataMask(back, vf, sram, vf = "state")
    <3>1. restored = masked
      BY <1>11, <2>2 DEF Restored
    <3>2. sram \in Contents /\ vf \in {"temp", "state"} /\ Placed(back)
      BY <1>4, <1>8 DEF Settled
    <3> HIDE DEF vf
    <3>3. Len(sram) >= Need(back.type) /\ back.type # "AUTODETECT"
      BY <1>4, <1>8, <1>9 DEF Need, Whole
    <3>4. Mapped(masked) = sram /\ masked.data # "failed"
      BY <3>2, <3>3, MaskedSettled
    <3> HIDE DEF masked
    <3>5. View(restored) = SubSeq(Mapped(restored), 1, n)
      BY <1>8, <1>9, <1>10, <1>15, <3>1, <3>4, ViewIs
    <3>6. View(restored) = sram
      BY <1>4, <3>1, <3>4, <3>5, WholeIsSeen
    <3>7. session.type # "FLASH1M"
      BY <1>1, <2>2 DEF StatesAreComplete
    <3> HIDE DEF restored, sram, n
    <3> QED
      BY <1>4, <1>10, <3>6, <3>7 DEF Visible
  <2> QED
    BY <2>1, <2>2
<1> HIDE DEF restored
<1>13. Stands(restored, savedata') /\ savedata'.command = restored.command /\ savedata'.flashState = restored.flashState
  BY <1>1, <1>10, AtAnyAgeIs DEF Settled, Placed, Ready
<1>14. Visible(savedata') = Visible(restored)
  BY <1>13, VisibleSame DEF Stands
<1> QED
  BY <1>12, <1>14

LEMMA ShownStep ==
  ASSUME Shown, [Next]_vars PROVE Shown'
<1>1. Known' /\ Long' /\ session' = session
  BY KnownStep, LongStep, SessionStays DEF Shown
<1>2. StatesAreComplete' /\ (may("early")' <=> may("early"))
  BY <1>1 DEF Shown, StatesAreComplete, may
<1>3. ASSUME ~may("early") PROVE SlotShows'
  <2>1. CASE SaveState
    BY <1>1, <1>3, <2>1, ShownSave DEF Shown, SlotShows
  <2>2. CASE ~SaveState
    <3>1. slot' = slot
      BY <2>2 DEF Next, vars, WriteSRAM, WriteFlash, WriteEEPROM, ReadEEPROM, Played, FrameEnded, GBAReset,
                  loadTemporarySave, LoadState, GameStops, GBAUnloadROM, Finished, Keeps
    <3> QED
      BY <1>1, <1>3, <3>1 DEF Shown, SlotShows
  <2> QED
    BY <2>1, <2>2
<1> QED
  BY <1>1, <1>2, <1>3 DEF Shown

\* A loaded state brings back what the game saw of its save when the state was made,
\* whatever has been written, masked, synced and reset since, and whether the save is
\* masked or overwritten.
THEOREM StatesAreRestored == Spec /\ StatesAreComplete => LoadRestores
<1> DEFINE IInv == may("early") \/ Shown
<1>1. Init /\ StatesAreComplete => IInv
  BY KnownInit, LongInit DEF Shown, SlotShows, Init, ChipIsKnown, MasksKeepTheirChip
<1>2. IInv /\ [Next]_vars => IInv'
  BY ShownStep, SessionStays DEF may
<1>3. IInv => [\A writeback \in BOOLEAN :
                 LoadState(writeback) /\ ~may("early") => Visible(savedata') = slot.seen]_vars
  BY ShownLoad
<1> QED
  BY <1>1, <1>2, <1>3, PTL DEF Spec, LoadRestores
=============================================================================
