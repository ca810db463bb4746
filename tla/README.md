# A TLA+ model of the Dynamic C 10 libraries

Dynamic C 10 is the compiler, BIOS and library distribution for Rabbit 4000-6000
microprocessors. This project models, checks and proves things about two parts of it
where what can go wrong is hard to test:

* the file system's cache and rollback journal
  (`src/Lib/Rabbit4000/FileSystem/FATFTC.LIB`), which keep the FAT file system
  consistent when power fails, with the help of battery-backed RAM ("BB-RAM");
* the state machines of the XBee and ZigBee driver (`src/Lib/Rabbit4000/XBee`, `wpan`,
  `zigbee`), which keep track of requests, answers and transfers over lines and
  radio links that lose them.

Library paths below are relative to `src/Lib/Rabbit4000/`, file system files and bare line
numbers to its `FileSystem/`, headers to `src/include/`.

## 1. Inventory

### The storage stack

    application
       | fat_Open, fat_Write, fat_Delete, fat_Sync, fat_tick ...
    FAT16.LIB      directories, clusters, files; checkpointed cluster operations
       | fatftc_read/write, fatrj_*, fatftc_flushdev, fatftc_regdev
    FATFTC.LIB     sector cache | rollback journals | markers    (state in BB-RAM)
       | xxx_ReadSector, xxx_WriteSector, xxx_InformStatus
    drivers        SerialFlash, FATFTL.LIB over NandFlash, SDflash, USBHost/USB_FAT

| component | state | operations | interacts with |
|---|---|---|---|
| sector cache | BB-RAM: `FTCEntry` (status, device, sector) and a buffer per entry. RAM: LRU list, `DevRoot` (busy, list of the entries being read or written) | `fatftc_read`, `fatftc_write`, `fatftc_makedirty`, `fatftc_flushdev`, `fat_tick`, `_fatftc_find`, `_fatftc_getfree`, `_fatftc_devwrite` | drivers, by call and by polling; the journal, which writes through it |
| rollback journal | BB-RAM, per partition: `RJHeader` (signature, checkpoint data), chain of `RJEntry`. RAM: `RJRoot` (trans, remain, lastoffs, flags) | `fatrj_transtart`, `fatrj_tranend`, `fatrj_rollback`, `fatrj_setchk`, `fatrj_regpartition`, `_fatrj_store_preimage` | `fatftc_write` stores pre-images; `fatftc_regdev` runs recovery and calls back into FAT16 |
| markers | BB-RAM: one-entry journals for directory entries of open files | `fatrj_regmarker`, `fatrj_setmarker`, `fatrj_unregmarker` | cache, rollback |
| device table | BB-RAM: `FTCDevInfo` | `fatftc_regdev`, `_fatftc_init`, `fatftc_deviter` | everything above |
| FAT16 core | FAT and directories on the device, `fat_part`, `FATfile` | the `fat_*` interface; `_fat_new_clust` and `_fat_free_clust` in checkpointed transactions, `_fat_chkpoint` as recovery callback | journal and cache |
| translation layer (`FATFTL.LIB`) | block maps, discard queue, state of the background job | `ftl_ReadSector`, `ftl_WriteSector`, `ftl_InformStatus`, mount scan | NAND driver below, cache above |
| serial flash and other drivers | `write_state`, page in the chip's RAM | `sf_WriteSector`, `sf_InformStatus` | cache |
| registry, SUBFS, partition table | files, MBR | read, write, rename | FAT16 |

What makes each correct:

* cache: a reader sees the last value written, whatever is evicted, written back,
  suspended or interrupted; a clean entry equals the device; no operation is
  stuck; a flush flushes.
* journal: a transaction takes effect entirely or not at all, whenever power
  fails; checkpoint data and sectors move together; recovery ends and may itself
  be interrupted.
* markers: the newest complete marker data reaches the directory, once.
* device table: cached data never reaches a device it does not belong to.
* FAT16: the FAT, the free cluster count and the checkpointed operation agree
  after recovery; no cluster belongs to two chains.
* translation layer: every logical sector has exactly one valid physical copy
  after an interrupted move; discarded blocks are erased and found again.

The behaviours that are hard to test here: power failures between any two
stores to BB-RAM, and again during recovery; devices which go on programming
after their driver has returned; calls that return `-EBUSY` and are completed
by `fat_tick` from inside some other call; drivers that refuse with `-EDRVBUSY`;
errors in the middle of operations on several sectors; the cache at its limit.
`PROJECT.json` lists them one by one under `hazards`, with their lines.

### The XBee and ZigBee driver

    application
       | xbee_cmd_*, xbee_fw_install_*, zdo_send_*, zcl_*, wpan_tick
    zcl_client.c, zigbee_zdo.c     requests to other nodes, and their answers
    wpan_aps.c                     endpoints, conversations
    xbee_atcmd.c                   AT commands to the module itself
    xbee_firmware.c, xbee_xmodem.c new firmware for the module (instead of the above)
       | frames, or bytes
    xbee_device.c, serial driver, module

| component | state | operations | interacts with |
|---|---|---|---|
| circular buffer (`XBee/xbee_cbuf.c`) | `head`, `tail`, data | `xbee_cbuf_putch`, `_put`, `_getch`, `_get`, `_flush`, `_used`, `_free` | a writer and a reader which may interrupt each other |
| AT commands (`XBee/xbee_atcmd.c`) | `xbee_cmd_request_table`, one list context, flags and network address of `xbee_dev_t` | `xbee_cmd_create`, `_send`, `_tick`, `_release_handle`, `_query_device`, `_init_device`; handlers of responses and modem status | the module, by frames; callbacks, which call it again |
| XMODEM (`XBee/xbee_xmodem.c`) | state, block number, tries, buffer | `xbee_xmodem_tx_init`, `_tx_tick` | a receiver, over a serial line; a source it reads once |
| firmware update (`XBee/xbee_firmware.c`) | state, tries, timer | `xbee_fw_install_ebl_tick` | the module's bootloader; XMODEM |
| conversations (`wpan/wpan_aps.c`) | per endpoint: table of conversations, last transaction id | `wpan_conversation_register`, `_response`, `_delete`, `wpan_tick` | handlers in the ZDO and ZCL clients |
| ZDO and ZCL client (`zigbee/zigbee_zdo.c`, `zcl_client.c`) | the callers' variables | `zdo_send_nwk_addr_req`, `zdo_send_match_desc`, `zcl_find_and_read_attributes`, `zdo_mgmt_leave_req` | other nodes |

What makes each correct:

* circular buffer: it is a queue, however the two sides interleave;
* AT commands: a query in progress has the request that will end it; after a
  query the driver knows the address the module has now, not an earlier one;
* XMODEM: the receiver gets each block once, in order; success means all of them;
* firmware update: the module runs only what it has received completely, and
  success means that it has the image;
* conversations: an answer reaches the request it answers; each request ends, with
  an answer or a timeout, and its variable is then left alone.

Hard to test: callbacks that start the next request from inside the table's own
loop; status changes while a query runs; lost, late and repeated answers; ids and
clocks that wrap; sends that fail after the request has been registered; retries
after half a transfer.

### The rest of the repository

TCP/IP (`tcpip/`), Wi-Fi and TLS, PPP, USB host, Modbus,
Rabbitnet, RIO, I2C, displays and keypads, the BIOS and cold loaders, the C
library, RabbitWeb, the console, remote program update, board libraries, samples
and utilities. None of it is modelled; `PROJECT.json` lists each under
`components` with the reason. They share nothing with the two stacks but the
cooperative scheduler: FATFTC is never entered by two tasks at once (with
uC/OS-II, `_fat_ucos_mutex_pend` sees to it), nor is the XBee driver.

## 2. Modules

    AtomicStore      what the journal promises           <- Atomic
       FtcJournal       the journal of one partition
          FtcJournal_proof    its theorems
    SectorStore      what the cache promises             <- Coherent
       FtcCache         the cache, its devices, power
          FtcCache_proof      its theorems: the table, the lists, the devices
             FtcContents_proof   its theorems: what is in the sectors
    ByteQueue        what the circular buffer promises   <- IsQueue
       XbeeCbuf         the circular buffer
          XbeeCbuf_proof      its theorems
    XbeeAtcmd        requests, query and module (MCXbeeAtcmd for TLC)
       XbeeAtcmd_proof     its theorems
    XbeeXmodem       XMODEM sender, line, receiver
       XbeeXmodem_proof    its theorems
       XbeeFirmware     the update, which drives XbeeXmodem (MCXbeeFirmware for TLC)
          XbeeFirmware_proof  its theorems
    AddressLookup    what an address request promises    <- IsLookup
       WpanConversation    conversations, ZDO client, network
          WpanConversation_proof   its theorems

### FtcJournal

One partition's journal. Its cells are the byte locations of the partition's
sectors (`Loc`, of which `Bare` are those written with `FTC_NO_PREIMAGE`) and the
bytes of the checkpoint data (`Chk`); `store` is what a read returns, cache buffers
included, since these are battery-backed as well. `valid`, `region`, `pre`, `prev` are
the fields of the entries; offsets are slot numbers. An action is one store
to BB-RAM after which the journal would look different to a recovery:

| code | actions |
|---|---|
| `fatrj_transtart`, `fatrj_tranend` | `TranStart`, `TranEnd` |
| `_fatrj_store_preimage` | `StorePreimage` (room, pre-image), `InvalidateNext`, `FillEntry`, `ValidateEntry` |
| `fatftc_write` | `Write` or `WriteDirect`, then `CopyCell` ..., `CopyDone` |
| `fatrj_setchk` | `SetChkFirst`, `SetChkAgain`, then the same copying |
| `fatrj_rollback` | `Rollback`, then per entry `RbEntry`, `RbCopy`, `RbInvalidate`, at last `RbFinish`; `RbBusy` and `RbError` are its returns from the loop |
| `fatftc_regdev` | `RegDev` (with the rollback following), `RegDevPurge`, `RegDevCallback`; `RegDevNoJournal`, `RegDevNoRecovery` |
| `fatrj_regpartition` | `RegPartition`, `RegPartitionDone` |
| `fatftc_flushdev` with `FTC_PURGE` | `FlushPurge`, `FlushPurgeDone` |
| power failure, `_fatftc_init` | `Crash` (possible in every state), `BootInit` |

`owed` is a history variable: the checkpoint data a recovery has to hand to
FAT16. The refinement mapping to `AtomicStore` maps its `view` to `store`, its
`com` to `Recovered`, what a rollback started now would leave, and its mode to
the phase; `Bare` cells are exempt, since `FTC_NO_PREIMAGE` declares their old
content meaningless.

### FtcCache

The cache over several devices. The code is sequential; a call (`call`, `pc`) is cut
wherever devices or power can come in between: at every poll, every hand-over to
a driver, and between stores to the entry table. `fat_tick` is not atomic either:
`poll` is the device it polls next, `wr` the `_fatftc_devwrite` in progress, and both
run inside whatever call has polled. A poll inside the continued read of a poll
starts over from the first device and is not resumed afterwards: the outer poll
would only poll the remaining devices again.

A device has a `chip` status. A *queueing* device is the serial flash: `sf_WriteSector`
loads sectors into the chip (`loading`, 0 returned) and with the last one
starts programming (`program`, `-EBUSY` returned); when `sf_InformStatus` finds it
finished, the sectors are on the device (`Programmed`). Any other device has written
the sector when the driver returns. `background` is a driver busy with something
else: the maintenance of the translation layer, or the SPI semaphore that makes
`sf_WriteSector` return `-EDRVBUSY`. A read-only device returns `-EROFS`.

| code | actions |
|---|---|
| `_fatftc_find` and its callers' loops | `Find`, `Lookup`, `Hit`, `Miss` |
| `_fatftc_getfree` | `GetFree`, `Evict` (with `_fatftc_devwrite`), `Assign` |
| rest of `fatftc_read`, `fatftc_write` | `Fill`, `Filled`, `Copy`, `Mark` |
| `_fatftc_devwrite` | `DevWrite` (inside `Evict` and `FlushEntry`), `WriteEntry` per sector, `WriteDone`; continued by `PollWrite` |
| `_fat_tick` | `PollIdle`, `PollWrite`, `PollRead` |
| `fatftc_flushdev` | `FlushWait`, `FlushBusy`, `FlushEntry`, `FlushPoll`, `FlushNext` |
| drivers | `Programmed`, `BackgroundBegins`, `BackgroundDone` |
| power failure, `_fatftc_init`, `fatftc_regdev` | `PowerFail` |

After a restart the devices are registered again in either order, and only
registrations that succeed are followed. `FTC_MAKE_LRU` is a free choice at each insertion.
Two things are tidied up that the code leaves: the list and counts of an
operation that is over, and the local variable `ent`; neither is read again.

`SectorStore` says that a sector changes only while a write of it is in
progress, to the value written, and has changed when success is reported;
`Coherent` maps its `view` to what `_fatftc_find` would find, or the device.

### XbeeCbuf

One writer and one reader, each cut where it accesses something the other writes:
`Putch` (store the byte), `PutchCheck`, `PutchPublish`; `Put`, then `PutStore`,
`PutAdvance` per byte, `PutDone`; `Getch`, `GetchRead`, `GetchAdvance`; `Get`,
`GetCopy`, `GetAdvance`, `GetDone`; `Flush`, `FlushDone`. Indices are bytes, so each load
or store of one is indivisible. `room` and `avail` are what callers may remember of
the results of `xbee_cbuf_free` and `xbee_cbuf_used`. `cbuf.h` says full is
"`head == (tail - 1)`"; the code has it the other way round, which the model follows.

### XbeeAtcmd

Single-threaded code whose difficulty is nesting, so a call is one step, computed by
operators on a record of the driver's state: `Query` calls `BeginList`, `MakeRoom`
(which may `Tick`, which may `Expire`, whose callback may query again) and `LaunchList`;
`ListCallback` calls `Advance` or `Mismatch`, at whose end `EndQuery` may start over.

| code | operators and actions |
|---|---|
| `xbee_cmd_tick` | `Tick`, `Expire`; `CmdTick` |
| `xbee_cmd_create`, `_send`, `_release_*` | `MakeRoom`, `Send`, `Release`; `Create`, `SendRequest`, `ReleaseHandle` |
| `xbee_cmd_query_device`, `_init_device` | `Query`, `QueryReady`, `QueryInTick`, `InitDevice`; `CmdQuery`, `CmdInit` |
| `xbee_cmd_list_execute`, `_xbee_cmd_issue_list`, `_xbee_cmd_list_callback` | `BeginList`, `LaunchList`, `Advance`, `Mismatch`, `ListCallback` |
| `_xbee_cmd_query_handle_ai`, `_handle_end` | `HandleAI`, `EndQuery`, `EndInTick`, `EndOnAnswer` |
| `_xbee_frame_dispatch` and its handlers | `Receive`, `HandleResponse`, `ModemStatus` |

The three forms of `xbee_cmd_query_device` are the same code where a nested call can no
longer do what the outer one does: inside `xbee_cmd_tick` a second tick returns at
once, since a second has not passed. The register list is shortened to `AI`, `NP`,
`MY`; the registers before `AI` behave like `NP`. A frame id is represented by the slot that
sent it, and what is under way under an id that no request has is left out
(`Forget`). `cts` stands for the module's CTS and for room in the serial buffer.
Of the modem status frames, joined (with key-established, which does the same) and
disassociated are there. The module (`Answer`, `Join`, `Leave`, `Report`) is external: it answers in
order, its status frames arrive, anything else may be lost.

### XbeeXmodem and XbeeFirmware

`TickStart` to `FinalTimeout` are the states of `xbee_xmodem_tx_tick`; a call that falls
through several states of the `switch` is one action. A block is a number;
`down` and `up` are what is under way. The receiver, which is not in the repository, is
the protocol's: it acknowledges the next block and repetitions of the last, refuses a
damaged one and cancels otherwise. The line loses, damages and garbles.
`XbeeFirmware` adds `xbee_fw_install_ebl_tick` (`FwReset` to `FwTimeout`) and the bootloader's
menu. `base` remembers where in the source a transfer began: nothing rewinds it.

### WpanConversation

| code | operators and actions |
|---|---|
| `wpan_conversation_register` | `Register`, `NextId`, `Deadline` |
| `wpan_conversation_response` and the handlers | `Matching`; `AddressAnswered`, `MatchAnswered`, `Unexpected` |
| `_wpan_endpoint_expire_conversations` in `wpan_tick` | `Expired`, `Expire` |
| `zdo_send_nwk_addr_req` | `AskAddress` |
| `zcl_find_and_read_attributes`, `zdo_send_match_desc` | `FindAndRead` |
| `wpan_endpoint_next_trans` in `zdo_mgmt_leave_req` | `LeaveRequest` |
| clock, network | `Second`, `Lose` (and `Received`, which may leave a copy) |

An element of `air` stands for a request and then its answer: a node answers
when it gets the request, so the two never need to be told apart. `age` is a history
variable, how long ago a conversation was registered, and also says how late
`wpan_tick` may be (`Slack`). `asked`, too, is history: the node whose address is wanted.
`AddressLookup` states what `zdo.h:147-166` promises to the caller.

## 3. Runs

`tlc -config <cfg> <module>`, with two workers. The first ten pass; states are
distinct states.

| run (cfg) | question | states |
|---|---|---|
| `journal` (`Journal`) | is a transaction atomic under power failures at any store, is the invariant inductive in practice, does the callback get the right data | 258 000 |
| `journal_live` (`JournalLive`) | with I/O errors and `norecovery`: nothing more is lost than those allow, and recovery ends | 24 000 |
| `cache_polling` (`CachePolling`) | calls without `FTC_WAIT`, a driver that is often busy or fails | 810 000 |
| `cache_pages` (`CachePages`) | pages of two sectors and one page buffer | 947 000 |
| `cache_power_fail` (`CachePowerFail`) | calls with `FTC_WAIT` on a removable serial flash, I/O errors, power failures at any step, torn sectors: reads current, flush complete, nothing lost, every call ends | 304 000 |
| `cache_devices` (`CacheDevices`) | two devices, one read-only, three shared buffers | 1 702 000 |
| `cbuf` (`Cbuf`) | every interleaving of a writer and a reader of the circular buffer | 811 000 |
| `atcmd` (`Atcmd`) | nested queries, lost answers, a full table, a module that joins and leaves | 430 000 |
| `firmware` (`Firmware`) | an upload over a bad line, with timeouts, resets and a block number that wraps | 1 800 |
| `conversation` (`Conversation`) | lost, delayed and repeated answers, failed sends, ids and clock that wrap | 173 000 |
| `journal_io_error` (`JournalIoError`) | a violation, section 5 | |
| `firmware_retry` (`FirmwareRetry`) | a violation, section 5 | |

### Properties

*Journal.* `Atomic` is the refinement of `AtomicStore`. `IInv` is the inductive
invariant (section 4). `CallbackData`: the callback gets the checkpoint data of the
last completed transaction. `OneCheckpoint`: never two live checkpoint entries.
`RecoveryEnds`: a registration that has begun ends unless power fails.

*Cache.* `NoDuplicates`: no sector has two used entries. `CleanMatches`: an entry
that is not dirty equals what is, or is about to be, on the device. `LruComplete`:
the LRU list has each used entry that is not being filled, once. `BusyListed`: a
busy mark is always in the list of an operation in progress, so that it will be cleared.
`PagesReleased`: page buffers are used only by writes in progress. `FlushComplete`: a
flush that reports success has left nothing dirty. `ReadCurrent`: a read returns
the buffer of its sector, with its current contents. `Coherent`: the refinement of
`SectorStore`. `CallEnds`: every call returns. A property is checked in the runs
where its hazards occur, not in all.

*Circular buffer.* `IsQueue` is the refinement of `ByteQueue`. `RoomKept` and
`AvailKept`: what one side was told of free room or bytes present stays true until it
uses it. `IInv` is the inductive invariant.

*AT commands.* `QueryTracked`: a device marked as being queried has the request in the
table, at the register the list is at, that will end the query by its answer or its
timeout. `AddressFresh`: after a query that succeeded, with nothing left to refresh and
no status frame under way, the driver has the module's present address, however often
that changed meanwhile. `JoinedTrue`: a device believed to be joined is, or a frame that
says otherwise is under way. Part of `TypeOK` is that what is under way matches its
request.

*Firmware.* `InOrder`, `Complete`: the receiver has a prefix of what was read, and after
success all of it. `Loaded`: from the end of a transfer until the module is told to run it,
it holds all that was read since the transfer began. `TransferEnds`: a transfer that
has started ends.

*Conversations.* `IInv`: ids are unique, what is under way under a conversation's id
belongs to it, a variable is pending if and only if exactly one conversation will set
it. `IsLookup` is the refinement of `AddressLookup`. `NotEarly`: no timeout before its
time, although the clock wraps. `Ends`: every conversation ends.

### Bounds

* Journal: two byte locations (one `Bare`), one checkpoint byte, two values, two
  entries. Two entries are the smallest chain with an order, stale entries
  behind a new one, and an overflow. The proofs need none of these bounds. With
  I/O errors one location suffices, since the errors' effect is to stop.
* Cache: two buffers for three or four sectors, so that entries are evicted; two
  contents, so that old and new differ (one in `cache_devices`, whose
  properties do not look at contents); pages of two sectors; two devices only
  where sharing matters, with three buffers, since the code needs one more buffer
  than devices. `Ops` restricts the calls of `cache_pages` to those that write, and
  only `cache_devices` and the violations have a bare `fat_tick` among the calls, since every call polls.
* Circular buffer: a capacity of 3, the smallest that `xbee_cbuf_init` accepts, so that
  all positions of the indices around the wrap occur. The proofs are for every capacity.
* AT commands: one device, two slots (the default of `atcmd.h:23`), one of which the
  application may use, two addresses, two status frames under way. Three registers have a first, a
  middle and a last; the refresh starts in the middle.
* Firmware: five blocks and block numbers modulo 3, so that numbers wrap
  and repeat; three tries and three resets as in the code.
* Conversations: two slots for two callers and a discovery, so that the table is full; ids
  modulo 2, the fewest for which two can be told apart; a clock modulo 6 with timeouts of 1 and 2, so
  that deadlines fall on either side of the wrap and on the reserved 0; two datagrams
  under way (`WireSize`).
* Nothing counts upwards: the state spaces are finite, and runs are of any
  length.
* Symmetry is used on contents of sectors, only in runs without liveness:
  contents are copied, never compared with a constant.

Where a passing run narrows the constants it stays away from one of the
violations of section 5, which would otherwise hide everything behind it:
`CleanMatches` and `Coherent` are checked without the combination of
calls without `FTC_WAIT` and a device that programs in the background, `FlushComplete`
without drivers busy on their own, `PagesReleased` without I/O errors, and
`CleanMatches` over power failures with removable devices, whose clean entries
are dropped at a restart. In the same way
`UserSlots`, `LateAnswers`, `Punctual`, `Paced` and `Patient` keep the runs of the XBee driver
away from what section 5 says of each.

### Fairness

`FairSpec` of the journal: a call that has begun continues (`Continue`), and after a power
failure the application starts and mounts its partitions (`Boot`). The code has no
waiting there. Clients are never obliged to call anything, and power may fail at any
time.

`FairSpec` of the cache: the code runs (`WF_vars(Run)`; it is one thread and never
yields inside FATFTC), and each device finishes what it does (`WF_vars(Device(d))`:
programming times are bounded by the data sheets). Neither says that a *poll*
happens: a call that waits without polling would violate `CallEnds`, as the mutant
of `Tick` shows. A power failure ends a call as well, but no behaviour is obliged to
have one, so `CallEnds` speaks about all those calls that power does not cut short.

`FwSpec`: the application goes on calling the tick (`WF_vars(FwTick)`; the tick itself
decides that time is up), and what is under way arrives or is lost (`WF_vars(Passes)`). The
receiver is never obliged to ask. `Spec` of `WpanConversation`: time passes (`WF_vars(Second)`) and
the application goes on calling `wpan_tick` (`WF_vars(Expire)`), as `aps.h` demands of it; the
network is obliged to nothing. `XbeeCbuf` and `XbeeAtcmd` have no fairness: their runs check
safety only.

## 4. Proofs

`FtcJournal_proof` proves, for all sets of locations, checkpoint bytes and
values and for every size of the journal:

* `TypeCorrect` and `Invariance`: `TypeOK` and `IInv` hold always;
* `CheckpointUnique` and, without device errors, `CallbackCorrect`;
* `Refinement`: `Spec => Atomic`.

The assumptions are those of the module: `Bare` is part of `Loc`, `Loc` and `Chk` are
disjoint, `Chk` is not empty, the null byte is a value, and at least one entry fits.

The argument. Atomicity is not inductive: that the bytes of a transaction can be
restored depends on the shape of the chain of entries, which in turn depends on
which call is in progress. `IInv` has one part per reason: `Phase` (where the call
stands, and that outside of transactions and rollbacks the first entry is not valid),
`Chain` (the journal ends; entry `i` is linked to `i - 1`), `OpenTransaction` (exactly
the entries stored since `fatrj_transtart` are valid, so those of earlier transactions
behind them are cut off by `InvalidateNext`), `Protected` (what is about to be
overwritten has a pre-image), `Checkpoint` (the volatile flag agrees with the
entries), `RollingBack` (the entries up to the current one remain, and what of its
region has been restored is restored), and `Owed` (recovery preserves the
checkpoint data). The proof has a lemma per group of actions.

For the refinement the key is how `Recovered` changes: a new entry behind the others
does not change it, because the entry's pre-image is the present content unless an
earlier entry covers the byte (`GrowRecovered`); writing a covered byte does not
change it (`RecCovered`); undoing the last entry does not, because the entry's
bytes are restored first (`RecStable`). Then only `TranEnd`, and what ends an
unfinished undo, moves `com`, and each of these has its action in `AtomicStore`.

`XbeeCbuf_proof` proves, for every capacity, every set of bytes, and any interleaving:

* `Invariance`: `IInv`; `RoomStays`, `AvailStays`: `RoomKept` and `AvailKept`;
* `Refinement`: `Spec => IsQueue`.

`IInv` says what each side has learned about the other's index and not yet used:
after the writer has seen a free place it stays free, since the reader's
index only moves away from it, and the same the other way round. The arithmetic
of wrapped indices is stated once, in lemmas on `Dist` and `Wrap`. The refinement maps the queue
to what lies between the indices: only the stores of `head` and `tail` change it. It is
assumed that there is one writer and one reader, and that byte indices are stored
indivisibly, as they are on this processor; that the capacity is at least 3 is what
`xbee_cbuf_init` checks.

`XbeeXmodem_proof` proves, for every file and any number of block numbers from 2 up:

* `Order` and `Completeness`: if the peers are `Punctual`, `InOrder` and `Complete`
  hold always.

The invariant `XInv` relates the sender's state, the single packet or character that
may be under way, and how many blocks the receiver has: while a block waits for its
answer the receiver has either all blocks before it or that one as well, and an answer under
way tells which. That is why one bit of the block number suffices, and why a timeout
that fires too early breaks it.

`WpanConversation_proof` proves, for any numbers of callers, nodes, conversations, ids and seconds:

* `Invariance`: if ids are `Paced` and callers `Patient`, `IInv` holds always;
* `Promise`: under the same assumptions, `Spec => IsLookup`.

`IInv` is inductive as it stands: a new id is fresh, so a new request has nothing
under way but its own datagram; an answer ends its conversation, so copies of it that
come later match none.

* `NoEarlyTimeout`: `NotEarly`, for all callers and all ids.

Its invariant, `Timed`, says that the deadline of a conversation younger than its timeout is
ahead of the clock by the rest of that time, or by a second more because 0 is not used
as a deadline, and that modulo `TimeMod`. The lemma `Wraps` replaces the remainder by a case
distinction, and since twice a timeout fits into the clock (`ModAssumption`; 16 bits of seconds in
the code) such a deadline never looks past.

`FtcCache_proof` proves, for any number of devices, entries, page buffers and sectors:

* `CacheTypes`, `OneEntryPerSector`, `LruListComplete`, `BusyEntriesListed`: `TypeOK`,
  `NoDuplicates`, `LruComplete` and `BusyListed` hold always, I/O errors, refusing drivers and
  power failures included;
* `PagesComeBack`: `PagesReleased`, if there are no I/O errors, no power failures and no read-only
  devices. These are real hypotheses: section 5 shows that errors leave page buffers marked.

The assumptions are those of the module, each from the code: more buffers than devices, a page
of at most one sector more than there are page buffers (`fatftc_regdev` returns `-ETYPE`
otherwise), a number of sectors that pages divide, and a page of fewer sectors than the
constant `READ`, since a page has at most 2^7 (`FATFTC.LIB:650-651`).

None of these invariants is inductive. `CacheInv` adds what each step knows that an earlier one
has found out, although `fat_tick` has run in between. `Control` is about the call in
progress: `CallOK` (which calls come where; while data is stored nothing is polled), `NotCached` (after
`_fatftc_find` has failed the sector stays out of the cache until the call has an entry for it),
`Chose` (the entry `_fatftc_getfree` has taken is not being read), `Filling` and `Unlisted` (an entry
out of the LRU list is free, being read or about to be filled), `ToStore`. `Data` is about the table
and the devices' lists: `MarksUsed`, `NoDuplicates`, `Lists` (a device is busy with nothing, the read of
one entry, or the write of one page, of different entries all dirty), `Progress` (in a write only the
sector given last can be marked busy), `BusyListed` and `Once(lru)`. The lists of `_fatftc_devwrite` are in the order of sectors: `Ranks` and `OrderedFacts`
say that `Ordered` has each member of a finite set once, and `PageSize` and `ListFacts` count
that a write's list is exactly one page, which is why it finds enough page buffers.

`FtcContents_proof` goes on from `CacheInv` and proves, again for any number of devices, entries,
page buffers, sectors and any contents:

* `ReadsCurrent`: `ReadCurrent`, with no hypothesis;
* `CleanEntriesMatch`: `CleanMatches`, if `Careful`;
* `FlushesAll`: `FlushComplete`, if `Steady`;
* `StoresSectors`: `Spec => Coherent`, if `Careful` and `Whole`.

The hypotheses are the limits of the code, not of the proof: TLC finds a violation, most of
them those of section 5, when a clause is dropped.

* `Careful`: no device is read-only (a refused write marks its entries clean); calls without `FTC_WAIT`
  only where a page is one sector and devices do not queue it (otherwise a call writes to an
  entry that its device has already been given); where power may fail, all devices are removable.
* `Steady`: with `FTC_WAIT`, drivers are not busy on their own, and either pages have one sector or nothing
  keeps page buffers in use, neither errors nor another call's write. A flush without `FTC_WAIT`
  needs none of this.
* `Whole`: where power may fail a page is one sector. A serial flash that loses power
  while it programs a page may lose all of it, and what was in page buffers is not written again:
  `_fatftc_init` passes them by (462).

Every cache run that checks one of these properties satisfies its hypotheses.

The invariant has a part for each question. `Order`: which step of a call follows which, and
that entries are purged only by the write that `_fatftc_getfree` waits for (`Purging`), so
that the entry a call has found is still its own when it goes on (`Found`); `ReadsCurrent`
needs no more. `Devices`: whose operation each device is busy with (`Waited`: if all calls wait, only the call in
progress has one), and what a driver that looks idle has finished (`Chips`, `Suspended`). `Contents` is
`CleanMatches` with what makes it inductive: `Copied`, and for each device `Carried`,
which follows the list of a write down to `Due`, the sectors not given to the driver yet: the others are, or
will be, on the device as the buffers have them. When the list is done, `WriteDone`
can mark its entries clean. `Prompt`, `PagesFree` and `Flushes` follow a flush through the entry table: none behind it is
dirty on its device, or `_fatftc_devwrite` is writing it and the flush will wait.

For the refinement, `ViewKnown` restates what a reader sees without reference to the state of calls: the
dirty entry of the sector, or the device. The steps then fall into three kinds: most change
neither dirty entries nor the device's content where none is (`ViewFrame`); `WriteDone` makes entries
clean that agree with the device; `Copy` and `Mark` change the sector of the call in
progress, at once if its entry was dirty before, otherwise when it is marked.

`XbeeFirmware_proof` proves, if the peers are `Punctual`, for every image, any number of tries and
resets and of block numbers from 2 up, and any line:

* `FwTypes`, `FwOrder`, `FwCompleteness`, `FwLoaded`: `FwTypeOK`, `InOrder`, `Complete` and `Loaded`
  hold always; `FwTypes` includes that never more than two things are under way on
  either line;
* `FirstTransferComplete`: what `firmware_retry` refutes, `ImageComplete`, does hold if the
  transfer that succeeded began at the start of the source.

`FwInv` has a part per stretch of the update, each saying what may still be under way and where the
module stands: `Before`, `Reset`, `Prompt`, `Wait`, `Sending`, `Delivered`, `Failed`, and `Idle` for the
sender between transfers. While it is `Sending` it contains `XInv` of `XbeeXmodem_proof`, whose
lemmas are used again, with two additions: requests and answers together are at most two
(`Outstanding`), and an acknowledgement of the end comes only from a receiver that had it (`Ending`).
`Delivered` is the heart of `Loaded`: neither a repeated `EOT` nor a second prompt makes the
bootloader begin another upload before it is told to run.

`XbeeAtcmd_proof` proves, for a table of any size, any addresses and any number of slots
that the application uses:

* `AtTypes`: `TypeOK` holds always, for any number of devices and with late answers;
* `JoinedRightly`, `AddressRight`: with one device, `JoinedTrue` and `AddressFresh` hold always, also
  with late answers;
* `QueryEnds`: with one device, and if no answer is handled after its request's time, `QueryTracked`.

One device is a hypothesis because all devices share one list context, and section 5 shows what late
answers do to `QueryTracked`; the other assumption is that no module is given the address 0xFFFE,
which means "none". `AtInv` is: `Sound`, that is the types, `Matched` (what is under way names its
request), `Framed` (only status frames are without a slot), `Used` (a slot in use has a callback),
`News` (what a frame says is so, or a status frame behind it corrects it); `True`, that is
`Known` and `Fresh`, what the driver believes unless a status frame is coming; and `Tracked`. A call of this
code nests others, so the proof follows the operators and not the actions: it has lemmas
for each of them that say what holds of the state it returns if it held of the one it was given
(`Onward`: `Sound` and `True` are kept; `Timely`: no request that is not due is taken away; `Kept`,
`Started`, `Ready`, `Ripe`: which slot the current list has or will get). The lemmas on `MakeRoom`,
`Query` and `Expire` do not depend on how deep the calls nest. The loop of
`xbee_cmd_tick` and the filter of what is under way (`Others`) are recursive functions, about
which the lemmas reason by the smallest number where they would fail.

What stays with TLC is liveness (`RecoveryEnds`, `CallEnds`, `TransferEnds`, `Ends`), which
is beyond the prover. Every invariant, action property and refinement that a passing run checks is
proved, where hypotheses are named above under them.

## 5. Where the code departs from what it says

Two runs keep a disagreement reproducible:

* `journal_io_error`: `fatrj_rollback` invalidates the first entry on every
  outcome except `-EBUSY`; after a write error the promised retry finds nothing to do.
* `firmware_retry`: when a step of the update takes too long, it starts over from the
  reset without rewinding the source. The second upload sends what is left of the image, in the worst
  case nothing, and `xbee_fw_install_ebl_tick` returns "update completed
  successfully". (The update of OEM files does seek back.)

The others were met while translating the code. Each is reproduced by the named
change to a configuration; the passing runs stay away from it, since it would hide
everything behind it.

* `Journal.cfg` with `INVARIANT CheckpointDelivered`: `fatftc_regdev` purges the
  journal (line 781) before it calls the checkpoint callback; a power failure in between loses
  the data, where its description (611-612) says that it is reset after the callback.
* `CachePolling.cfg` with `Queueing = {1}`, `Sectors = 2`, `INVARIANT CleanMatches`: writing to an entry
  that is being written back is accepted, but the entry is marked clean when the first
  write has finished, so the second never reaches the device. It takes a flush
  without `FTC_WAIT`, which returns `-EBUSY` and leaves the write to `fat_tick`, and a write to the
  same sector meanwhile (1705, 1746, 1074).
* `CachePowerFail.cfg` with `Queueing = {}`, `Background = TRUE`, `IoErrors` and `PowerFails` `FALSE`,
  `INVARIANT FlushComplete`: when the driver is busy with work of its own, a flush with `FTC_WAIT` counts
  the refused entry as written (1860-1862). The same lines count an entry that is refused because the page
  buffers are in use: `CachePages.cfg` with `IoErrors = TRUE`, `INVARIANT FlushComplete`.
* `CachePages.cfg` with `PowerFails = TRUE`, `Removable = {1}`: `Coherent` fails, since the sectors of a
  page that no entry holds are lost if power fails while the page is programmed (1009-1018, 462).
* `CachePages.cfg` with `IoErrors = TRUE`, `INVARIANT PagesReleased`: errors leave the shared page
  buffers marked as used (1017, 1046-1054).
* `CachePowerFail.cfg` with `Removable = {}`, `INVARIANT CleanMatches`: the entry table says
  "clean, valid" between the assignment of an entry and the end of its read; a power
  failure there leaves a cached sector with another one's bytes, on devices that are
  not removable (469, 1254).
* `Atcmd.cfg` with `SPECIFICATION FairSpec`, `PROPERTY RefreshServed` and no symmetry: a query that ends
  starts the refresh that was asked for while its own request still has its slot. With
  two slots and one used by the application the start fails, and its error is ignored;
  only `xbee_cmd_tick` tries again, when some request times out (the comment in
  `xbee_atcmd.c:141-143` thinks of that path only). The address stays the old one until
  then.
* `Atcmd.cfg` with `LateAnswers = TRUE`: an answer handled after its request
  has timed out, but before `xbee_cmd_tick` ran, can leave a query in progress without
  its request (`QueryTracked`). The same with two devices, which share the one
  list context `_xbee_atcmd_query_regs_head` (`xbee_atcmd.c:756`).
* `Firmware.cfg` with `Punctual = FALSE` and only `INVARIANT Complete`: after a timeout that fired although the answer
  was on its way, the late answer is taken for the answer to the next block, and success can
  be reported without the last block (`Complete`). Ten seconds make it unlikely on a
  serial cable.
* `Conversation.cfg` with `Paced = FALSE`: ids are 8 bits, and an answer is matched by its id
  alone, neither by sender nor by cluster (`wpan_aps.c:526`); if ids come round while a
  conversation is open, a variable gets bytes of another answer. With `Patient = FALSE`: a caller that
  is told of an error and asks again at once has two conversations for its variable,
  since the failed request's one stays (`zigbee_zdo.c:1102`); the older one's timeout then
  overwrites the answer to the newer.

## 6. Not modelled, and why

* In FATFTC: markers (`FTC_MARKER`, `FTC_ONMOD`), the choice and reassignment of device
  slots, failing registrations, purging and dropping flushes on the cache's side
  (and `FTC_NOWRITE` on the journal's), the addresses computed by `_fatftc_init`. They
  are next in the plan.
* The composition of cache and journal is one way: `FtcJournal` takes reads and writes
  of sectors as `SectorStore` describes them. Its `store` survives power failures because the
  cache does, which is `Coherent` over `PowerFail`; the violations above are the
  exceptions.
* A torn copy of a *sector* into a cache buffer is left out of `FtcCache` (`Copy` is one
  step); `FtcJournal` has it byte by byte.
* In `xbee_atcmd.c`: parameters and their encodings, remote commands, queued changes,
  requests without a callback, other register lists than the query's, refused commands,
  coordinator and reset status; answers that come more than 255 commands late.
* In `xbee_device.c`: the byte parser of `xbee_dev_tick`, resets, modes.
* In `xbee_xmodem.c`: CRC arithmetic (a damaged block is seen as damaged), errors of the
  serial driver, a source that returns short blocks before its end (then lines 322-328 fail with a positive
  result), the checksum variant; the FLUSH state, which no code enters.
* In `xbee_firmware.c`: OEM files, and updates over the air. A bootloader whose first
  characters C are all lost is waited for without a timeout (lines 334-351 return before the
  shared one); `TransferEnds` starts after that.
* In `wpan_aps.c`, `zigbee_zdo.c`, `zcl_client.c`: endpoint and cluster tables, the ZDO server,
  descriptor and binding requests (the same conversations with other handlers), the
  reads a discovery causes. Handlers that delete their own conversation, as `aps.h:510-514` allows, could make
  the caller delete a new one in the same slot (`wpan_aps.c:458`, `537`); no handler in the repository
  does.
* Hazards seen in code that is not modelled, besides those in `PROJECT.json`: marker reads and the busy state
  (`FATFTC.LIB:1457`); reassignment of slots that hold markers (456); registration with every
  entry dirty (760, 1218); a caller's variable kept in `dr->bbuf` (1509); the addresses of page buffers
  (420) and a comparison with the wrong constant (1645); devices that keep returning errors
  (877); `ftl_WriteSector` overwriting its argument (`FATFTL.LIB:1052`); interrupted
  `_fat_chkpoint` (`FAT16.LIB:1697`); dropped bytes when the buffer of `xbee_ota_client.c:54` is full.
* `FTC_LOCKED`, which no code sets; uC/OS-II; debugging code; `FATFTC_NBTEST`.
* Deadlock is checked in every run except those of `XbeeFirmware`, which really stops when the
  update has returned its result.

## 7. Plan

Done: the modules of section 2. What would add most next:

1. `FtcMarker`: markers with power failures, on the journal's pattern; abstractly,
   the directory entry holds the old or the new marker data, never a mixture.
2. `FtcDevices`: the device table: `fatftc_regdev` in full, reassignment, purging
   flushes; that cached data never reaches another medium.
3. `FtcLayout`: the layout of BB-RAM as arithmetic, with a theorem that the areas are
   disjoint for all constants that satisfy the stated conditions.
4. `FatChain`: allocation and deletion of cluster chains in checkpointed transactions
   over `AtomicStore`, with `_fat_chkpoint` as recovery; no cluster in two chains, the
   interrupted operation completed exactly once.
5. `Ftl`: block moves, the discard queue and the mount scan of the translation
   layer with power failures.
6. `XbeeFrames`: the byte parser of `xbee_dev_tick`, with frames cut short and resynchronised.
7. Small machines elsewhere: registry's file replacement, link-local addresses, the
   DHCP server's leases, the serial ports' assembler buffers, OEM firmware files.
