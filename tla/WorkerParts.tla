---------------------------- MODULE WorkerParts ----------------------------
(***************************************************************************)
(* A worker's inside and the ways to it and from it, side by side:         *)
(* research beside trading, the broker object of the runtime, its crypto   *)
(* orders and its listings, the control channel, and the window.  They     *)
(* share no state.  A behaviour picks one part and runs it; the others     *)
(* stay where they begin.                                                  *)
(***************************************************************************)
EXTENDS ResearchHost

CONSTANTS
    Nobody, Closer, MaxBrokers,                                     \* BrokerSession
    MaxWorkers, MaxCalls,                                           \* ControlChannel
    Intent, Binding, Identity, Life, MaxTime, MaxLinks, MaxReviews, \* CryptoRoute
    Item, PageSize, MaxPages,                                       \* BrokerReads
    Habits, MaxGeneration, MaxFaults,                               \* SessionDesk
    None

VARIABLES
    part,                                                   \* the part that runs
    made, broker, unavailable, open, up, verified,          \* BrokerSession
    reader, engine, task, cancelled, connecting, command, closing, close,
    posix, lock, channel, token, intent, worker, caller, calls, \* ControlChannel
    link, account, adapter, op, book, issued, placed, clock,    \* CryptoRoute
    list, bad, read, listing,                                   \* BrokerReads
    window, call, late, host, approvals, fenced, habit, presses, faults     \* SessionDesk

brokerVars == <<made, broker, unavailable, open, up, verified, reader, engine, task, cancelled,
                connecting, command, closing, close>>
channelVars == <<posix, lock, channel, token, intent, worker, caller, calls>>
cryptoVars == <<link, account, adapter, op, book, issued, placed, clock>>
pageVars == <<list, bad, read, listing>>
deskVars == <<window, call, late, host, approvals, fenced, habit, presses, faults>>
hostVars == <<part, vars, brokerVars, channelVars, cryptoVars, pageVars, deskVars>>

Parts == {"research", "broker", "channel", "crypto", "pages", "desk"}

Runtime == INSTANCE BrokerSession WITH
    lock <- connecting, at <- command, desk <- reader, Command <- Client

Channel == INSTANCE ControlChannel WITH client <- caller

Crypto == INSTANCE CryptoRoute WITH requests <- placed, now <- clock

Reads == INSTANCE BrokerReads WITH result <- listing

Window == INSTANCE SessionDesk WITH desk <- window, worker <- host

ASSUME PartsAssumption ==
    /\ Runtime!BrokerSessionAssumption
    /\ MaxWorkers \in Nat
    /\ Crypto!CryptoAssumption
    /\ Reads!ReadsAssumption
    /\ Window!DeskAssumption

-----------------------------------------------------------------------------
(* A part that does not run has one way to begin. *)
HostInit ==
    /\ part \in Parts
    /\ Init /\ (part # "research" => connected = FALSE)
    /\ Runtime!Init
    /\ Channel!Init /\ (part # "channel" => posix = FALSE /\ intent.running = FALSE)
    /\ Crypto!Init /\ (part # "crypto" => account = CHOOSE b \in Binding : TRUE)
    /\ Reads!Init /\ (part # "pages" => list = <<>> /\ bad = {})
    /\ Window!Init /\ (part # "desk" => window.shown.missing /\ habit = CHOOSE h \in Habits : TRUE)

ResearchNext ==
    /\ part = "research" /\ Next
    /\ UNCHANGED <<part, brokerVars, channelVars, cryptoVars, pageVars, deskVars>>
BrokerNext ==
    /\ part = "broker" /\ Runtime!Next
    /\ UNCHANGED <<part, vars, channelVars, cryptoVars, pageVars, deskVars>>
ChannelNext ==
    /\ part = "channel" /\ Channel!Next
    /\ UNCHANGED <<part, vars, brokerVars, cryptoVars, pageVars, deskVars>>
CryptoNext ==
    /\ part = "crypto" /\ Crypto!Next
    /\ UNCHANGED <<part, vars, brokerVars, channelVars, pageVars, deskVars>>
PagesNext ==
    /\ part = "pages" /\ Reads!Next
    /\ UNCHANGED <<part, vars, brokerVars, channelVars, cryptoVars, deskVars>>
DeskNext ==
    /\ part = "desk" /\ Window!Next
    /\ UNCHANGED <<part, vars, brokerVars, channelVars, cryptoVars, pageVars>>

HostNext == ResearchNext \/ BrokerNext \/ ChannelNext \/ CryptoNext \/ PagesNext \/ DeskNext

HostSpec == HostInit /\ [][HostNext]_hostVars

-----------------------------------------------------------------------------
(* At most one worker answers and a Stop reaches the record; that worker has
   at most one broker object up, and its parts read through no other; a crypto
   order leaves at most once, under a fresh preview; a listing is whole; and a
   session the window stopped stays stopped (execution/worker_process.py:25,
   execution/session_runtime.py:121, broker/crypto.py:296,
   broker/robinhood_mcp.py:370, ui/session_window.py:478). *)
OneWorkerOneBroker ==
    /\ part = "broker" => Runtime!BrokerSessionKept
    /\ part = "channel" => Channel!ChannelKept
    /\ part = "crypto" => Crypto!CryptoKept
    /\ part = "pages" => Reads!ListingWhole
    /\ part = "desk" => Window!DeskKept

=============================================================================
