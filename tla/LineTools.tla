----------------------------- MODULE LineTools -----------------------------
(***************************************************************************)
(* The tools that set up a line: csky_netsetting_example, for a network    *)
(* interface, and csky_uart_example, for a serial line at whose other end  *)
(* somebody sits who is asked to change the rate of the terminal, and to   *)
(* answer with a Y.  The kernel's network configuration, the line and that *)
(* person are external.                                                    *)
(***************************************************************************)
EXTENDS BoardTool, Naturals, Sequences

CONSTANTS Addresses,   \* what the command line may have for an address
          Rejected,    \* those that check_ip takes for invalid: the last byte exceeds 127
          Rates,       \* baudrate[]
          FirstRate,   \* the rate of the default configuration
          MaxTyped,    \* bound: letters in the line
          NULL

ASSUME LineAssumption ==
    /\ Rejected \subseteq Addresses
    /\ Rates \in Seq(Nat) \ {<<>>} /\ FirstRate \in Nat /\ MaxTyped \in Nat
    /\ NULL \notin Addresses \cup Nat

VARIABLES asked, iface,          \* the addresses of the command line, and of the interface
          rate, size, out, in,   \* the serial line: its settings, what is still to be sent
                                 \* and what has come
          turn,                  \* the rate that is tried
          defRate,               \* the rate of def_termio, which the tool found
          peerRate, question,    \* the rate of the terminal; the rate it is asked for
          patient,               \* the person types one Y for each question
          garbled                \* something was sent at another rate than the terminal's

net       == <<asked, iface>>
serial    == <<rate, size, out, in, turn, defRate>>
person    == <<peerRate, question, patient>>
lineVars  == <<net, serial, person, garbled>>

(* No step has been taken.  The line has any rate; the terminal has that of
   the default configuration. *)
LineRest ==
    /\ iface = [ip |-> NULL, mask |-> NULL, gateway |-> NULL]
    /\ rate \in {FirstRate} \cup {Rates[k] : k \in DOMAIN Rates} /\ defRate = rate
    /\ size = 8 /\ out = <<>> /\ in = <<>> /\ turn = 1
    /\ peerRate = FirstRate /\ question = NULL /\ garbled = FALSE

LineInit ==
    /\ LineRest
    /\ \/ /\ tool = "netsetting"
          /\ asked \in UNION {[1..k -> Addresses] : k \in 0..3}
          /\ place = (IF asked = <<>> THEN "show" ELSE "ip")
          /\ patient = TRUE
       \/ /\ tool = "uart" /\ place = "configure"
          /\ asked = <<>> /\ patient \in BOOLEAN

-----------------------------------------------------------------------------
(* Faulty variants of the definitions below, caught by the properties at the
   end of this module. *)

(* the gateway is set before the netmask *)
AfterSwapped(k) ==
    CASE k = 1 /\ Len(asked) = 3 -> "gateway"
      [] k = 1 /\ Len(asked) = 2 -> "mask"
      [] k = 3                   -> "mask"
      [] OTHER                   -> "done"

(* the settings are changed without waiting for what was written (TCSANOW) *)
DrainedAlways == TRUE

-----------------------------------------------------------------------------
(* main of csky_netsetting_example: as many settings as arguments, in this
   order *)
After(k) == IF k < Len(asked) THEN <<"ip", "mask", "gateway">>[k + 1] ELSE "done"

Valid(k) == asked[k] \notin Rejected

(* get_ip_addr and get_netmask_addr *)
NetShow ==
    /\ At("netsetting", "show")
    /\ Go("done")
    /\ UNCHANGED <<tool, mayFail, lineVars>>

(* A new address takes the netmask of its class, and the routes are gone. *)
NetSetIp ==
    /\ At("netsetting", "ip") /\ Valid(1)
    /\ iface' = [ip |-> asked[1], mask |-> NULL, gateway |-> NULL]
    /\ Go(After(1))
    /\ UNCHANGED <<tool, mayFail, asked, serial, person, garbled>>

(* So are they with a new netmask. *)
NetSetMask ==
    /\ At("netsetting", "mask") /\ Valid(2)
    /\ iface' = [iface EXCEPT !.mask = asked[2],
                              !.gateway = IF iface.mask = asked[2] THEN @ ELSE NULL]
    /\ Go(After(2))
    /\ UNCHANGED <<tool, mayFail, asked, serial, person, garbled>>

(* SIOCADDRT *)
NetSetGateway ==
    /\ At("netsetting", "gateway") /\ Valid(3)
    /\ iface' = [iface EXCEPT !.gateway = asked[3]]
    /\ Go(After(3))
    /\ UNCHANGED <<tool, mayFail, asked, serial, person, garbled>>

(* check_ip exits; what was set before stays. *)
NetRefuse ==
    /\ \/ At("netsetting", "ip") /\ ~Valid(1)
       \/ At("netsetting", "mask") /\ ~Valid(2)
       \/ At("netsetting", "gateway") /\ ~Valid(3)
    /\ Go("refused")
    /\ UNCHANGED <<tool, mayFail, lineVars>>

NetFails ==
    /\ Fails("netsetting", {"show", "ip", "mask", "gateway"})
    /\ UNCHANGED <<tool, mayFail, lineVars>>

-----------------------------------------------------------------------------
(* main of csky_uart_example.  A message is the rate that it asks the person
   for, or NULL.  TCSADRAIN waits until all that was written has been sent. *)
Drained == out = <<>>

Write(message) == out' = Append(out, message)

Uart(here, there) == At("uart", here) /\ Go(there) /\ UNCHANGED <<tool, mayFail, net, person, garbled>>

(* tcgetattr, tcsetattr of the default configuration, and the first message *)
UartConfigure ==
    /\ Uart("configure", "ask")
    /\ Drained
    /\ defRate' = rate /\ rate' = FirstRate
    /\ Write(NULL)
    /\ UNCHANGED <<size, in, turn>>

(* "Plese change the baudrate to..." *)
UartAsk ==
    /\ Uart("ask", "change")
    /\ Write(Rates[turn])
    /\ UNCHANGED <<rate, size, in, turn, defRate>>

UartChange ==
    /\ Uart("change", "answer")
    /\ Drained
    /\ rate' = Rates[turn]
    /\ UNCHANGED <<size, out, in, turn, defRate>>

(* Letters are read until one is a Y. *)
UartReadOther(here) ==
    /\ Uart(here, here)
    /\ in # <<>> /\ Head(in) # "Y"
    /\ in' = Tail(in)
    /\ UNCHANGED <<rate, size, out, turn, defRate>>

(* "When you see this message, the baudrate is..." *)
UartConfirm ==
    /\ Uart("answer", IF turn < Len(Rates) THEN "ask" ELSE "size7")
    /\ in # <<>> /\ Head(in) = "Y"
    /\ in' = Tail(in)
    /\ Write(NULL)
    /\ turn' = IF turn < Len(Rates) THEN turn + 1 ELSE turn
    /\ UNCHANGED <<rate, size, defRate>>

(* Characters of 7 bits, and back to 8.  What announces it goes out with the
   message before; 128 lines follow. *)
UartSize(here, bits, there) ==
    /\ Uart(here, there)
    /\ Drained
    /\ size' = bits
    /\ Write(NULL)
    /\ UNCHANGED <<rate, in, turn, defRate>>

(* "Final Test": once more a Y is waited for. *)
UartFinalAsk ==
    /\ Uart("final", "begin")
    /\ Write(rate)
    /\ UNCHANGED <<rate, size, in, turn, defRate>>

(* The 10000 lines, and the settings that were found at the beginning *)
UartBegin ==
    /\ Uart("begin", "restore")
    /\ in # <<>> /\ Head(in) = "Y"
    /\ in' = Tail(in)
    /\ Write(NULL)
    /\ UNCHANGED <<rate, size, turn, defRate>>

UartRestore ==
    /\ Uart("restore", "done")
    /\ Drained
    /\ rate' = defRate
    /\ UNCHANGED <<size, out, in, turn, defRate>>

UartFails ==
    /\ Fails("uart", {"configure", "ask", "change", "answer", "size7", "size8", "final"})
    /\ UNCHANGED <<tool, mayFail, lineVars>>

-----------------------------------------------------------------------------
(* The line and the person, external.  A message that arrives at the rate of
   the terminal is read; a question waits for the person. *)
Transmit ==
    /\ tool = "uart" /\ out # <<>>
    /\ out' = Tail(out)
    /\ garbled' = (garbled \/ (size = 8 /\ rate # peerRate))
    /\ question' = (IF rate = peerRate /\ Head(out) # NULL THEN Head(out) ELSE question)
    /\ UNCHANGED <<tool, place, mayFail, net, rate, size, in, turn, defRate, peerRate, patient>>

(* The terminal is changed first, and then the Y is typed.  It is only a Y
   when the tool has changed its side. *)
Type ==
    /\ tool = "uart" /\ question # NULL /\ Len(in) < MaxTyped
    /\ peerRate' = question
    /\ in' = Append(in, IF rate = question THEN "Y" ELSE "?")
    /\ question' \in (IF patient THEN {NULL} ELSE {question, NULL})
    /\ UNCHANGED <<tool, place, mayFail, net, rate, size, out, turn, defRate, patient, garbled>>

-----------------------------------------------------------------------------
Net  == NetShow \/ NetSetIp \/ NetSetMask \/ NetSetGateway \/ NetRefuse \/ NetFails
Line == UartConfigure \/ UartAsk \/ UartChange \/ UartReadOther("answer") \/ UartReadOther("begin")
          \/ UartConfirm \/ UartSize("size7", 7, "size8") \/ UartSize("size8", 8, "final")
          \/ UartFinalAsk \/ UartBegin \/ UartRestore \/ UartFails

LineNext == Net \/ Line \/ Transmit \/ Type

LineSpec ==
    mayFail \in BOOLEAN /\ LineInit /\ [][LineNext]_<<tool, place, mayFail, lineVars>>
-----------------------------------------------------------------------------
(* What the tool has reported as set is in force and stays so through the
   settings that follow, although a new address resets the netmask and both
   drop the gateway's route.  With the exit code 0 all of them are. *)
Reported == CASE place = "done"    -> Len(asked)
              [] place = "mask"    -> 1
              [] place = "gateway" -> 2
              [] OTHER          -> 0

SettingsInForce ==
    tool = "netsetting" =>
        \A k \in 1..Reported : asked[k] = <<iface.ip, iface.mask, iface.gateway>>[k]

(* Whatever the tool sends arrives at a terminal that has the same rate: the
   question before the tool changes its own rate, and the rest after the
   person has.  The lines of 7 bits are not for this terminal.  A second Y
   for one question is taken as the answer to the next. *)
SameRate == patient => ~garbled
=============================================================================
