------------------------------ MODULE RouterIf ------------------------------
(***************************************************************************)
(* The wires between the router and the agents around it (yapp_if,         *)
(* channel_if, hbus_if and the ports of yapp_router), and the clock.       *)
(*                                                                         *)
(* Everything is clocked.  The UVC drivers and the router's registers      *)
(* change at negative edges, with nonblocking assignments, so all of them  *)
(* read the values from before the edge.  The channel outputs change, and  *)
(* the monitors sample, at positive edges.  A step of the composed system  *)
(* is therefore one clock edge, in which every component takes its part.   *)
(***************************************************************************)
EXTENDS FifoCore, Packets, HbusPkg

VARIABLES clock,         \* the last edge: 1 positive, 0 negative
          in_data,       \* yapp_if: driven by the YAPP TX driver
          in_data_vld,
          suspend,       \* channel_if: driven by the channel RX drivers
          data,          \*   driven by the router
          data_vld,
          hbus           \* hbus_if: the register write on the bus, if any

ifVars == <<clock, in_data, in_data_vld, suspend, data, data_vld, hbus>>

\* The interfaces after reset.
IfInit == /\ clock = 0
          /\ in_data = NoByte
          /\ in_data_vld = FALSE
          /\ suspend = [c \in Chan |-> TRUE]
          /\ data = [c \in Chan |-> NoByte]
          /\ data_vld = [c \in Chan |-> FALSE]
          /\ hbus = HbusIdle
=============================================================================
