----------------------------- MODULE MCVisualizer -----------------------------
(* Two timer identifiers let a timer be attached while another one runs. *)
EXTENDS Visualizer
==============================================================================
