--------------------------- MODULE MCHomeAssistant ---------------------------
EXTENDS HomeAssistant

\* A switch sets one option; send_tcl may ask for two that exclude each other.
MCSettings ==
    {v \in [Options -> {"on", "off", "keep"}] :
        \/ Cardinality({o \in Options : v[o] # "keep"}) = 1
        \/ v = [econo |-> "on", turbo |-> "on", aux_heat |-> "keep"]}
=============================================================================
