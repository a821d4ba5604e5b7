------------------------------ MODULE MCSdlInput ------------------------------
EXTENDS SdlInput, TLC

CONSTANTS pad1, pad2

MCKeys == {<<"keyboard", 1>>, <<"mouse", 1>>}
MCDevices == {"keyboard", "mouse", "gamepad"}
MCBindings == <<"keyboard", 1>> :> "fire" @@ <<"mouse", 1>> :> "move"
                @@ <<"gamepad", 1>> :> "fire"
MCSymmetry == Permutations({pad1, pad2})
===============================================================================
