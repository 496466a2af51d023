CONSTANTS
    Followed = {"switch_ipsec_"}
SPECIFICATION Spec
PROPERTIES
    OnlyTheUser
