SPECIFICATION FormSpec
CONSTANTS
    Clickable <- MCClickable
    StoredRoles <- MCStoredRoles
PROPERTY DependentsUnchecked
