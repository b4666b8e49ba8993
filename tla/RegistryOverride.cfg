\* A discovering app that registers its own handler before the manifest arrives.
SPECIFICATION Spec
CONSTANTS
    Core = {setenv}
    Fs = {export, reset}
    Index = {rebuild}
    AppIds = {app}
    SetEnv = setenv
    Revisions = {1, 2}
PROPERTY
    OverrideIsDeliberate
